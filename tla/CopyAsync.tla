------------------------------ MODULE CopyAsync ------------------------------
(***************************************************************************)
(* util_copy_file_async and util_copy_file_async_parsed of fs.c: a caller  *)
(* opens pairs of files, and a thread copies all of them with one poll     *)
(* loop. A source is a regular file, or a FIFO that another process writes *)
(* to meanwhile.                                                           *)
(***************************************************************************)
EXTENDS Integers, Sequences, FiniteSets, SequencesExt, FiniteSetsExt

CONSTANTS Files,      \* numbers of the pairs, from 1: at most MAX_FILES_COPY
          Fifos,      \* those whose source is a FIFO
          Sizes,      \* the lengths a source may have
          Chunk       \* units one read takes: BUFSIZ

CopyAsyncAssumption ==
  /\ IsFiniteSet(Files) /\ Files = 1..Cardinality(Files)
  /\ Fifos \subseteq Files /\ Sizes \subseteq Nat \ {0} /\ Chunk \in Nat \ {0}

VARIABLES
  pc,      \* "open" (the caller), "poll", "loop", "copy" (thread) or "done"
  nfds,    \* pairs the caller opened
  source,  \* per pair: units that can be read, units the writer still has
  dest,    \* units written to the destination
  fds,     \* the descriptors of each pair that are open
  left,    \* the local left
  n, i,    \* the locals of a round: what poll returned, the index
  revents, \* the pairs whose POLLIN poll reported
  failed,  \* pairs with a read error or a write that was not complete
  broken   \* poll failed, and the loop was left

vars == <<pc, nfds, source, dest, fds, left, n, i, revents, failed, broken>>

Init ==
  /\ pc = "open" /\ nfds = 0 /\ left = 0 /\ n = 0 /\ i = 0
  /\ \E size \in [Files -> Sizes] :
       source = [f \in Files |->
         [total |-> size[f], read |-> 0,
          ready |-> IF f \in Fifos THEN 0 ELSE size[f], writer |-> f \in Fifos]]
  /\ dest = [f \in Files |-> 0]
  /\ fds = [f \in Files |-> {}]
  /\ revents = {} /\ failed = {} /\ broken = FALSE

-----------------------------------------------------------------------------
(* The writer of a FIFO *)

WriterWrites(f) ==
  /\ source[f].writer /\ source[f].ready < source[f].total
  /\ source' = [source EXCEPT ![f].ready = @ + 1]
  /\ UNCHANGED <<pc, nfds, dest, fds, left, n, i, revents, failed, broken>>

\* It closes its end when it has written all.
WriterEnds(f) ==
  /\ source[f].writer /\ source[f].ready = source[f].total
  /\ source' = [source EXCEPT ![f].writer = FALSE]
  /\ UNCHANGED <<pc, nfds, dest, fds, left, n, i, revents, failed, broken>>

-----------------------------------------------------------------------------
(* The caller *)

\* util_copy_file_async; if one of the two cannot be opened the other is
\* closed, and the caller leaves the pair out.
Open ==
  /\ pc = "open" /\ nfds < Cardinality(Files)
  /\ fds' = [fds EXCEPT ![nfds + 1] = {"source", "dest"}]
  /\ nfds' = nfds + 1
  /\ UNCHANGED <<pc, source, dest, left, n, i, revents, failed, broken>>

\* The thread starts with the pairs that were opened.
StartThread ==
  /\ pc = "open" /\ nfds > 0
  /\ pc' = "poll" /\ left' = nfds
  /\ UNCHANGED <<nfds, source, dest, fds, n, i, revents, failed, broken>>

-----------------------------------------------------------------------------
(* util_copy_file_async_parsed *)

Data(f) == source[f].read < source[f].ready
Polled == {f \in 1..nfds : "source" \in fds[f]}

\* POLLIN: there is data, or the end of a regular file.
In(f) == Data(f) \/ f \notin Fifos

\* poll also returns for a FIFO whose writers are gone; then without POLLIN.
Event(f) == In(f) \/ ~source[f].writer

Poll ==
  /\ pc = "poll" /\ left > 0
  /\ \E f \in Polled : Event(f)
  /\ n' = Cardinality({f \in Polled : Event(f)})
  /\ revents' = {f \in Polled : In(f)}
  /\ pc' = "loop" /\ i' = 1
  /\ UNCHANGED <<nfds, source, dest, fds, left, failed, broken>>

\* A signal, for one: the loop is left with what is not copied still open.
PollFails ==
  /\ pc = "poll" /\ left > 0
  /\ pc' = "done" /\ broken' = TRUE
  /\ UNCHANGED <<nfds, source, dest, fds, left, n, i, revents, failed>>

\* The for loop ends with the last pair, or when the events are used up.
NextRound(m) == i = nfds \/ m <= 0

\* A pair without POLLIN is passed over.
Skip ==
  /\ pc = "loop" /\ i \notin revents
  /\ IF NextRound(n) THEN pc' = "poll" /\ UNCHANGED i
     ELSE i' = i + 1 /\ UNCHANGED pc
  /\ UNCHANGED <<nfds, source, dest, fds, left, n, revents, failed, broken>>

\* A pair with POLLIN is copied to its end, which may block on a FIFO.
Take ==
  /\ pc = "loop" /\ i \in revents
  /\ pc' = "copy" /\ n' = n - 1
  /\ UNCHANGED <<nfds, source, dest, fds, left, i, revents, failed, broken>>

\* The end of a pair: both are closed, whatever happened.
ClosePair(f) == fds' = [fds EXCEPT ![f] = {}]

\* Mutant: a pair that ends while poll tells of data is not counted.
EndPair_KeepsLeft ==
  /\ ClosePair(i)
  /\ left' = IF ~Data(i) THEN left - 1 ELSE left
  /\ revents' = revents \ {i}
  /\ IF NextRound(n) THEN pc' = "poll" /\ UNCHANGED i
     ELSE i' = i + 1 /\ pc' = "loop"

\* The next pair, or the next round.
EndPair ==
  /\ ClosePair(i)
  /\ left' = left - 1
  /\ revents' = revents \ {i}
  /\ IF NextRound(n) THEN pc' = "poll" /\ UNCHANGED i
     ELSE i' = i + 1 /\ pc' = "loop"

Amount == Min({Chunk, source[i].ready - source[i].read})

\* A read and a complete write.
CopyChunk ==
  /\ pc = "copy" /\ Data(i)
  /\ source' = [source EXCEPT ![i].read = @ + Amount]
  /\ dest' = [dest EXCEPT ![i] = @ + Amount]
  /\ UNCHANGED <<pc, nfds, fds, left, n, i, revents, failed, broken>>

\* A write that is short or fails, or a read that fails.
CopyFails ==
  /\ pc = "copy"
  /\ failed' = failed \cup {i}
  /\ EndPair
  /\ UNCHANGED <<nfds, source, dest, n, broken>>

\* read gives 0 at the end; on a FIFO only when its writers are gone.
AtEnd(f) == ~Data(f) /\ ~source[f].writer

CopyEnds ==
  /\ pc = "copy" /\ AtEnd(i)
  /\ EndPair
  /\ UNCHANGED <<nfds, source, dest, n, failed, broken>>

Finish ==
  /\ pc = "poll" /\ left = 0
  /\ pc' = "done"
  /\ UNCHANGED <<nfds, source, dest, fds, left, n, i, revents, failed, broken>>

Thread == \/ Poll \/ Skip \/ Take \/ CopyChunk \/ CopyEnds \/ Finish

\* The thread is at its end, and so are the writers.
Over == pc = "done" /\ UNCHANGED vars

Next ==
  \/ Open \/ StartThread
  \/ Thread \/ PollFails \/ CopyFails
  \/ \E f \in Files : WriterWrites(f) \/ WriterEnds(f)
  \/ Over

\* The thread is scheduled, and the writers of the FIFOs write and end.
Fairness ==
  /\ WF_vars(Thread)
  /\ \A f \in Files : WF_vars(WriterWrites(f) \/ WriterEnds(f))

Spec == Init /\ [][Next]_vars /\ Fairness

-----------------------------------------------------------------------------
(* Properties *)

\* The types of the variables; left counts the pairs that are open.
TypeOK ==
  /\ pc \in {"open", "poll", "loop", "copy", "done"}
  /\ nfds \in 0..Cardinality(Files) /\ i \in 0..nfds /\ n \in 0..nfds
  /\ revents \subseteq Files /\ failed \subseteq Files
  /\ \A f \in Files : fds[f] \in SUBSET {"source", "dest"}
  /\ pc # "open" => left = Cardinality({f \in Files : fds[f] # {}})

\* A pair that was closed without a failure is complete, also when its
\* source was a FIFO that was written slower than it was read.
CopiesAreComplete ==
  \A f \in 1..nfds :
    fds[f] = {} /\ f \notin failed => dest[f] = source[f].total

\* Nothing stays open at the end but, when poll failed, both descriptors of
\* pairs of which nothing was copied yet. No pair is left half closed, and
\* none that was begun is left.
ClosedOrUntouched ==
  pc = "done" => \A f \in Files :
    fds[f] # {} => broken /\ fds[f] = {"source", "dest"} /\ dest[f] = 0

\* Neither a failure of one pair nor a slow source keeps the thread from
\* its end: all the pairs are copied.
ThreadEnds == pc = "poll" ~> pc = "done"

=============================================================================
