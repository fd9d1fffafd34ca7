------------------------------ MODULE Command ------------------------------
(***************************************************************************)
(* command.c on Unix: a caller that starts a child with pipes on its       *)
(* standard streams, feeds and drains them in one poll loop, waits for it  *)
(* and reports its status; synchronously, asynchronously or detached.      *)
(*                                                                         *)
(* The child is a process that runs beside the caller: it executes a       *)
(* program, a sequence of "out" and "err" (write a unit), "read" (a unit), *)
(* "drain" (read until the end) and "close" (its standard input).          *)
(***************************************************************************)
EXTENDS Integers, Sequences, FiniteSets, SequencesExt, FiniteSetsExt

CONSTANTS Flags,      \* the combinations of flags callers use
          Programs,   \* what children do
          MaxInput,   \* longest stdin_buffer, in units
          PipeSize,   \* units a pipe holds
          ReadSize,   \* units one read of the caller takes at most
          MaxRuns     \* how many times the command is run

CommandAssumption ==
  /\ Flags \subseteq [out: BOOLEAN, err: BOOLEAN, merge: BOOLEAN,
                      async: BOOLEAN, detached: BOOLEAN, stdin: BOOLEAN]
  /\ \A p \in Programs : p \in Seq({"out", "err", "read", "drain", "close"})
  /\ MaxInput \in Nat /\ MaxRuns \in Nat
  /\ PipeSize \in Nat \ {0} /\ ReadSize \in Nat \ {0}

VARIABLES
  pc,        \* where the caller is: "idle" outside of command.c
  flags,     \* flags of the last command_start
  input,     \* length of stdin_buffer; -1: NULL
  ends,      \* pipe ends each process holds
  pipe,      \* units in each pipe
  child,     \* state, rest of its program, exit code
  io,        \* the locals of command_result_process_io
  sigpipe,   \* disposition of SIGPIPE in the caller
  result,    \* command->result
  wrote,     \* units the child wrote to captured streams, in order
  got,       \* units the child read, and whether it saw the end
  runs

vars == <<pc, flags, input, ends, pipe, child, io, sigpipe, result, wrote,
          got, runs>>

Pipes == {"out", "err", "in"}
Ends == Pipes \X {"r", "w"}
Quiet == [p \in Pipes |-> "none"]

\* command_result_init
NoResult == [pid |-> FALSE, status |-> -1, exited |-> FALSE,
             output |-> <<>>, stdout |-> <<>>, stderr |-> <<>>]

\* The builders and the pollfd array at the start of process_io.
NoIo == [output |-> <<>>, stdout |-> <<>>, stderr |-> <<>>,
         offset |-> 0, revents |-> Quiet, back |-> "idle"]

\* Merging implies that the standard output is captured.
Normalized(f) == [f EXCEPT !.out = f.out \/ (f.merge /\ f.err)]

Capture(f) == f.out \/ f.err

OwnErr(f) == f.err /\ ~f.merge

\* The pipe behind a stream of the child; "none": it is inherited.
Sink(f, s) ==
  CASE s = "out" /\ f.out            -> "out"
    [] s = "err" /\ f.err /\ f.merge -> "out"
    [] s = "err" /\ OwnErr(f)        -> "err"
    [] OTHER                         -> "none"

Readers(p) == {q \in DOMAIN ends : <<p, "r">> \in ends[q]}
Writers(p) == {q \in DOMAIN ends : <<p, "w">> \in ends[q]}

Init ==
  /\ pc = "idle"
  /\ flags = [out |-> FALSE, err |-> FALSE, merge |-> FALSE,
              async |-> FALSE, detached |-> FALSE, stdin |-> FALSE]
  /\ input = -1
  /\ ends = [caller |-> {}, child |-> {}]
  /\ pipe = [p \in Pipes |-> <<>>]
  /\ child = [state |-> "none", todo |-> <<>>, code |-> 0]
  /\ io = NoIo
  /\ sigpipe = "default"
  /\ result = NoResult
  /\ wrote = <<>>
  /\ got = [units |-> 0, eof |-> FALSE]
  /\ runs = 0

-----------------------------------------------------------------------------
(* command_start *)

\* The combinations command_start refuses with EINVAL.
Refused(f, in) ==
  \/ f.detached /\ Capture(f)
  \/ in >= 0 /\ (f.async \/ f.detached \/ f.stdin)

\* A refused start only resets the result.
Refuse(f, in) ==
  /\ pc = "idle" /\ runs < MaxRuns /\ child.state \in {"none", "reaped"}
  /\ Refused(Normalized(f), in)
  /\ result' = NoResult
  /\ ends' = [ends EXCEPT !.caller = {}]
  /\ runs' = runs + 1
  /\ UNCHANGED <<pc, flags, input, pipe, child, io, sigpipe, wrote, got>>

\* Both ends of every pipe that the flags ask for.
Opened(f, in) ==
  ({p \in {"in"} : in >= 0} \cup {p \in {"out"} : f.out}
   \cup {p \in {"err"} : OwnErr(f)}) \X {"r", "w"}

\* The pipes are made and the child is forked: it holds every end too.
\* Callers wait for an earlier child before they run the command again.
Start(f, in, prog) ==
  LET g == Normalized(f) IN
  /\ pc = "idle" /\ runs < MaxRuns /\ child.state \in {"none", "reaped"}
  /\ ~Refused(g, in)
  /\ pc' = "forked"
  /\ flags' = g /\ input' = in
  /\ ends' = [p \in DOMAIN ends |-> Opened(g, in)]
  /\ pipe' = [p \in Pipes |-> <<>>]
  /\ child' = [state |-> "forked", todo |-> prog, code |-> 0]
  /\ result' = NoResult
  /\ wrote' = <<>> /\ got' = [units |-> 0, eof |-> FALSE]
  /\ runs' = runs + 1
  /\ UNCHANGED <<io, sigpipe>>

\* fork fails: everything is closed, and fatal ends the caller.
ForkFails(f, in) ==
  /\ pc = "idle" /\ runs < MaxRuns /\ child.state \in {"none", "reaped"}
  /\ ~Refused(Normalized(f), in)
  /\ pc' = "fatal"
  /\ ends' = [ends EXCEPT !.caller = {}]
  /\ result' = NoResult
  /\ UNCHANGED <<flags, input, pipe, child, io, sigpipe, wrote, got, runs>>

\* The ends that the caller keeps.
CallerKeeps(E) == E \cap {<<"in", "w">>, <<"out", "r">>, <<"err", "r">>}

\* The caller closes the ends of the child; command_run goes on by flags.
Started ==
  /\ pc = "forked"
  /\ ends' = [ends EXCEPT !.caller = CallerKeeps(@)]
  /\ result' = [result EXCEPT !.pid = TRUE]
  /\ pc' = CASE flags.detached -> "wait"
             [] ~flags.detached /\ flags.async -> "idle"
             [] ~flags.detached /\ ~flags.async /\ (Capture(flags) \/ input >= 0)
                  -> "io"
             [] OTHER -> "wait"
  /\ io' = [NoIo EXCEPT !.back = "wait"]
  /\ UNCHANGED <<flags, input, pipe, child, sigpipe, wrote, got, runs>>

-----------------------------------------------------------------------------
(* The child *)

ChildKeeps(E) == E \cap {<<"in", "r">>, <<"out", "w">>, <<"err", "w">>}

\* Exit closes what the child holds.
Exit(code) ==
  /\ child' = [child EXCEPT !.state = "zombie", !.todo = <<>>, !.code = code]
  /\ ends' = [ends EXCEPT !.child = {}]

\* The child closes the caller's ends, moves its own to descriptors 0 to 2
\* and executes the program. A detached one forks again and exits.
ChildExec ==
  /\ child.state = "forked"
  /\ IF flags.detached
     THEN Exit(0)
     ELSE /\ child' = [child EXCEPT !.state = "running"]
          /\ ends' = [ends EXCEPT !.child = ChildKeeps(@)]
  /\ UNCHANGED <<pc, flags, input, pipe, io, sigpipe, result, wrote, got, runs>>

\* chdir, setsid, setpgid, the second fork or execvp fails.
ChildFails ==
  /\ child.state = "forked"
  /\ Exit(127)
  /\ UNCHANGED <<pc, flags, input, pipe, io, sigpipe, result, wrote, got, runs>>

Running == child.state = "running" /\ child.todo # <<>>
Done1 == [child EXCEPT !.todo = Tail(@)]

\* A write of one unit; it blocks while the pipe is full.
ChildWrites ==
  /\ Running /\ Head(child.todo) \in {"out", "err"}
  /\ LET s == Head(child.todo)
         p == Sink(flags, s)
         u == <<s, Len(child.todo)>> IN
     IF p = "none"
     THEN UNCHANGED <<pipe, wrote>>
     ELSE /\ Len(pipe[p]) < PipeSize
          /\ pipe' = [pipe EXCEPT ![p] = Append(@, u)]
          /\ wrote' = Append(wrote, u)
  /\ child' = Done1
  /\ UNCHANGED <<pc, flags, input, ends, io, sigpipe, result, got, runs>>

\* A read of one unit from the pipe; at the end of it, nothing.
ChildReads ==
  /\ Running /\ Head(child.todo) \in {"read", "drain"}
  /\ \/ /\ <<"in", "r">> \notin ends.child
        /\ child' = Done1
        /\ UNCHANGED <<pipe, got>>
     \/ /\ <<"in", "r">> \in ends.child
        /\ pipe["in"] # <<>>
        /\ pipe' = [pipe EXCEPT !["in"] = Tail(@)]
        /\ got' = [got EXCEPT !.units = IF Head(pipe["in"]) = @ + 1
                                        THEN @ + 1 ELSE -1]
        /\ child' = IF Head(child.todo) = "read" THEN Done1 ELSE child
     \/ /\ <<"in", "r">> \in ends.child
        /\ pipe["in"] = <<>> /\ Writers("in") = {}
        /\ got' = [got EXCEPT !.eof = TRUE]
        /\ child' = Done1
        /\ UNCHANGED pipe
  /\ UNCHANGED <<pc, flags, input, ends, io, sigpipe, result, wrote, runs>>

\* The child closes its standard input.
ChildCloses ==
  /\ Running /\ Head(child.todo) = "close"
  /\ ends' = [ends EXCEPT !.child = @ \ {<<"in", "r">>}]
  /\ child' = Done1
  /\ UNCHANGED <<pc, flags, input, pipe, io, sigpipe, result, wrote, got, runs>>

\* The program ends with some exit code.
ChildExits ==
  /\ child.state = "running" /\ child.todo = <<>>
  /\ \E code \in {0, 3} : Exit(code)
  /\ UNCHANGED <<pc, flags, input, pipe, io, sigpipe, result, wrote, got, runs>>

Child == \/ ChildExec \/ ChildFails \/ ChildWrites \/ ChildReads
         \/ ChildCloses \/ ChildExits

-----------------------------------------------------------------------------
(* command_result_process_io *)

\* The set-up: an empty buffer is only an end of file; SIGPIPE is ignored
\* while there is input to write.
EnterIo ==
  /\ pc = "io"
  /\ pc' = "poll"
  /\ IF <<"in", "w">> \in ends.caller /\ input = 0
     THEN ends' = [ends EXCEPT !.caller = @ \ {<<"in", "w">>}]
     ELSE UNCHANGED ends
  /\ sigpipe' = IF <<"in", "w">> \in ends.caller /\ input > 0
                THEN "ignored" ELSE sigpipe
  /\ UNCHANGED <<flags, input, pipe, child, io, result, wrote, got, runs>>

\* What poll reports of the caller's end of a pipe.
Ready(p) ==
  CASE p = "in" /\ <<"in", "w">> \in ends.caller ->
         IF Readers("in") = {} THEN "err"
         ELSE IF Len(pipe["in"]) < PipeSize THEN "out" ELSE "none"
    [] p # "in" /\ <<p, "r">> \in ends.caller ->
         IF pipe[p] # <<>> THEN "in"
         ELSE IF Writers(p) = {} THEN "hup" ELSE "none"
    [] OTHER -> "none"

\* poll returns when a descriptor is ready, with a snapshot of them all.
Poll ==
  /\ pc = "poll" /\ ends.caller # {}
  /\ \E p \in Pipes : Ready(p) # "none"
  /\ io' = [io EXCEPT !.revents = [p \in Pipes |-> Ready(p)]]
  /\ pc' = "handle"
  /\ UNCHANGED <<flags, input, ends, pipe, child, sigpipe, result, wrote, got,
                 runs>>

\* The loop looks at standard output, standard error and then input.
Turn(p) ==
  /\ pc = "handle" /\ io.revents[p] # "none"
  /\ p = "err" => io.revents["out"] = "none"
  /\ p = "in" => io.revents["out"] = "none" /\ io.revents["err"] = "none"

\* The last event of a round leads back to poll.
Next1(p) ==
  IF \E q \in Pipes \ {p} : io.revents[q] # "none" THEN "handle" ELSE "poll"

ClosePoll(p, side) == ends' = [ends EXCEPT !.caller = @ \ {<<p, side>>}]

\* Mutant: a hang-up ends the output, whatever is left in the pipe.
OutputEvent_ClosesAtHup(p) ==
  LET data == pipe[p] IN
  /\ p # "in" /\ Turn(p)
  /\ pipe' = [pipe EXCEPT ![p] = <<>>]
  /\ IF Writers(p) = {} THEN ClosePoll(p, "r") ELSE UNCHANGED ends
  /\ io' = [io EXCEPT !.revents[p] = "none",
                      !.output = IF io.revents[p] = "hup" THEN @ ELSE @ \o data,
                      !.stdout = IF p = "out" /\ Writers(p) # {} THEN @ \o data ELSE @,
                      !.stderr = IF p = "err" /\ Writers(p) # {} THEN @ \o data ELSE @]
  /\ pc' = Next1(p)
  /\ UNCHANGED <<flags, input, child, sigpipe, result, wrote, got, runs>>

\* Mutant: the end of the output does not close the descriptor.
OutputEvent_KeepsEnd(p) ==
  LET n == Min({ReadSize, Len(pipe[p])})
      data == SubSeq(pipe[p], 1, n) IN
  /\ p # "in" /\ Turn(p)
  /\ pipe' = [pipe EXCEPT ![p] = SubSeq(@, n + 1, Len(@))]
  /\ io' = [io EXCEPT !.revents[p] = "none", !.output = @ \o data]
  /\ pc' = Next1(p)
  /\ UNCHANGED <<flags, input, ends, child, sigpipe, result, wrote, got, runs>>

\* command_result_process_output_event and command_result_append: one read,
\* or the end of the stream.
OutputEvent(p) ==
  LET n == Min({ReadSize, Len(pipe[p])})
      data == SubSeq(pipe[p], 1, n) IN
  /\ p # "in" /\ Turn(p)
  /\ n > 0 \/ Writers(p) = {}
  /\ pipe' = [pipe EXCEPT ![p] = SubSeq(@, n + 1, Len(@))]
  /\ IF n > 0
     THEN UNCHANGED ends
     ELSE ClosePoll(p, "r")
  /\ io' = [io EXCEPT !.revents[p] = "none",
                      !.output = @ \o data,
                      !.stdout = IF p = "out" THEN @ \o data ELSE @,
                      !.stderr = IF p = "err" THEN @ \o data ELSE @]
  /\ pc' = Next1(p)
  /\ UNCHANGED <<flags, input, child, sigpipe, result, wrote, got, runs>>

\* What write takes: some of the rest, as far as it fits.
Fits == Min({input - io.offset, PipeSize - Len(pipe["in"])})

\* command_result_process_stdin_event. The reader may have gone since poll
\* returned: the write then fails with EPIPE, and SIGPIPE is raised.
StdinEvent ==
  /\ Turn("in")
  /\ LET gone == Readers("in") = {} IN
     \/ /\ io.revents["in"] = "err" \/ gone
        /\ IF io.revents["in"] = "out" /\ sigpipe = "default"
           THEN pc' = "killed" /\ UNCHANGED <<ends, io>>
           ELSE /\ ClosePoll("in", "w")
                /\ io' = [io EXCEPT !.revents["in"] = "none"]
                /\ pc' = Next1("in")
        /\ UNCHANGED pipe
     \/ /\ io.revents["in"] = "out" /\ ~gone
        /\ \E n \in 1..Fits :
             /\ pipe' = [pipe EXCEPT !["in"] =
                            @ \o [i \in 1..n |-> io.offset + i]]
             /\ io' = [io EXCEPT !.revents["in"] = "none", !.offset = @ + n]
             /\ IF io.offset + n >= input
                THEN ClosePoll("in", "w")
                ELSE UNCHANGED ends
        /\ pc' = Next1("in")
  /\ UNCHANGED <<flags, input, child, sigpipe, result, wrote, got, runs>>

\* What the flags of process_io hand over to the result.
Taken(f) ==
  [result EXCEPT !.output = IF Capture(f) THEN io.output ELSE @,
                 !.stdout = IF f.out THEN io.stdout ELSE @,
                 !.stderr = IF f.err THEN io.stderr ELSE @]

\* Nothing is left to poll: the disposition is put back, the builders move
\* to the result. command_result_read_captured captures both streams.
EndIo ==
  /\ pc = "poll" /\ ends.caller = {}
  /\ sigpipe' = "default"
  /\ result' = Taken(IF io.back = "idle"
                     THEN [flags EXCEPT !.out = TRUE, !.err = TRUE]
                     ELSE flags)
  /\ pc' = io.back
  /\ io' = NoIo
  /\ UNCHANGED <<flags, input, ends, pipe, child, wrote, got, runs>>

-----------------------------------------------------------------------------
(* The calls for a child that was started asynchronously *)

\* command_result_read_captured: while there is something to read.
ReadCaptured ==
  /\ pc = "idle" /\ ends.caller # {}
  /\ pc' = "io"
  /\ io' = NoIo
  /\ UNCHANGED <<flags, input, ends, pipe, child, sigpipe, result, wrote, got,
                 runs>>

\* A caller waits after it has read what was captured.
CallWait ==
  /\ pc = "idle" /\ result.pid /\ ends.caller = {}
  /\ child.state # "reaped"
  /\ pc' = "wait"
  /\ UNCHANGED <<flags, input, ends, pipe, child, io, sigpipe, result, wrote,
                 got, runs>>

\* command_status_from_wait: a signal counts from 128.
Status(code) == [result EXCEPT !.status = code, !.exited = code < 128]

\* command_wait: waitpid takes the zombie.
Wait ==
  /\ pc = "wait" /\ child.state = "zombie"
  /\ child' = [child EXCEPT !.state = "reaped"]
  /\ result' = Status(child.code)
  /\ pc' = "idle"
  /\ UNCHANGED <<flags, input, ends, pipe, io, sigpipe, wrote, got, runs>>

\* command_signal, with a signal that ends the child.
Signal ==
  /\ pc = "idle" /\ result.pid /\ child.state \in {"forked", "running"}
  /\ Exit(128 + 15)
  /\ UNCHANGED <<pc, flags, input, pipe, io, sigpipe, result, wrote, got, runs>>

\* command_result_free, when the child was waited for.
Free ==
  /\ pc = "idle" /\ child.state = "reaped" /\ result # NoResult
  /\ result' = NoResult
  /\ ends' = [ends EXCEPT !.caller = {}]
  /\ UNCHANGED <<pc, flags, input, pipe, child, io, sigpipe, wrote, got, runs>>

\* The caller has no more runs to do, or it ended.
Over ==
  /\ \/ pc = "idle" /\ runs = MaxRuns /\ child.state \in {"none", "reaped"}
     \/ pc \in {"fatal", "killed"}
  /\ UNCHANGED vars

Caller == \/ Started \/ EnterIo \/ Poll \/ StdinEvent \/ EndIo \/ Wait
          \/ \E p \in Pipes : OutputEvent(p)

Next ==
  \/ Caller \/ Child \/ Over
  \/ \E f \in Flags, in \in -1..MaxInput :
       \/ Refuse(f, in) \/ ForkFails(f, in)
       \/ \E prog \in Programs : Start(f, in, prog)
  \/ ReadCaptured \/ CallWait \/ Signal \/ Free

Spec == Init /\ [][Next]_vars

\* The caller and the child are processes that the system schedules.
Fairness == WF_vars(Caller) /\ WF_vars(Child)

FairSpec == Spec /\ Fairness

-----------------------------------------------------------------------------
(* Properties *)

\* Where the units of a stream are in a text. No two units are the same.
At(q, s) == {i \in DOMAIN q : q[i][1] = s}

\* q has the units that were written to stream s, each once, in their order.
HasAll(q, s) ==
  /\ {q[i] : i \in At(q, s)} = {wrote[i] : i \in At(wrote, s)}
  /\ \A i, j \in At(q, s) : i < j =>
       \E k, l \in At(wrote, s) : k < l /\ q[i] = wrote[k] /\ q[j] = wrote[l]

\* q has them and no others.
IsStream(q, s) == HasAll(q, s) /\ At(q, s) = DOMAIN q

\* The types of the variables; a pipe never holds more than its size.
TypeOK ==
  /\ pc \in {"idle", "forked", "io", "poll", "handle", "wait", "fatal", "killed"}
  /\ flags \in [out: BOOLEAN, err: BOOLEAN, merge: BOOLEAN,
                async: BOOLEAN, detached: BOOLEAN, stdin: BOOLEAN]
  /\ input \in -1..MaxInput
  /\ ends \in [{"caller", "child"} -> SUBSET Ends]
  /\ \A p \in Pipes : Len(pipe[p]) <= PipeSize
  /\ child.state \in {"none", "forked", "running", "zombie", "reaped"}
  /\ io.offset \in 0..MaxInput
  /\ io.revents \in [Pipes -> {"none", "in", "out", "hup", "err"}]
  /\ sigpipe \in {"default", "ignored"}
  /\ got.units \in -1..MaxInput
  /\ runs \in 0..MaxRuns

\* Once the poll loop is over, the result has every unit the child wrote:
\* each captured stream in order, and with COMMAND_MERGE_STDERR the two in
\* the order they were written (the test expects "stdoutstderr").
CaptureIsComplete ==
  /\ pc = "idle" /\ result.pid /\ ends.caller = {} /\ result.status # -1
  /\ Capture(flags) /\ child.state = "reaped"
  => /\ flags.merge /\ flags.err => result.output = wrote /\ result.stdout = wrote
     /\ OwnErr(flags) => IsStream(result.stderr, "err")
     /\ flags.out /\ ~(flags.merge /\ flags.err) => IsStream(result.stdout, "out")
     /\ \A s \in {"out", "err"} : HasAll(result.output, s)

\* The child gets the units of stdin_buffer in order, without loss or
\* repetition, and an end of file only after the last: partial writes.
InputIsIntact ==
  /\ got.units >= 0
  /\ got.eof => got.units = input

\* A child that does not read its input never ends the caller by SIGPIPE,
\* and the disposition is the caller's again when it has control.
SigpipeIsContained ==
  /\ pc # "killed"
  /\ pc \in {"idle", "wait"} => sigpipe = "default"

\* The events of a round are handled one by one, later than poll saw them:
\* the read of a blocking pipe never finds it empty with a writer.
ReadNeverBlocks ==
  \A p \in {"out", "err"} :
    pc = "handle" /\ io.revents[p] # "none" => pipe[p] # <<>> \/ Writers(p) = {}

\* A finished synchronous run leaves no descriptor and no zombie behind, and
\* its status is the child's.
NothingIsLeft ==
  pc = "idle" /\ result.pid /\ ~flags.async =>
    /\ ends.caller = {}
    /\ child.state = "reaped"
    /\ result.status = child.code

\* Every call returns, whatever the child reads and writes: the loop serves
\* all pipes, so the two never wait for each other.
CallReturns == pc \notin {"idle", "fatal"} ~> pc = "idle"

=============================================================================
