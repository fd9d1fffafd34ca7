--------------------------- MODULE CommandWindows ---------------------------
(***************************************************************************)
(* command.c on Windows: the standard streams of the child go to temporary *)
(* files, which are read and deleted after the child has ended. Any call   *)
(* of the system may fail, and each failure has a way out of its own.      *)
(***************************************************************************)
EXTENDS Integers, Sequences, SequencesExt

CONSTANTS MaxOutput,   \* units the child writes
          MaxRuns      \* how many times the command is run

CommandWindowsAssumption == MaxOutput \in Nat /\ MaxRuns \in Nat

VARIABLES
  pc,       \* the step of command_windows_run_process; "idle" outside, "dead"
            \* when it has ended the process
  flags,    \* captured streams and COMMAND_MERGE_STDERR
  capture,  \* the two CommandWindowsCaptureFile: handle open, path set
  disk,     \* the temporary files that exist, with their contents
  child,    \* "none", "running" or "ended"
  handles,  \* open handles of the child's process and thread
  wrote,    \* what the child wrote to captured streams, in order
  buffers,  \* heap blocks read from the files that are not the result's
  result,   \* command->result and command->error_status
  runs

vars == <<pc, flags, capture, disk, child, handles, wrote, buffers, result, runs>>

Streams == {"out", "err"}

\* command_windows_capture_file_init
NoCapture == [open |-> FALSE, path |-> FALSE]

NoResult == [error |-> FALSE, done |-> FALSE, output |-> <<>>,
             stdout |-> <<>>, stderr |-> <<>>]

NoFile == << <<"none", 0>> >>

\* The streams that have a file of their own.
Own(s) == IF s = "out" THEN flags.out ELSE flags.err /\ ~flags.merge

Init ==
  /\ pc = "idle"
  /\ flags = [out |-> FALSE, err |-> FALSE, merge |-> FALSE]
  /\ capture = [s \in Streams |-> NoCapture]
  /\ disk = [s \in Streams |-> NoFile]
  /\ child = "none" /\ handles = {} /\ wrote = <<>> /\ buffers = {}
  /\ result = NoResult /\ runs = 0

\* DeleteFileA does not delete a file that a running child has open.
Deleted(s) == IF child = "running" THEN disk[s] ELSE NoFile

\* command_windows_capture_file_cleanup of the captures in S.
Cleanup(S) ==
  /\ capture' = [s \in Streams |-> IF s \in S THEN NoCapture ELSE capture[s]]
  /\ disk' = [s \in Streams |->
                IF s \in S /\ capture[s].path THEN Deleted(s) ELSE disk[s]]

\* A way out with the error set and the result -1.
Fail(S) ==
  /\ Cleanup(S)
  /\ result' = [result EXCEPT !.error = TRUE, !.done = TRUE]
  /\ pc' = "idle"

\* command_run: the result is freed; merging captures the standard output.
Run(f) ==
  /\ pc = "idle" /\ runs < MaxRuns
  /\ \A s \in Streams : disk[s] = NoFile
  /\ pc' = "open_out"
  /\ flags' = [f EXCEPT !.out = f.out \/ (f.merge /\ f.err)]
  /\ capture' = [s \in Streams |-> NoCapture]
  /\ child' = "none" /\ wrote' = <<>>
  /\ result' = NoResult
  /\ runs' = runs + 1
  /\ UNCHANGED <<disk, handles, buffers>>

\* A capture file that is not made: no name, or a name that CreateFileA
\* cannot open and that is deleted again.
OpenFails(s) ==
  /\ pc = (IF s = "out" THEN "open_out" ELSE "open_err") /\ Own(s)
  /\ Fail(Streams \ {s})
  /\ UNCHANGED <<flags, child, handles, wrote, buffers, runs>>

\* command_windows_capture_file_open
Open(s) ==
  /\ pc = (IF s = "out" THEN "open_out" ELSE "open_err")
  /\ pc' = IF s = "out" THEN "open_err" ELSE "line"
  /\ IF Own(s)
     THEN /\ capture' = [capture EXCEPT ![s] = [open |-> TRUE, path |-> TRUE]]
          /\ disk' = [disk EXCEPT ![s] = <<>>]
     ELSE UNCHANGED <<capture, disk>>
  /\ UNCHANGED <<flags, child, handles, wrote, buffers, result, runs>>

\* command_windows_command_line: a command that does not fit in its buffer, or
\* a program's name in the one of command_windows_argv0, ends the process.
\* The system closes the handles; the files stay.
CommandLine ==
  /\ pc = "line"
  /\ \/ pc' = "create" /\ UNCHANGED capture
     \/ pc' = "dead" /\ capture' = [s \in Streams |-> NoCapture]
  /\ UNCHANGED <<flags, disk, child, handles, wrote, buffers, result, runs>>

\* CreateProcessA: the child inherits the handles of the captures.
Create ==
  /\ pc = "create"
  /\ \/ /\ child' = "running" /\ handles' = {"thread", "process"}
        /\ pc' = "wait"
        /\ UNCHANGED <<capture, disk, result>>
     \/ /\ Fail(Streams)
        /\ UNCHANGED <<child, handles>>
  /\ UNCHANGED <<flags, wrote, buffers, runs>>

\* The file behind a stream of the child.
Sink(s) == IF s = "err" /\ flags.merge THEN "out" ELSE s

\* The child writes a unit to a stream that is captured.
ChildWrites ==
  /\ child = "running" /\ Len(wrote) < MaxOutput
  /\ \E s \in Streams :
       LET u == <<s, Len(wrote)>> IN
       /\ IF s = "out" THEN flags.out ELSE flags.err
       /\ wrote' = Append(wrote, u)
       /\ disk' = [disk EXCEPT ![Sink(s)] = Append(@, u)]
  /\ UNCHANGED <<pc, flags, capture, child, handles, buffers, result, runs>>

ChildEnds ==
  /\ child = "running"
  /\ child' = "ended"
  /\ UNCHANGED <<pc, flags, capture, disk, handles, wrote, buffers, result, runs>>

\* WaitForSingleObject may fail while the child still runs.
Wait ==
  /\ pc = "wait"
  /\ \/ /\ child = "ended" /\ pc' = "code"
        /\ UNCHANGED <<capture, disk, handles, result>>
     \/ Fail(Streams) /\ handles' = {}
  /\ UNCHANGED <<flags, child, wrote, buffers, runs>>

\* GetExitCodeProcess
ExitCode ==
  /\ pc = "code"
  /\ \/ /\ pc' = "close"
        /\ UNCHANGED <<capture, disk, handles, result>>
     \/ Fail(Streams) /\ handles' = {}
  /\ UNCHANGED <<flags, child, wrote, buffers, runs>>

\* Mutant: the handle of the process is not closed.
Close_ForgetsProcess ==
  /\ pc = "close"
  /\ \/ /\ handles' = {}
        /\ pc' = "read"
        /\ UNCHANGED <<capture, disk, result>>
     \/ Fail(Streams) /\ handles' = handles \ {"thread"}
  /\ UNCHANGED <<flags, child, wrote, buffers, runs>>

\* CloseHandle of the thread and of the process; a handle that cannot be
\* closed is none.
Close ==
  /\ pc = "close"
  /\ handles' = {}
  /\ \/ /\ pc' = "read"
        /\ UNCHANGED <<capture, disk, result>>
     \/ Fail(Streams)
  /\ UNCHANGED <<flags, child, wrote, buffers, runs>>

\* command_windows_capture_file_read of the standard output.
ReadOut ==
  /\ pc = "read"
  /\ \/ /\ flags.out \/ flags.err
        /\ Fail(Streams)
        /\ UNCHANGED buffers
     \/ /\ pc' = "read_err"
        /\ capture' = [capture EXCEPT !["out"].open = FALSE]
        /\ buffers' = {s \in {"out"} : flags.out}
        /\ UNCHANGED <<disk, result>>
  /\ UNCHANGED <<flags, child, handles, wrote, runs>>

\* The results: the combined output is the standard output, then the error
\* output; a merged error output is empty.
Results ==
  LET out == IF flags.out THEN disk["out"] ELSE <<>>
      err == IF Own("err") THEN disk["err"] ELSE <<>> IN
  [result EXCEPT !.done = TRUE, !.output = out \o err,
                 !.stdout = out, !.stderr = err]

\* The error output is read too; if that fails, the other is freed.
ReadErr ==
  /\ pc = "read_err"
  /\ \/ /\ Own("err")
        /\ Fail(Streams)
     \/ /\ Cleanup(Streams)
        /\ result' = Results
        /\ pc' = "idle"
  /\ buffers' = {}
  /\ UNCHANGED <<flags, child, handles, wrote, runs>>

\* No run is left to do, or a file that could not be deleted remains.
Over ==
  /\ child # "running"
  /\ \/ pc = "dead"
     \/ pc = "idle" /\ (runs = MaxRuns \/ \E s \in Streams : disk[s] # NoFile)
  /\ UNCHANGED vars

Next ==
  \/ \E f \in [out: BOOLEAN, err: BOOLEAN, merge: BOOLEAN] : Run(f)
  \/ \E s \in Streams : Open(s) \/ OpenFails(s)
  \/ CommandLine \/ Create \/ ChildWrites \/ ChildEnds \/ Wait \/ ExitCode \/ Close
  \/ ReadOut \/ ReadErr \/ Over

Spec == Init /\ [][Next]_vars

-----------------------------------------------------------------------------
(* Properties *)

\* The types of the variables.
TypeOK ==
  /\ pc \in {"idle", "open_out", "open_err", "line", "create", "wait", "code",
             "close", "read", "read_err", "dead"}
  /\ flags \in [out: BOOLEAN, err: BOOLEAN, merge: BOOLEAN]
  /\ capture \in [Streams -> [open: BOOLEAN, path: BOOLEAN]]
  /\ child \in {"none", "running", "ended"}
  /\ handles \subseteq {"thread", "process"}
  /\ buffers \subseteq Streams
  /\ runs \in 0..MaxRuns
  \* an open capture always has its file
  /\ \A s \in Streams : capture[s].open => disk[s] # NoFile

\* Whatever call fails, a run that returns leaves no open handle, no heap block
\* and no temporary file; only a child that outlives a failed wait keeps its
\* files. (A run that ends the process does not return: it leaves its files.)
EveryWayOutCleansUp ==
  pc = "idle" =>
    /\ handles = {} /\ buffers = {}
    /\ \A s \in Streams : ~capture[s].open /\ ~capture[s].path
    /\ result.done /\ child # "running" /\ ~result.error =>
         \A s \in Streams : disk[s] = NoFile

\* A run that returns leaves a temporary file behind only if the wait failed
\* on a running child.
FilesAreDeleted ==
  [][ pc # "idle" /\ pc' = "idle" /\ child # "running"
      => \A s \in Streams : disk'[s] = NoFile ]_vars

\* Where the units of a stream are in a text. No two units are the same.
At(q, s) == {i \in DOMAIN q : q[i][1] = s}

\* q has the units that were written to stream s, each once, in their order.
HasAll(q, s) ==
  /\ {q[i] : i \in At(q, s)} = {wrote[i] : i \in At(wrote, s)}
  /\ \A i, j \in At(q, s) : i < j =>
       \E k, l \in At(wrote, s) : k < l /\ q[i] = wrote[k] /\ q[j] = wrote[l]

\* A run that succeeds has all the child wrote; with COMMAND_MERGE_STDERR in
\* the order of writing. One that fails has no output at all.
OutputIsTheChilds ==
  pc = "idle" /\ result.done =>
    /\ result.error => result.output = <<>> /\ result.stdout = <<>>
    /\ ~result.error /\ flags.merge => result.output = wrote
    /\ ~result.error => \A s \in Streams : HasAll(result.output, s)

=============================================================================
