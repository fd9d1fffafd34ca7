----------------------------- MODULE MCCommands -----------------------------
(***************************************************************************)
(* command.c for TLC: the poll loop of Unix, the capture files of Windows  *)
(* and the vectors of a Command. They share no state, so a behaviour lets  *)
(* one of them run while the others stay as they are at first.             *)
(***************************************************************************)
EXTENDS Integers, Sequences

CONSTANTS MaxInput, PipeSize, ReadSize, MaxRuns, MaxOutput,
          Grow, MaxLen, MaxItems, MaxText

VARIABLES
  part,      \* who runs: "unix", "windows" or "vectors"
  pc, flags, input, ends, pipe, child, io, sigpipe, result, wrote, got, runs,
  winPc, winFlags, capture, disk, winChild, handles, winWrote, buffers,
  winResult, winRuns,
  vec, cwd, strings, wrong, pushed

unixVars == <<pc, flags, input, ends, pipe, child, io, sigpipe, result, wrote,
              got, runs>>
windowsVars == <<winPc, winFlags, capture, disk, winChild, handles, winWrote,
                 buffers, winResult, winRuns>>
vectorVars == <<vec, cwd, strings, wrong, pushed>>
vars == <<part, unixVars, windowsVars, vectorVars>>

F(o, e, m, a, d, s) == [out |-> o, err |-> e, merge |-> m, async |-> a,
                        detached |-> d, stdin |-> s]

\* No flags, each stream, both, merged, asynchronous with and without
\* capture, detached, and combinations that are refused.
MCFlags ==
  {F(FALSE, FALSE, FALSE, FALSE, FALSE, FALSE),
   F(TRUE, FALSE, FALSE, FALSE, FALSE, FALSE),
   F(TRUE, TRUE, FALSE, FALSE, FALSE, FALSE),
   F(FALSE, TRUE, TRUE, FALSE, FALSE, FALSE),
   F(TRUE, TRUE, FALSE, TRUE, FALSE, FALSE),
   F(FALSE, FALSE, FALSE, FALSE, TRUE, FALSE),
   F(FALSE, TRUE, FALSE, FALSE, TRUE, FALSE)}

\* Children that write before they read, that read first, that leave their
\* input, and that write to both streams in turn.
MCPrograms ==
  {<<>>, <<"out", "out", "out", "drain">>, <<"drain", "err", "out", "err">>,
   <<"read", "close", "out">>, <<"out", "err", "out", "err">>}

U == INSTANCE Command WITH Flags <- MCFlags, Programs <- MCPrograms

W == INSTANCE CommandWindows
       WITH pc <- winPc, flags <- winFlags, child <- winChild,
            wrote <- winWrote, result <- winResult, runs <- winRuns

A == INSTANCE CommandArgs

ASSUME Instances ==
  U!CommandAssumption /\ W!CommandWindowsAssumption /\ A!CommandArgsAssumption

Init ==
  /\ part \in {"unix", "windows", "vectors"}
  /\ U!Init /\ W!Init /\ A!Init

Next ==
  \/ part = "unix" /\ U!Next /\ UNCHANGED <<part, windowsVars, vectorVars>>
  \/ part = "windows" /\ W!Next /\ UNCHANGED <<part, unixVars, vectorVars>>
  \/ part = "vectors" /\ A!Next /\ UNCHANGED <<part, unixVars, windowsVars>>

Spec == Init /\ [][Next]_vars /\ U!Fairness

-----------------------------------------------------------------------------
(* Properties *)

\* Child and caller get what the other sent: the result of command_run has
\* every unit the child wrote, merged streams in the order of writing, and the
\* child reads stdin_buffer whole, in order, with the end only after it. The
\* capture files of Windows deliver the same. No read of the poll loop blocks
\* on a pipe that another event emptied.
StreamsArriveWhole ==
  /\ U!TypeOK /\ U!CaptureIsComplete /\ U!InputIsIntact /\ U!ReadNeverBlocks
  /\ W!OutputIsTheChilds

\* However a run returns, nothing of it is left: no descriptor, handle, zombie
\* or buffer, after a success no temporary file, no status but the child's, and
\* the disposition of SIGPIPE is the caller's again; a child that leaves its
\* input unread never ends the caller by that signal. On Windows a command that
\* is too long for its buffer does not return: it ends the process and leaves
\* the capture files.
NothingIsLeft ==
  /\ U!NothingIsLeft /\ U!SigpipeIsContained
  /\ W!TypeOK /\ W!EveryWayOutCleansUp

\* No push writes outside of its array; after any pushes, splits, replacements
\* and clears execvp and putenv see the strings in force with a NULL after
\* them, and each string is given back once, with the size it was allocated
\* with.
ArgumentsAreExact ==
  A!TypeOK /\ A!ExecSeesArguments /\ A!SizesMatch /\ A!NoStringIsLost

\* Every call returns, whatever the child reads and writes: the loop serves
\* all pipes, so that caller and child never wait for each other. On Windows a
\* run that returns leaves a capture file behind only when a failed wait leaves
\* a child that still has it open.
RunsEndCleanly == U!CallReturns /\ W!FilesAreDeleted

=============================================================================
