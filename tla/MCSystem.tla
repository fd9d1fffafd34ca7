------------------------------ MODULE MCSystem ------------------------------
(***************************************************************************)
(* The calls around files and time for TLC: whole files, copies by a       *)
(* thread, temporary files, path names, directories, sleeping, the time    *)
(* zone, and the texts of enumerations. They share no state, so a          *)
(* behaviour lets one of them run while the others rest, each in one of    *)
(* its initial states.                                                     *)
(***************************************************************************)
EXTENDS Integers, Sequences

CONSTANTS Units, Files, Fifos, Sizes, Chunk, MaxFile, MaxCalls,
          Callers, TempNames, Attempts,
          PathLetters, MaxPath,
          MaxNames, Initial, MaxCap,
          NsPerUs, NsPerMs, NsPerSec, MaxInt, MaxMs, Frequencies,
          DaysPerYear, Years, Offsets,
          Ids, NameLengths, MaxFields, PrefixLen

VARIABLES
  part,   \* who runs
  disk, same, call, open, maps, block, result, changed, closeFailed, calls,
  copyPc, nfds, source, dest, fds, left, events, index, revents, failed, broken,
  owner, tempPc, buffer, attempt, fd, tempErrno,
  path,
  dirOs, names, dirPc, at, handle, pattern, entryBlock, entries, errno, cause,
  dirResult,
  os, unit, amount, sleepLeft, elapsed, tick, pc,
  now, zone, offset, initialized,
  bitflags, fields

fileVars == <<disk, same, call, open, maps, block, result, changed, closeFailed, calls>>
copyVars == <<copyPc, nfds, source, dest, fds, left, events, index, revents,
              failed, broken>>
tempVars == <<owner, tempPc, buffer, attempt, fd, tempErrno>>
dirVars == <<dirOs, names, dirPc, at, handle, pattern, entryBlock, entries,
             errno, cause, dirResult>>
timeVars == <<os, unit, amount, sleepLeft, elapsed, tick, pc>>
zoneVars == <<now, zone, offset, initialized>>
enumVars == <<bitflags, fields>>
vars == <<part, fileVars, copyVars, tempVars, path, dirVars, timeVars, zoneVars,
          enumVars>>

F == INSTANCE FileIo WITH MaxLen <- MaxFile
C == INSTANCE CopyAsync WITH pc <- copyPc, n <- events, i <- index
T == INSTANCE TempFiles
       WITH Names <- TempNames, pc <- tempPc, errno <- tempErrno
P == INSTANCE PathNames WITH Names <- PathLetters, MaxLen <- MaxPath
D == INSTANCE Directory
       WITH os <- dirOs, pc <- dirPc, block <- entryBlock, result <- dirResult
S == INSTANCE Clock WITH left <- sleepLeft
Z == INSTANCE TimeZone
Enum == INSTANCE EnumNames

ASSUME Instances ==
  /\ F!FileIoAssumption /\ C!CopyAsyncAssumption /\ T!TempAssumption
  /\ P!PathAssumption /\ D!DirectoryAssumption /\ S!ClockAssumption
  /\ Z!TimeZoneAssumption /\ Enum!EnumAssumption

Parts == {"files", "copies", "temporary", "paths", "directory", "sleep", "zone",
          "enum"}

\* Where a part rests while another runs.
FilesRest == F!Init /\ ~same /\ \A x \in DOMAIN disk : disk[x] = F!Missing
CopiesRest == C!Init /\ \A x, y \in Files : source[x].total = source[y].total
                     /\ \A size \in Sizes : source[1].total <= size
TempRest == T!Init /\ \A x \in TempNames : owner[x] = T!Nobody
DirRest == D!Init /\ dirOs = "unix" /\ names = <<"short">> /\ errno = "none"
TimeRest == S!Init /\ os = "unix" /\ unit = 1 /\ amount = 0
                   /\ \A x \in Frequencies : tick.frequency <= x
ZoneRest == Z!Init /\ zone = 0
EnumRest == Enum!Init /\ bitflags

Init ==
  /\ part \in Parts
  /\ P!Init
  /\ part # "files" => FilesRest
  /\ part # "copies" => CopiesRest
  /\ part # "temporary" => TempRest
  /\ part # "directory" => DirRest
  /\ part # "sleep" => TimeRest
  /\ part # "zone" => ZoneRest
  /\ part # "enum" => EnumRest
  /\ part = "files" => F!Init
  /\ part = "copies" => C!Init
  /\ part = "temporary" => T!Init
  /\ part = "directory" => D!Init
  /\ part = "sleep" => S!Init
  /\ part = "zone" => Z!Init
  /\ part = "enum" => Enum!Init

FilesRun == /\ part = "files" /\ F!Next
            /\ UNCHANGED <<part, copyVars, tempVars, path, dirVars, timeVars, zoneVars, enumVars>>
CopiesRun == /\ part = "copies" /\ C!Next
             /\ UNCHANGED <<part, fileVars, tempVars, path, dirVars, timeVars, zoneVars, enumVars>>
TempRuns == /\ part = "temporary" /\ T!Next
            /\ UNCHANGED <<part, fileVars, copyVars, path, dirVars, timeVars, zoneVars, enumVars>>
PathGrows == /\ part = "paths" /\ P!Next
             /\ UNCHANGED <<part, fileVars, copyVars, tempVars, dirVars, timeVars, zoneVars, enumVars>>
DirRuns == /\ part = "directory" /\ D!Next
           /\ UNCHANGED <<part, fileVars, copyVars, tempVars, path, timeVars, zoneVars, enumVars>>
TimeRuns == /\ part = "sleep" /\ S!Next
            /\ UNCHANGED <<part, fileVars, copyVars, tempVars, path, dirVars, zoneVars, enumVars>>
ZoneRuns == /\ part = "zone" /\ Z!Next
            /\ UNCHANGED <<part, fileVars, copyVars, tempVars, path, dirVars, timeVars, enumVars>>
FieldsGrow == /\ part = "enum" /\ Enum!Next
              /\ UNCHANGED <<part, fileVars, copyVars, tempVars, path, dirVars, timeVars, zoneVars>>

Next == \/ FilesRun \/ CopiesRun \/ TempRuns \/ PathGrows \/ DirRuns \/ TimeRuns
        \/ ZoneRuns \/ FieldsGrow

\* Names of one length are names of their own.
MCNameLengths == <<1, 2, 2, 3, 5>>

\* What each part assumes of the system, while it is the one that runs.
Fairness ==
  /\ WF_copyVars(part = "copies" /\ C!Thread)
  /\ \A f \in Files :
       WF_copyVars(part = "copies" /\ (C!WriterWrites(f) \/ C!WriterEnds(f)))
  /\ \A c \in Callers : WF_tempVars(part = "temporary" /\ T!Step(c))
  /\ WF_timeVars(part = "sleep" /\ S!Next)

Spec == Init /\ [][Next]_vars /\ Fairness

-----------------------------------------------------------------------------
(* Properties *)

\* A call that returns success has done the whole of it: copies to another
\* file, also those of the thread from FIFOs, reads, and writes whose fclose
\* succeeds, are complete in spite of short writes; files that were called
\* equal are, and a directory's list is whole.
SuccessIsWhole ==
  /\ F!TypeOK /\ F!CopyIsWhole /\ F!ReadIsWhole /\ F!WriteIsWhole
  /\ F!EqualIsTrue
  /\ C!TypeOK /\ C!CopiesAreComplete
  /\ D!TypeOK /\ D!ListIsWhole /\ D!FailureHasCause

\* A call gives back what it took, whatever fails: descriptors, mappings,
\* blocks and the directory. The one exception is a poll that fails in the
\* copying thread: it leaves open the pairs it has not begun, and no other. A
\* descriptor of a temporary file is of a file that its caller made itself,
\* under the name that the caller will unlink, whoever else tries that name;
\* and no file stays that no caller has a descriptor of.
CallsCleanUp ==
  /\ F!NothingIsLeft /\ C!ClosedOrUntouched /\ D!NothingIsLeft
  /\ T!TypeOK /\ T!FileIsItsMakers /\ T!NoFileIsLeft

\* A normalized path leads where the path led and is the only one that does
\* with these names; dirname2 and basename2 take a path apart without loss, and
\* none of them leaves its buffer.
PathsKeepTheirMeaning ==
  /\ P!TypeOK /\ P!NormalMeansTheSame /\ P!NormalIsCanonical
  /\ P!PartsMakeThePath

\* A sleep takes the time that was asked for however often it is interrupted
\* and whatever the width of its unit, and timezone_init finds the offset of
\* the zone on any day of the year.
TimeIsRight == S!TypeOK /\ S!SleepsLongEnough /\ Z!OffsetIsTheZones

\* The text of any flags or number of an enumeration is parsed as these, names
\* only bits that are set, and fits the block whose size is given back.
EnumNamesComeBack ==
  /\ Enum!TypeOK /\ Enum!FlagsComeBack /\ Enum!NamesAreOfTheFlags
  /\ Enum!TextFitsItsBlock /\ Enum!NumbersComeBack

\* The seconds and nanoseconds that windows_time_monotonic makes of a counter
\* never go back while it counts on, whatever its frequency.
ClockNeverGoesBack == S!ClockIsMonotonic

\* The copying thread, a search for a temporary name and a sleep all end,
\* whatever fails and whoever interferes.
CallsEnd ==
  /\ C!ThreadEnds /\ T!CallReturns
  /\ part = "sleep" => S!SleepEnds

=============================================================================
