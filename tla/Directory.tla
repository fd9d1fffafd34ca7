------------------------------ MODULE Directory ------------------------------
(***************************************************************************)
(* get_directory_entries of directory.c, for Unix and for Windows. Every   *)
(* call of the system may fail; a name is long if it does not fit into the *)
(* array of a DirEntry.                                                    *)
(***************************************************************************)
EXTENDS Integers, Sequences, SequencesExt

CONSTANTS MaxNames,   \* names in a directory
          Initial,    \* entries of the first block: 256 or 16
          MaxCap      \* greatest capacity: MAXOF(int32)

DirectoryAssumption ==
  MaxNames \in Nat /\ MaxCap \in Nat /\ Initial \in 1..MaxCap

VARIABLES
  os,
  names,    \* what the directory holds, in the order it is read
  pc,
  at,       \* names read
  handle,   \* the directory is open
  pattern,  \* the wide pattern is held
  block,    \* capacity of the entries, 0 without a block
  entries,  \* indices of the names that were copied
  errno,    \* "none", or who set it
  cause,    \* what failed in this call
  result    \* "none", "failed", "fatal" or "list"

vars == <<os, names, pc, at, handle, pattern, block, entries, errno, cause, result>>
call == <<os, names>>

Init ==
  /\ os \in {"unix", "windows"}
  /\ names \in UNION {[1..k -> {"short", "long"}] : k \in 1..MaxNames}
  /\ pc = "open" /\ at = 0 /\ handle = FALSE /\ pattern = FALSE
  /\ block = 0 /\ entries = <<>> /\ cause = {} /\ result = "none"
  /\ errno \in {"none", "before"}

Fails(what) == pc' = "done" /\ result' = "failed" /\ cause' = cause \cup {what}

-----------------------------------------------------------------------------
(* Both systems *)

\* The name that was read: it is skipped, copied, or too many. The message
\* about a long name may leave an errno of its own.
Take ==
  /\ at' = at + 1
  /\ IF names[at + 1] = "long"
     THEN /\ errno' \in {errno, "message"}
          /\ cause' = IF errno' = "message" THEN cause \cup {"message"} ELSE cause
          /\ UNCHANGED <<block, entries, pc, result>>
     ELSE IF Len(entries) >= block /\ block > MaxCap \div 2
     THEN /\ pc' = "done" /\ result' = "fatal"
          /\ UNCHANGED <<block, entries, errno, cause>>
     ELSE /\ block' = IF Len(entries) >= block THEN 2 * block ELSE block
          /\ entries' = Append(entries, at + 1)
          /\ UNCHANGED <<errno, cause, pc, result>>

\* The block shrinks to the entries and is the caller's, or it is freed.
Finish(good, what) ==
  IF good
  THEN /\ pc' = "done" /\ result' = "list"
       /\ block' = Len(entries) /\ UNCHANGED cause
  ELSE Fails(what) /\ block' = 0

-----------------------------------------------------------------------------
(* Unix *)

OpenDir ==
  /\ os = "unix" /\ pc = "open"
  /\ \/ Fails("opendir") /\ UNCHANGED <<handle, block, errno>>
     \/ /\ pc' = "read" /\ handle' = TRUE /\ block' = Initial
        /\ errno' = "none"
        /\ UNCHANGED <<cause, result>>
  /\ UNCHANGED <<call, at, pattern, entries>>

ReadDir ==
  /\ os = "unix" /\ pc = "read" /\ at < Len(names)
  /\ Take
  /\ UNCHANGED <<call, handle, pattern>>

\* readdir returns NULL, at the end or because it fails; errno tells which.
ReadDirEnds ==
  /\ os = "unix" /\ pc = "read"
  /\ \/ at = Len(names) /\ UNCHANGED <<errno, cause>>
     \/ errno' = "readdir" /\ cause' = cause \cup {"readdir"}
  /\ pc' = "close"
  /\ UNCHANGED <<call, at, handle, pattern, block, entries, result>>

CloseDir ==
  /\ os = "unix" /\ pc = "close"
  /\ handle' = FALSE
  /\ \/ Finish(errno = "none", errno)
     \/ Finish(FALSE, "closedir")
  /\ UNCHANGED <<call, at, pattern, entries, errno>>

-----------------------------------------------------------------------------
(* Windows *)

\* The pattern, twice converted: the first call finds the length, the second
\* fills the block.
MakePattern ==
  /\ os = "windows" /\ pc = "open"
  /\ \/ Fails("convert") /\ UNCHANGED pattern
     \/ pc' = "first" /\ pattern' = TRUE /\ UNCHANGED <<cause, result>>
  /\ UNCHANGED <<call, at, handle, block, entries, errno>>

FindFirst ==
  /\ os = "windows" /\ pc = "first"
  /\ pattern' = FALSE
  /\ \/ Fails("FindFirstFile") /\ UNCHANGED <<handle, block>>
     \/ /\ pc' = "name" /\ handle' = TRUE /\ block' = Initial
        /\ UNCHANGED <<cause, result>>
  /\ UNCHANGED <<call, at, entries, errno>>

\* A name has no UTF-8, before or after its entry was made room for.
CannotConvert ==
  /\ os = "windows" /\ pc = "name" /\ at < Len(names)
  /\ Fails("convert") /\ handle' = FALSE /\ block' = 0
  /\ UNCHANGED <<call, at, pattern, entries, errno>>

\* The name is taken, and the next one is asked for.
TakeName ==
  /\ os = "windows" /\ pc = "name" /\ at < Len(names)
  /\ Take
  /\ UNCHANGED <<call, handle, pattern>>

\* FindNextFile: the loop goes on, or ends with its error code.
FindNext ==
  /\ os = "windows" /\ pc = "name" /\ at > 0
  /\ \/ at = Len(names) /\ UNCHANGED cause
     \/ cause' = cause \cup {"FindNextFile"}
  /\ pc' = "close"
  /\ UNCHANGED <<call, at, handle, pattern, block, entries, errno, result>>

\* An error of FindNextFile hides one of FindClose.
FindClose ==
  /\ os = "windows" /\ pc = "close"
  /\ handle' = FALSE
  /\ \/ Finish("FindNextFile" \notin cause, "FindNextFile")
     \/ Finish(FALSE, "FindClose")
  /\ UNCHANGED <<call, at, pattern, entries, errno>>

-----------------------------------------------------------------------------
Next == \/ OpenDir \/ ReadDir \/ ReadDirEnds \/ CloseDir
        \/ MakePattern \/ FindFirst \/ CannotConvert \/ TakeName \/ FindNext
        \/ FindClose

Spec == Init /\ [][Next]_vars

-----------------------------------------------------------------------------
(* Properties *)

\* The entries fit into their block at every step, and the capacity is the
\* first one doubled, never more than an int32 holds.
TypeOK ==
  /\ at \in 0..Len(names) /\ handle \in BOOLEAN /\ pattern \in BOOLEAN
  /\ Len(entries) <= block \/ result \in {"failed", "fatal"}
  /\ pc # "done" => block \in {0} \cup {Initial * 2^k : k \in 0..MaxNames}
  /\ block <= MaxCap

\* Whatever call fails, no directory stays open and no block stays behind; the
\* block of a list has the size that the caller computes from the length.
NothingIsLeft ==
  pc = "done" /\ result # "fatal" =>
    /\ ~handle /\ ~pattern
    /\ block = IF result = "list" THEN Len(entries) ELSE 0

\* A list is whole: it has every name that fits, in order. An error in the
\* middle of the directory is never taken for its end.
ListIsWhole ==
  result = "list" =>
    /\ {entries[e] : e \in DOMAIN entries} = {k \in DOMAIN names : names[k] = "short"}
    /\ \A e, g \in DOMAIN entries : e < g => entries[e] < entries[g]

\* The call fails only if something failed in this call: an errno from before
\* does not count. What the message about a long name leaves in errno does.
FailureHasCause == result = "failed" => cause # {} /\ "before" \notin cause
=============================================================================
