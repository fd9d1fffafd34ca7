------------------------------- MODULE FileIo -------------------------------
(***************************************************************************)
(* The whole-file operations of fs.c: copying, reading, writing and        *)
(* comparing. Every call of the system may fail or do less than asked, and *)
(* another process may change a file meanwhile.                            *)
(***************************************************************************)
EXTENDS Integers, Sequences, FiniteSets, SequencesExt, FiniteSetsExt

CONSTANTS Units,      \* what files consist of
          MaxLen,     \* longest file
          Chunk,      \* units one read takes: BUFSIZ
          MaxCalls    \* calls in a run

FileIoAssumption ==
  MaxLen \in Nat /\ MaxCalls \in Nat /\ Chunk \in Nat \ {0}

Names == {"a", "b"}
Missing == <<"missing">>
Contents == BoundedSeq(Units, MaxLen)
NoCall == [op |-> "none", pc |-> "begin", off |-> 0, len |-> 0, data |-> <<>>]

VARIABLES
  disk,     \* the contents of the two files
  same,     \* both paths lead to one file, the first
  call,     \* the call in progress, where it stands, and its locals
  open,     \* open descriptors
  maps,     \* mappings
  block,    \* size of the block that the call or its caller holds; 0: none
  result,   \* what the last call returned, and what it returned it for
  changed,  \* another process changed a file during the call
  closeFailed, \* fclose could not write out what was buffered
  calls

vars == <<disk, same, call, open, maps, block, result, changed, closeFailed, calls>>

\* The file a path leads to, and what it consists of.
File(n) == IF same THEN "a" ELSE n
Text(n) == disk[File(n)]

NoResult == [op |-> "none", ok |-> FALSE, data |-> <<>>, before |-> <<>>]

Init ==
  /\ disk \in [Names -> Contents \cup {Missing}]
  /\ same \in BOOLEAN /\ (same => disk["b"] = Missing)
  /\ call = NoCall /\ open = {} /\ maps = {} /\ block = 0 /\ result = NoResult
  /\ changed = FALSE /\ closeFailed = FALSE /\ calls = 0

\* The call returns.
Return(ok, data) ==
  /\ call' = NoCall
  /\ result' = [op |-> call.op, ok |-> ok, data |-> data, before |-> call.data]

Idle == call.op = "none" /\ calls < MaxCalls /\ block = 0

\* A call begins with descriptors fds, or it cannot open them and fails.
\* "b" is opened after "a".
Begin(op, fds, data) ==
  /\ Idle
  /\ calls' = calls + 1
  /\ changed' = FALSE /\ closeFailed' = FALSE
  /\ \/ /\ \A n \in fds \ {"b"} : disk[n] # Missing
        /\ call' = [NoCall EXCEPT !.op = op, !.data = data]
        /\ open' = fds
        /\ UNCHANGED result
     \/ /\ result' = [NoResult EXCEPT !.op = op]
        /\ UNCHANGED <<call, open>>
  /\ UNCHANGED <<same, maps, block>>

\* O_TRUNC and "wb": the destination is emptied when the call begins.
Truncates(op) ==
  disk' = IF call'.op = op THEN [disk EXCEPT ![File("b")] = <<>>] ELSE disk

\* Another process writes or shortens the first file, once in a call.
Other ==
  /\ call.op \notin {"none", "dead"} /\ ~changed
  /\ \E c \in Contents : disk' = [disk EXCEPT !["a"] = c]
  /\ changed' = TRUE
  /\ UNCHANGED <<same, call, open, maps, block, result, closeFailed, calls>>

-----------------------------------------------------------------------------
(* util_copy_file_sync: from "a" to "b" *)

\* A copy of a file to itself empties it here, and then finds it at its end.
CopyStart == Begin("copy", {"a", "b"}, disk["a"]) /\ Truncates("copy")

\* The next units of the source.
ReadChunk(n) == SubSeq(Text(n), call.off + 1, Min({call.off + Chunk, Len(Text(n))}))

\* Mutant: a short write passes for a whole one.
WrittenOf_Short(chunk, w) == w > 0 \/ chunk = <<>>

\* A chunk counts as written only if write took all of it.
WrittenOf(chunk, w) == w = Len(chunk)

\* A read and a write, which over the file's own units changes none. Any other
\* outcome than a complete write ends the copy.
CopyChunk ==
  LET chunk == ReadChunk("a") IN
  /\ call.op = "copy" /\ chunk # <<>>
  /\ \E w \in 0..Len(chunk) :
       /\ disk' = IF same THEN disk
                  ELSE [disk EXCEPT !["b"] = @ \o SubSeq(chunk, 1, w)]
       /\ IF WrittenOf(chunk, w)
          THEN /\ call' = [call EXCEPT !.off = @ + Len(chunk)]
               /\ UNCHANGED <<open, result>>
          ELSE Return(FALSE, <<>>) /\ open' = {}
  /\ UNCHANGED <<same, maps, block, changed, closeFailed, calls>>

\* The end of the source, or a read that fails.
CopyEnd ==
  /\ call.op = "copy"
  /\ \/ ReadChunk("a") = <<>> /\ Return(TRUE, Text("b"))
     \/ Return(FALSE, <<>>)
  /\ open' = {}
  /\ UNCHANGED <<disk, same, maps, block, changed, closeFailed, calls>>

-----------------------------------------------------------------------------
(* read_entire_file of "a" *)

ReadStart == Begin("read", {"a"}, disk["a"]) /\ UNCHANGED disk

\* fseek and ftell: the length, and a block with a byte more.
ReadSize ==
  /\ call.op = "read" /\ block = 0
  /\ \/ /\ call' = [call EXCEPT !.len = Len(disk["a"])]
        /\ block' = Len(disk["a"]) + 1
        /\ UNCHANGED <<open, result>>
     \/ /\ Return(FALSE, <<>>)
        /\ open' = {}
        /\ UNCHANGED block
  /\ UNCHANGED <<disk, same, maps, changed, closeFailed, calls>>

\* fread of the length, and the close: less than the length, or a failure,
\* frees the block.
ReadBytes ==
  /\ call.op = "read" /\ block > 0
  /\ \/ /\ Len(disk["a"]) >= call.len
        /\ Return(TRUE, SubSeq(disk["a"], 1, call.len))
        /\ UNCHANGED block
     \/ /\ Return(FALSE, <<>>)
        /\ block' = 0
  /\ open' = {}
  /\ UNCHANGED <<disk, same, maps, changed, closeFailed, calls>>

\* The caller frees the bytes with their length and one more.
FreeBytes ==
  /\ call.op = "none" /\ block > 0
  /\ block' = 0
  /\ UNCHANGED <<disk, same, call, open, maps, result, changed, closeFailed, calls>>

-----------------------------------------------------------------------------
(* write_entire_file to "b" *)

WriteStart(text) == Begin("write", {"b"}, text) /\ Truncates("write")

\* Mutant: an fwrite that wrote something passes for a whole one.
WroteAll_Some(w, data) == w > 0 \/ data = <<>>

\* Less than the length is a failure.
WroteAll(w, data) == w = Len(data)

\* fwrite takes the first units of the text and writes out some of these.
WriteText ==
  /\ call.op = "write" /\ call.pc = "begin"
  /\ \E w \in 0..Len(call.data) : \E k \in 0..w :
       /\ disk' = [disk EXCEPT ![File("b")] = SubSeq(call.data, 1, k)]
       /\ call' = [call EXCEPT !.pc = "close", !.off = k, !.len = w]
  /\ UNCHANGED <<same, open, maps, block, result, changed, closeFailed, calls>>

\* fclose writes out the others or fails; only what fwrite said is returned.
WriteClose ==
  /\ call.op = "write" /\ call.pc = "close"
  /\ \E k \in call.off..call.len :
       /\ disk' = [disk EXCEPT ![File("b")] = SubSeq(call.data, 1, k)]
       /\ closeFailed' \in BOOLEAN
       /\ ~closeFailed' => k = call.len
  /\ Return(WroteAll(call.len, call.data), <<>>)
  /\ open' = {}
  /\ UNCHANGED <<same, maps, block, changed, calls>>

-----------------------------------------------------------------------------
(* util_equal_files of "a" and "b" *)

EqualStart ==
  /\ Begin("equal", {"a", "b"}, <<>>)
  /\ Text("b") # Missing \/ call'.op = "none"
  /\ UNCHANGED disk

\* The call returns and closes both files.
EqualReturns(equal) == Return(equal, <<>>) /\ open' = {}

\* The sizes: fstat fails or they differ, the files are one or both are empty,
\* or they are mapped.
EqualStat ==
  /\ call.op = "equal" /\ call.pc = "begin"
  /\ \/ EqualReturns(FALSE)
     \/ /\ Len(Text("a")) = Len(Text("b"))
        /\ \/ /\ same \/ Text("a") = <<>>
              /\ EqualReturns(TRUE)
           \/ /\ Text("a") # <<>>
              /\ call' = [call EXCEPT !.pc = "mapA", !.len = Len(Text("a"))]
              /\ UNCHANGED <<open, result>>
  /\ UNCHANGED <<disk, same, maps, block, changed, closeFailed, calls>>

\* A map that fails: the files are read in chunks.
EqualMapA ==
  /\ call.op = "equal" /\ call.pc = "mapA"
  /\ \/ call' = [call EXCEPT !.pc = "mapB"] /\ maps' = {"a"}
     \/ call' = [call EXCEPT !.pc = "read"] /\ UNCHANGED maps
  /\ UNCHANGED <<disk, same, open, block, result, changed, closeFailed, calls>>

\* Mutant: the second map fails, and the first stays.
EqualMapB_KeepsFirst ==
  /\ call.op = "equal" /\ call.pc = "mapB"
  /\ \/ call' = [call EXCEPT !.pc = "compare"] /\ maps' = {"a", "b"}
     \/ call' = [call EXCEPT !.pc = "read"] /\ UNCHANGED maps
  /\ UNCHANGED <<disk, same, open, block, result, changed, closeFailed, calls>>

\* If the second map fails, the first is taken back.
EqualMapB ==
  /\ call.op = "equal" /\ call.pc = "mapB"
  /\ \/ call' = [call EXCEPT !.pc = "compare"] /\ maps' = {"a", "b"}
     \/ call' = [call EXCEPT !.pc = "read"] /\ maps' = {}
  /\ UNCHANGED <<disk, same, open, block, result, changed, closeFailed, calls>>

\* memcmp of the mappings, which may see a change of the file half done. Beyond
\* the end of a file that was shortened it ends the process with SIGBUS.
EqualCompare ==
  /\ call.op = "equal" /\ call.pc = "compare"
  /\ \/ \E equal \in BOOLEAN :
          (~changed => equal = (Text("a") = Text("b"))) /\ EqualReturns(equal)
     \/ /\ Len(Text("a")) < call.len
        /\ call' = [call EXCEPT !.op = "dead"] /\ open' = {}
        /\ UNCHANGED result
  /\ maps' = {}
  /\ UNCHANGED <<disk, same, block, changed, closeFailed, calls>>

SameChunk(a, b) == a = b

\* The next pair of chunks; or one that differs, or a failing read of "b"; or
\* the end of "a" or a failing read of it, when the units compared must be as
\* many as its size was.
EqualChunk ==
  LET a == ReadChunk("a") IN
  /\ call.op = "equal" /\ call.pc = "read"
  /\ \/ /\ a # <<>> /\ SameChunk(a, ReadChunk("b"))
        /\ call' = [call EXCEPT !.off = @ + Len(a)]
        /\ UNCHANGED <<open, result>>
     \/ a # <<>> /\ EqualReturns(FALSE)
     \/ EqualReturns(call.off = call.len)
  /\ UNCHANGED <<disk, same, maps, block, changed, closeFailed, calls>>

\* No call is left, or the process was ended.
Over ==
  /\ call.op = "dead" \/ (~Idle /\ call.op = "none" /\ block = 0)
  /\ UNCHANGED vars

Next ==
  \/ CopyStart \/ CopyChunk \/ CopyEnd
  \/ ReadStart \/ ReadSize \/ ReadBytes \/ FreeBytes
  \/ \E text \in Contents : WriteStart(text)
  \/ WriteText \/ WriteClose
  \/ EqualStart \/ EqualStat \/ EqualMapA \/ EqualMapB \/ EqualCompare
  \/ EqualChunk
  \/ Other \/ Over

Spec == Init /\ [][Next]_vars

-----------------------------------------------------------------------------
(* Properties *)

\* The types of the variables.
TypeOK ==
  /\ disk \in [Names -> Contents \cup {Missing}]
  /\ open \subseteq Names /\ maps \subseteq Names
  /\ block \in 0..(MaxLen + 1)
  /\ call.off \in 0..MaxLen /\ call.len \in 0..MaxLen

\* Every way out of a call closes its files and takes back its mappings; and a
\* block is held after it only by the caller of a read that succeeded.
NothingIsLeft ==
  call.op = "none" =>
    /\ open = {} /\ maps = {}
    /\ block > 0 => result.op = "read" /\ result.ok /\ block = Len(result.data) + 1

\* A copy to another file that returns 0 is complete: short writes and failed
\* reads are told. Nothing is claimed of a copy of a file to itself, which
\* empties the file and returns 0.
CopyIsWhole ==
  call.op = "none" /\ result.op = "copy" /\ result.ok /\ ~changed /\ ~same =>
    result.data = result.before

\* read_entire_file gives all of a file that nobody changed, and never a
\* length that is not that of its bytes.
ReadIsWhole ==
  call.op = "none" /\ result.op = "read" /\ result.ok /\ ~changed =>
    result.data = result.before

\* write_entire_file returns true only if the text is in the file: a short
\* fwrite is told. A failure of the fclose after it is not told, and of such a
\* call nothing is claimed.
WriteIsWhole ==
  call.op = "none" /\ result.op = "write" /\ result.ok /\ ~changed /\ ~closeFailed =>
    Text("b") = result.before

\* Files that are told equal are equal, mapped or read in chunks, whatever
\* failed.
EqualIsTrue ==
  call.op = "none" /\ result.op = "equal" /\ result.ok /\ ~changed =>
    Text("a") = Text("b")

=============================================================================
