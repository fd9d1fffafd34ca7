------------------------------ MODULE TempFiles ------------------------------
(***************************************************************************)
(* cbase_make_temp_file and cbase_mkstemps of fs.c: callers in several     *)
(* threads and processes make temporary files in one directory, use them   *)
(* and unlink them by the name in their buffer. Other programs make and    *)
(* remove files there too.                                                 *)
(***************************************************************************)
EXTENDS Naturals, FiniteSets

CONSTANTS Callers, Names,
          Attempts   \* 10000 in the code

Nobody == "nobody"
Other == "other"
NoFile == "no file"

\* What a buffer may have besides a name: a name whose six characters are to
\* be chosen, or what is neither.
Template == "XXXXXX"
Cut == "cut"

TempAssumption ==
  /\ Attempts \in Nat \ {0}
  /\ Nobody \notin Callers /\ Other \notin Callers /\ NoFile \notin Names

VARIABLES owner,     \* who made the file of a name
          pc, buffer, attempt, fd, errno

vars == <<owner, pc, buffer, attempt, fd, errno>>

Init ==
  /\ owner \in [Names -> {Nobody, Other}]
  /\ pc = [c \in Callers |-> "idle"]
  /\ buffer = [c \in Callers |-> Cut]
  /\ attempt = [c \in Callers |-> 0]
  /\ fd = [c \in Callers |-> NoFile]
  /\ errno = [c \in Callers |-> "0"]

-----------------------------------------------------------------------------
(* One call *)

\* return -1 with a cause
Fail(c, cause) ==
  pc' = [pc EXCEPT ![c] = "failed"] /\ errno' = [errno EXCEPT ![c] = cause]

\* No buffer, no prefix, a suffix that is longer than the name.
BadArgument(c) ==
  pc[c] = "idle" /\ Fail(c, "EINVAL") /\ UNCHANGED <<owner, buffer, attempt, fd>>

\* The name does not fit: the buffer has the front of it.
TooLong(c) ==
  /\ pc[c] = "idle"
  /\ buffer' = [buffer EXCEPT ![c] = Cut]
  /\ Fail(c, "ENAMETOOLONG")
  /\ UNCHANGED <<owner, attempt, fd>>

MakeTempFile(c) ==
  /\ pc[c] = "idle"
  /\ buffer' = [buffer EXCEPT ![c] = Template]
  /\ pc' = [pc EXCEPT ![c] = "mkstemps"]
  /\ UNCHANGED <<owner, attempt, fd, errno>>

\* cbase_mkstemps called again with the buffer of a call that failed.
Again(c) ==
  /\ pc[c] = "failed"
  /\ pc' = [pc EXCEPT ![c] = "mkstemps"]
  /\ UNCHANGED <<owner, buffer, attempt, fd, errno>>

\* The checks of cbase_mkstemps.
Mkstemps(c) ==
  /\ pc[c] = "mkstemps"
  /\ IF buffer[c] = Template
     THEN /\ attempt' = [attempt EXCEPT ![c] = 0]
          /\ pc' = [pc EXCEPT ![c] = "open"]
          /\ UNCHANGED errno
     ELSE Fail(c, "EINVAL") /\ UNCHANGED attempt
  /\ UNCHANGED <<owner, buffer, fd>>

\* Mutant: open without O_EXCL.
Create_NotExclusive(c, n) ==
  /\ owner' = [owner EXCEPT ![n] = c]
  /\ fd' = [fd EXCEPT ![c] = n]
  /\ pc' = [pc EXCEPT ![c] = "open file"]
  /\ UNCHANGED <<attempt, errno>>

\* open with O_CREAT and O_EXCL of a name that nobody has.
Create(c, n) ==
  /\ owner[n] = Nobody
  /\ owner' = [owner EXCEPT ![n] = c]
  /\ fd' = [fd EXCEPT ![c] = n]
  /\ pc' = [pc EXCEPT ![c] = "open file"]
  /\ UNCHANGED <<attempt, errno>>

\* EEXIST: another name.
Exists(c, n) ==
  /\ owner[n] # Nobody
  /\ errno' = [errno EXCEPT ![c] = "EEXIST"]
  /\ attempt' = [attempt EXCEPT ![c] = @ + 1]
  /\ UNCHANGED <<owner, fd, pc>>

\* Any other error of open ends the call.
OpenFails(c) == Fail(c, "EACCES") /\ UNCHANGED <<owner, fd, attempt>>

\* One turn of the loop: six characters, from the time and the attempt.
Try(c) ==
  /\ pc[c] = "open"
  /\ attempt[c] < Attempts
  /\ \E n \in Names :
       /\ buffer' = [buffer EXCEPT ![c] = n]
       /\ Create(c, n) \/ Exists(c, n) \/ OpenFails(c)

GiveUp(c) ==
  /\ pc[c] = "open"
  /\ attempt[c] = Attempts
  /\ Fail(c, "EEXIST")
  /\ UNCHANGED <<owner, buffer, attempt, fd>>

-----------------------------------------------------------------------------
(* The callers and the others *)

\* cbase_unlink(buffer) and close(fd); or the caller forgets its failure.
Unlink(c) ==
  /\ pc[c] = "open file"
  /\ owner' = [owner EXCEPT ![buffer[c]] = Nobody]
  /\ fd' = [fd EXCEPT ![c] = NoFile]
  /\ pc' = [pc EXCEPT ![c] = "idle"]
  /\ UNCHANGED <<buffer, attempt, errno>>

Ignore(c) ==
  /\ pc[c] = "failed"
  /\ pc' = [pc EXCEPT ![c] = "idle"]
  /\ UNCHANGED <<owner, buffer, attempt, fd, errno>>

OthersMakeFiles(n) ==
  /\ owner[n] \in {Nobody, Other}
  /\ owner' = [owner EXCEPT ![n] = IF @ = Other THEN Nobody ELSE Other]
  /\ UNCHANGED <<pc, buffer, attempt, fd, errno>>

Step(c) == Mkstemps(c) \/ Try(c) \/ GiveUp(c)

Next ==
  \/ \E c \in Callers :
       BadArgument(c) \/ TooLong(c) \/ MakeTempFile(c) \/ Again(c) \/ Step(c) \/ Unlink(c) \/ Ignore(c)
  \/ \E n \in Names : OthersMakeFiles(n)

\* A thread that is in the call goes on.
Spec == Init /\ [][Next]_vars /\ \A c \in Callers : WF_vars(Step(c))

-----------------------------------------------------------------------------
(* Properties *)

TypeOK ==
  /\ owner \in [Names -> Callers \cup {Nobody, Other}]
  /\ pc \in [Callers -> {"idle", "mkstemps", "open", "open file", "failed"}]
  /\ buffer \in [Callers -> Names \cup {Template, Cut}]
  /\ attempt \in [Callers -> 0..Attempts]
  /\ fd \in [Callers -> Names \cup {NoFile}]
  /\ errno \in [Callers -> {"0", "EINVAL", "ENAMETOOLONG", "EEXIST", "EACCES"}]

\* A caller's descriptor is of a file that it made itself and that nobody
\* took since, and the name it will unlink is that file's.
FileIsItsMakers == \A c \in Callers : fd[c] # NoFile => owner[fd[c]] = c /\ buffer[c] = fd[c]

\* No file is left that no caller has a descriptor of, whatever failed.
NoFileIsLeft == \A n \in Names, c \in Callers : owner[n] = c => fd[c] = n

\* Every call returns, though others take the names it tries.
CallReturns == \A c \in Callers : pc[c] \in {"mkstemps", "open"} ~> pc[c] \in {"open file", "failed"}

=============================================================================
