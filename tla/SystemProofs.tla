---------------------------- MODULE SystemProofs -----------------------------
(***************************************************************************)
(* The calls around files and time, for any files, lengths, callers, names *)
(* and widths: success is not told of half a job, calls give back what     *)
(* they took, a caller's temporary file is its own, sleeps                 *)
(* are as long as was asked for and the offset is that of the zone. Also,  *)
(* the texts of any enumeration are read back and fit their blocks.        *)
(***************************************************************************)
EXTENDS MCSystem, FiniteSetTheorems, SequenceTheorems, WellFoundedInduction, TLAPS

-----------------------------------------------------------------------------
(* Temporary files: a caller has a descriptor exactly while it may unlink.  *)

TempInv ==
  /\ T!TypeOK /\ T!FileIsItsMakers /\ T!NoFileIsLeft
  /\ \A c \in Callers : tempPc[c] = "open file" <=> fd[c] # T!NoFile

(* What the assumptions say of callers and names. *)
LEMMA TempConstants ==
  /\ Attempts \in Nat \ {0}
  /\ T!Nobody \notin Callers /\ T!Other \notin Callers /\ T!NoFile \notin TempNames
BY Instances DEF T!TempAssumption

(* What the invariant says of files, callers and buffers. *)
LEMMA TempFacts ==
  ASSUME TempInv
  PROVE  /\ owner \in [TempNames -> Callers \cup {T!Nobody, T!Other}]
         /\ fd \in [Callers -> TempNames \cup {T!NoFile}]
         /\ buffer \in [Callers -> TempNames \cup {T!Template, T!Cut}]
         /\ attempt \in [Callers -> 0 .. Attempts]
         /\ \A c \in Callers : fd[c] # T!NoFile => owner[fd[c]] = c /\ buffer[c] = fd[c]
         /\ \A x \in TempNames, c \in Callers : owner[x] = c => fd[c] = x
BY DEF TempInv, T!TypeOK, T!FileIsItsMakers, T!NoFileIsLeft

(* Nobody has made a file yet. *)
LEMMA TempStart == T!Init => TempInv
<1> SUFFICES ASSUME T!Init PROVE TempInv
  OBVIOUS
<1>1. 0 \in 0 .. Attempts
  BY TempConstants
<1>2. T!TypeOK
  BY <1>1 DEF T!Init, T!TypeOK
<1>3. T!FileIsItsMakers /\ \A c \in Callers : tempPc[c] = "open file" <=> fd[c] # T!NoFile
  BY DEF T!Init, T!FileIsItsMakers
<1>4. \A x \in TempNames : owner[x] \in {T!Nobody, T!Other}
  BY DEF T!Init
<1>5. T!NoFileIsLeft
  BY <1>4, TempConstants DEF T!NoFileIsLeft
<1> QED
  BY <1>2, <1>3, <1>5 DEF TempInv

(* A caller that neither makes nor unlinks a file keeps what it has. *)
LEMMA TempFails ==
  ASSUME TempInv, NEW c \in Callers, NEW why \in {"EINVAL", "ENAMETOOLONG", "EEXIST", "EACCES"},
         tempPc[c] # "open file", T!Fail(c, why), UNCHANGED <<owner, fd>>,
         attempt' \in [Callers -> 0 .. Attempts],
         \E b \in TempNames \cup {T!Template, T!Cut} : buffer' = [buffer EXCEPT ![c] = b]
  PROVE  TempInv'
<1>1. T!TypeOK'
  BY DEF TempInv, T!TypeOK, T!Fail
<1>2. T!FileIsItsMakers' /\ T!NoFileIsLeft'
  BY DEF TempInv, T!TypeOK, T!FileIsItsMakers, T!NoFileIsLeft
<1>3. \A d \in Callers : tempPc'[d] = "open file" <=> fd'[d] # T!NoFile
  BY DEF TempInv, T!TypeOK, T!Fail
<1> QED
  BY <1>1, <1>2, <1>3 DEF TempInv

(* O_EXCL gives a name to one caller, or the caller tries another name. *)
LEMMA TempOpens ==
  ASSUME TempInv, NEW c \in Callers, T!Try(c)
  PROVE  TempInv'
<1>1. tempPc[c] = "open" /\ attempt[c] < Attempts /\ fd[c] = T!NoFile
  BY DEF TempInv, T!Try
<1>2. PICK x \in TempNames :
        /\ buffer' = [buffer EXCEPT ![c] = x]
        /\ T!Create(c, x) \/ T!Exists(c, x) \/ T!OpenFails(c)
  BY DEF T!Try
<1>3. CASE T!Create(c, x)
  <2>1. T!TypeOK'
    <3>1. owner' \in [TempNames -> Callers \cup {T!Nobody, T!Other}]
      BY <1>3, TempFacts DEF T!Create
    <3>2. buffer' \in [Callers -> TempNames \cup {T!Template, T!Cut}]
      BY <1>2, TempFacts
    <3>3. fd' \in [Callers -> TempNames \cup {T!NoFile}]
      BY <1>3, TempFacts DEF T!Create
    <3> QED
      BY <1>3, <3>1, <3>2, <3>3 DEF TempInv, T!TypeOK, T!Create
  <2>2. \A d \in Callers : fd[d] # x
    <3>1. owner[x] \notin Callers /\ x # T!NoFile
      BY <1>3, TempConstants DEF T!Create
    <3> QED
      BY <3>1, TempFacts
  <2>3. /\ \A d \in Callers : fd'[d] = IF d = c THEN x ELSE fd[d]
        /\ \A d \in Callers : buffer'[d] = IF d = c THEN x ELSE buffer[d]
        /\ \A y \in TempNames : owner'[y] = IF y = x THEN c ELSE owner[y]
    BY <1>2, <1>3, TempFacts DEF T!Create
  <2>4. T!FileIsItsMakers'
    <3> SUFFICES ASSUME NEW d \in Callers, fd'[d] # T!NoFile
                 PROVE  owner'[fd'[d]] = d /\ buffer'[d] = fd'[d]
      BY DEF T!FileIsItsMakers
    <3>1. CASE d = c
      BY <2>3, <3>1
    <3>2. CASE d # c
      <4>1. fd[d] \in TempNames /\ owner[fd[d]] = d /\ buffer[d] = fd[d] /\ fd[d] # x
        BY <2>2, <2>3, <3>2, TempFacts
      <4> QED
        BY <2>3, <3>2, <4>1
    <3> QED
      BY <3>1, <3>2
  <2>5. T!NoFileIsLeft'
    <3> SUFFICES ASSUME NEW y \in TempNames, NEW d \in Callers, owner'[y] = d
                 PROVE  fd'[d] = y
      BY DEF T!NoFileIsLeft
    <3>1. CASE y = x
      BY <2>3, <3>1
    <3>2. CASE y # x
      BY <1>1, <2>3, <3>2, TempConstants, TempFacts
    <3> QED
      BY <3>1, <3>2
  <2>6. x # T!NoFile
    BY TempConstants
  <2>7. \A d \in Callers : tempPc'[d] = "open file" <=> fd'[d] # T!NoFile
    BY <1>2, <1>3, <2>6 DEF TempInv, T!TypeOK, T!Create
  <2> QED
    BY <2>1, <2>4, <2>5, <2>7 DEF TempInv
<1>4. CASE T!Exists(c, x)
  <2>1. attempt' \in [Callers -> 0 .. Attempts]
    BY <1>1, <1>4, TempConstants, TempFacts DEF T!Exists
  <2>2. T!TypeOK'
    BY <1>1, <1>2, <1>4, <2>1 DEF TempInv, T!TypeOK, T!Exists
  <2>3. \A d \in Callers : fd'[d] = fd[d] /\ tempPc'[d] = tempPc[d] /\ (d # c => buffer'[d] = buffer[d])
    BY <1>2, <1>4, TempFacts DEF T!Exists
  <2>4. T!FileIsItsMakers'
    BY <1>1, <1>4, <2>3, TempFacts DEF T!FileIsItsMakers, T!Exists
  <2>5. T!NoFileIsLeft'
    BY <1>4, TempFacts DEF T!NoFileIsLeft, T!Exists
  <2> QED
    BY <2>2, <2>3, <2>4, <2>5 DEF TempInv
<1>5. CASE T!OpenFails(c)
  BY <1>1, <1>2, <1>5, TempFails DEF TempInv, T!TypeOK, T!OpenFails
<1> QED
  BY <1>2, <1>3, <1>4, <1>5

(* What a caller unlinks is its own file. *)
LEMMA TempUnlinks ==
  ASSUME TempInv, NEW c \in Callers, T!Unlink(c)
  PROVE  TempInv'
<1>1. fd[c] \in TempNames /\ buffer[c] = fd[c] /\ owner[fd[c]] = c
  <2>1. fd[c] # T!NoFile
    BY DEF TempInv, T!Unlink
  <2> QED
    BY <2>1, TempFacts
<1>2. T!TypeOK'
  BY <1>1 DEF TempInv, T!TypeOK, T!Unlink
<1>3. \A d \in Callers \ {c} : fd[d] # fd[c]
  <2> SUFFICES ASSUME NEW d \in Callers, d # c, fd[d] = fd[c] PROVE FALSE
    OBVIOUS
  <2>1. fd[d] # T!NoFile
    BY <1>1, TempConstants
  <2>2. owner[fd[d]] = d
    BY <2>1, TempFacts
  <2> QED
    BY <1>1, <2>2
<1>4. T!FileIsItsMakers'
  <2> SUFFICES ASSUME NEW d \in Callers, fd'[d] # T!NoFile
               PROVE  owner'[fd'[d]] = d /\ buffer'[d] = fd'[d]
    BY DEF T!FileIsItsMakers
  <2>1. d # c /\ fd'[d] = fd[d] /\ buffer' = buffer
    BY TempFacts DEF T!Unlink
  <2>2. fd[d] \in TempNames /\ owner[fd[d]] = d /\ buffer[d] = fd[d]
    BY <2>1, TempFacts
  <2>3. owner'[fd[d]] = owner[fd[d]]
    BY <1>1, <1>3, <2>1, <2>2, TempFacts DEF T!Unlink
  <2> QED
    BY <2>1, <2>2, <2>3
<1>5. T!NoFileIsLeft'
  BY <1>1, <1>3, TempConstants, TempFacts DEF T!NoFileIsLeft, T!Unlink
<1>6. \A d \in Callers : tempPc'[d] = "open file" <=> fd'[d] # T!NoFile
  BY DEF TempInv, T!TypeOK, T!Unlink
<1> QED
  BY <1>2, <1>4, <1>5, <1>6 DEF TempInv

(* Callers and other programs, in any order. *)
LEMMA TempStep == TempInv /\ T!Next => TempInv'
<1> SUFFICES ASSUME TempInv, T!Next PROVE TempInv'
  OBVIOUS
<1>1. ASSUME NEW c \in Callers, T!BadArgument(c) \/ T!TooLong(c) \/ T!GiveUp(c)
      PROVE  TempInv'
  <2>1. CASE T!BadArgument(c)
    <3>1. buffer' = [buffer EXCEPT ![c] = buffer[c]] /\ buffer[c] \in TempNames \cup {T!Template, T!Cut}
      BY <2>1 DEF TempInv, T!TypeOK, T!BadArgument
    <3> QED
      BY <2>1, <3>1, TempFails DEF TempInv, T!TypeOK, T!BadArgument
  <2>2. CASE T!TooLong(c)
    BY <2>2, TempFails DEF TempInv, T!TypeOK, T!TooLong
  <2>3. CASE T!GiveUp(c)
    <3>1. buffer' = [buffer EXCEPT ![c] = buffer[c]] /\ buffer[c] \in TempNames \cup {T!Template, T!Cut}
      BY <2>3 DEF TempInv, T!TypeOK, T!GiveUp
    <3> QED
      BY <2>3, <3>1, TempFails DEF TempInv, T!TypeOK, T!GiveUp
  <2> QED
    BY <1>1, <2>1, <2>2, <2>3
<1>2. ASSUME NEW c \in Callers, T!MakeTempFile(c) \/ T!Again(c) \/ T!Ignore(c)
      PROVE  TempInv'
  <2>1. T!TypeOK' /\ UNCHANGED <<owner, fd>>
    BY <1>2 DEF TempInv, T!TypeOK, T!MakeTempFile, T!Again, T!Ignore
  <2>2. fd[c] = T!NoFile /\ \A d \in Callers \ {c} : buffer'[d] = buffer[d]
    BY <1>2 DEF TempInv, T!TypeOK, T!MakeTempFile, T!Again, T!Ignore
  <2>3. T!FileIsItsMakers' /\ T!NoFileIsLeft'
    BY <2>1, <2>2 DEF TempInv, T!FileIsItsMakers, T!NoFileIsLeft
  <2>4. \A d \in Callers : tempPc'[d] = "open file" <=> fd'[d] # T!NoFile
    BY <1>2 DEF TempInv, T!TypeOK, T!MakeTempFile, T!Again, T!Ignore
  <2> QED
    BY <2>1, <2>3, <2>4 DEF TempInv
<1>3. ASSUME NEW c \in Callers, T!Mkstemps(c)
      PROVE  TempInv'
  <2>1. CASE buffer[c] = T!Template
    <3>1. attempt' \in [Callers -> 0 .. Attempts]
      BY <1>3, <2>1, TempConstants, TempFacts DEF T!Mkstemps
    <3>2. T!TypeOK'
      BY <1>3, <2>1, <3>1 DEF TempInv, T!TypeOK, T!Mkstemps
    <3>3. UNCHANGED <<owner, buffer, fd>>
      BY <1>3 DEF T!Mkstemps
    <3>4. T!FileIsItsMakers' /\ T!NoFileIsLeft'
      BY <3>3 DEF TempInv, T!FileIsItsMakers, T!NoFileIsLeft
    <3>5. \A d \in Callers : tempPc'[d] = "open file" <=> fd'[d] # T!NoFile
      BY <1>3, <2>1, <3>3 DEF TempInv, T!TypeOK, T!Mkstemps
    <3> QED
      BY <3>2, <3>4, <3>5 DEF TempInv
  <2>2. CASE buffer[c] # T!Template
    <3>1. buffer' = [buffer EXCEPT ![c] = buffer[c]] /\ buffer[c] \in TempNames \cup {T!Template, T!Cut}
      BY <1>3 DEF TempInv, T!TypeOK, T!Mkstemps
    <3> QED
      BY <1>3, <2>2, <3>1, TempFails DEF TempInv, T!TypeOK, T!Mkstemps
  <2> QED
    BY <2>1, <2>2
<1>4. ASSUME NEW x \in TempNames, T!OthersMakeFiles(x)
      PROVE  TempInv'
  <2>1. T!TypeOK'
    BY <1>4 DEF TempInv, T!TypeOK, T!OthersMakeFiles
  <2>2. \A d \in Callers : fd[d] # x
    BY <1>4, TempConstants, TempFacts DEF T!OthersMakeFiles
  <2>3. T!FileIsItsMakers' /\ T!NoFileIsLeft'
    BY <1>4, <2>2, TempConstants, TempFacts
       DEF T!FileIsItsMakers, T!NoFileIsLeft, T!OthersMakeFiles
  <2> QED
    BY <1>4, <2>1, <2>3 DEF TempInv, T!OthersMakeFiles
<1> QED
  BY <1>1, <1>2, <1>3, <1>4, TempOpens, TempUnlinks DEF T!Next, T!Step
-----------------------------------------------------------------------------
(* Directories.                                                             *)

(* 2 to the power of n counts the subsets of 1..n. *)
LEMMA PowerFacts ==
  ASSUME NEW k \in Nat
  PROVE  2^k \in Nat \ {0} /\ 2^(k + 1) = 2 * 2^k /\ 2^0 = 1
<1> DEFINE Old == SUBSET (1 .. k)
           More(X) == X \cup {k + 1}
           New == {More(X) : X \in Old}
<1>1. IsFiniteSet(1 .. k) /\ Cardinality(1 .. k) = k
      /\ IsFiniteSet(1 .. k + 1) /\ Cardinality(1 .. k + 1) = k + 1
  BY FS_Interval
<1>2. IsFiniteSet(Old) /\ Cardinality(Old) = 2^k /\ Cardinality(SUBSET (1 .. k + 1)) = 2^(k + 1)
  BY <1>1, FS_SUBSET
<1>3. 2^k \in Nat
  BY <1>2, FS_CardinalityType
<1>4. 2^k # 0
  <2>1. Old # {}
    OBVIOUS
  <2> QED
    BY <1>2, <2>1, FS_EmptySet
<1>5. IsFiniteSet(New) /\ Cardinality(New) = Cardinality(Old)
  <2> DEFINE f == [X \in Old |-> More(X)]
  <2>1. f \in [Old -> New] /\ \A Y \in New : \E X \in Old : f[X] = Y
    OBVIOUS
  <2>2. ASSUME NEW X \in Old, NEW Y \in Old, f[X] = f[Y]
        PROVE  X = Y
    <3>1. X \cup {k + 1} = Y \cup {k + 1} /\ k + 1 \notin X /\ k + 1 \notin Y
      BY <2>2
    <3> QED
      BY <3>1
  <2>3. f \in Bijection(Old, New)
    <3> HIDE DEF f, Old, New
    <3> QED
      BY <2>1, <2>2 DEF Bijection, Injection, Surjection, IsInjective
  <2> QED
    BY <1>2, <2>3, FS_Bijection DEF ExistsBijection
<1>6. SUBSET (1 .. k + 1) = Old \cup New
  <2>1. ASSUME NEW X \in SUBSET (1 .. k + 1)
        PROVE  X \in Old \cup New
    <3>1. CASE k + 1 \in X
      <4>1. X \ {k + 1} \in Old /\ X = More(X \ {k + 1})
        BY <3>1
      <4> QED
        BY <4>1
    <3>2. CASE k + 1 \notin X
      BY <3>2
    <3> QED
      BY <3>1, <3>2
  <2>2. Old \cup New \subseteq SUBSET (1 .. k + 1)
    <3>1. \A X \in Old : X \cup {k + 1} \subseteq 1 .. k + 1 /\ X \subseteq 1 .. k + 1
      OBVIOUS
    <3> QED
      BY <3>1
  <2> QED
    BY <2>1, <2>2, Zenon
<1>7. Old \cap New = {}
  <2>1. k + 1 \notin 1 .. k
    OBVIOUS
  <2> QED
    BY <2>1
<1>8. 2^(k + 1) = 2^k + 2^k
  <2> HIDE DEF Old, New
  <2>1. Cardinality(Old \cup New) = Cardinality(Old) + Cardinality(New) - Cardinality(Old \cap New)
    BY <1>2, <1>5, FS_Union
  <2>2. Cardinality(Old \cap New) = 0
    BY <1>7, FS_EmptySet
  <2>3. Cardinality(Old \cup New) = 2^(k + 1)
    BY <1>2, <1>6
  <2> QED
    BY <1>2, <1>3, <1>5, <2>1, <2>2, <2>3
<1>9. 2^0 = 1
  <2>1. IsFiniteSet(1 .. 0) /\ Cardinality(1 .. 0) = 0 /\ SUBSET (1 .. 0) = {{}}
    BY FS_Interval
  <2>2. Cardinality({{}}) = 1
    BY FS_Singleton
  <2> QED
    BY <2>1, <2>2, FS_SUBSET
<1> QED
  BY <1>3, <1>4, <1>8, <1>9

(* The entries are the names that fit among the first "at", in order. *)
Copied ==
  /\ entries \in Seq(1 .. at)
  /\ Len(entries) <= at
  /\ \A e, g \in 1 .. Len(entries) : e < g => entries[e] < entries[g]
  /\ \A e \in 1 .. Len(entries) : names[entries[e]] = "short"
  /\ dirResult # "fatal" =>
       \A k \in 1 .. at : names[k] = "short" => \E e \in 1 .. Len(entries) : entries[e] = k

(* The block is the first one, doubled as often as entries needed it. *)
Doubled ==
  /\ entryBlock <= MaxCap
  /\ Len(entries) <= entryBlock
  /\ \E k \in 0 .. at : entryBlock = Initial * 2^k

(* What is held at each step of the call. *)
Holding ==
  /\ dirPc \in {"open", "first"} => entryBlock = 0 /\ ~handle /\ entries = <<>> /\ at = 0
  /\ dirPc = "open" => ~pattern
  /\ dirPc \in {"read", "name", "close"} => Doubled /\ ~pattern
  /\ dirPc = "done" /\ dirResult = "failed" => entryBlock = 0
  /\ dirPc = "done" /\ dirResult = "list" => entryBlock = Len(entries) /\ entryBlock <= MaxCap
  /\ dirPc = "done" /\ dirResult = "fatal" => Len(entries) <= entryBlock /\ entryBlock <= MaxCap
  /\ dirPc = "done" /\ dirResult # "fatal" => ~handle /\ ~pattern

(* The step, its outcome, and who set errno. *)
Stage ==
  /\ dirPc \in {"open", "first", "read", "name", "close", "done"}
  /\ dirPc # "done" => dirResult = "none"
  /\ dirPc = "done" => dirResult \in {"failed", "fatal", "list"}
  /\ dirOs = "unix" /\ dirPc \in {"read", "close"} => errno # "before"
  /\ dirOs = "unix" /\ dirPc = "close" /\ errno = "none" => at = Len(names)
  /\ dirOs = "windows" /\ dirPc = "close" /\ "FindNextFile" \notin cause => at = Len(names)
  /\ dirResult = "list" => at = Len(names)
  /\ dirResult = "failed" => cause # {}
  /\ "before" \notin cause

DirTypes ==
  /\ names \in Seq({"short", "long"}) /\ Len(names) \in 1 .. MaxNames
  /\ at \in 0 .. Len(names) /\ handle \in BOOLEAN /\ pattern \in BOOLEAN
  /\ entryBlock \in Nat

DirInv == DirTypes /\ Copied /\ Holding /\ Stage

LEMMA DirConstants == MaxNames \in Nat /\ MaxCap \in Nat /\ Initial \in 1 .. MaxCap
BY Instances DEF D!DirectoryAssumption

(* A call begins with nothing held. *)
LEMMA DirStart == D!Init => DirInv
<1> SUFFICES ASSUME D!Init PROVE DirInv
  OBVIOUS
<1>1. PICK k \in 1 .. MaxNames : names \in [1 .. k -> {"short", "long"}]
  BY DEF D!Init
<1>2. names \in Seq({"short", "long"}) /\ Len(names) = k
  BY <1>1, DirConstants
<1>3. DirTypes
  <2>1. handle \in BOOLEAN /\ pattern \in BOOLEAN
    BY Zenon DEF D!Init
  <2>2. at \in 0 .. Len(names) /\ entryBlock \in Nat
    BY <1>2 DEF D!Init
  <2> QED
    BY <1>1, <1>2, <2>1, <2>2, DirConstants DEF DirTypes
<1>4. Copied /\ Holding
  BY DEF D!Init, Copied, Holding
<1>5. Stage
  BY DEF D!Init, Stage
<1> QED
  BY <1>3, <1>4, <1>5 DEF DirInv

(* What the invariant says for the properties. *)
LEMMA DirIsRight ==
  DirInv => D!TypeOK /\ D!NothingIsLeft /\ D!ListIsWhole /\ D!FailureHasCause
<1> SUFFICES ASSUME DirInv
             PROVE  D!TypeOK /\ D!NothingIsLeft /\ D!ListIsWhole /\ D!FailureHasCause
  OBVIOUS
<1>1. D!TypeOK
  <2>1. at \in 0 .. Len(names) /\ handle \in BOOLEAN /\ pattern \in BOOLEAN
    BY DEF DirInv, DirTypes
  <2>2. Len(entries) <= entryBlock \/ dirResult \in {"failed", "fatal"}
    BY DirConstants DEF DirInv, Holding, Doubled, Stage, DirTypes
  <2>3. dirPc # "done" => entryBlock \in {0} \cup {Initial * 2^k : k \in 0 .. MaxNames}
    <3> SUFFICES ASSUME dirPc \in {"read", "name", "close"}
                 PROVE  entryBlock \in {0} \cup {Initial * 2^k : k \in 0 .. MaxNames}
      BY DEF DirInv, Holding, Stage
    <3>1. PICK k \in 0 .. at : entryBlock = Initial * 2^k
      BY DEF DirInv, Holding, Doubled
    <3>2. k \in 0 .. MaxNames
      BY DirConstants DEF DirInv, DirTypes
    <3> QED
      BY <3>1, <3>2
  <2>4. entryBlock <= MaxCap
    BY DirConstants DEF DirInv, Holding, Doubled, Stage, DirTypes
  <2> QED
    BY <2>1, <2>2, <2>3, <2>4 DEF D!TypeOK
<1>2. D!NothingIsLeft
  BY DEF DirInv, Holding, Stage, D!NothingIsLeft
<1>3. D!ListIsWhole
  <2> SUFFICES ASSUME dirResult = "list" PROVE D!ListIsWhole
    BY DEF D!ListIsWhole
  <2>1. at = Len(names) /\ DOMAIN entries = 1 .. Len(entries) /\ DOMAIN names = 1 .. at
    BY DEF DirInv, Stage, DirTypes, Copied
  <2>2. {entries[e] : e \in DOMAIN entries} = {k \in DOMAIN names : names[k] = "short"}
    <3>1. \A e \in 1 .. Len(entries) : entries[e] \in 1 .. at
      <4>1. entries \in Seq(1 .. at)
        BY DEF DirInv, Copied
      <4> QED
        BY <4>1, ElementOfSeq
    <3>2. \A e \in 1 .. Len(entries) : names[entries[e]] = "short"
      BY DEF DirInv, Copied
    <3>3. \A k \in 1 .. at : names[k] = "short" => \E e \in 1 .. Len(entries) : entries[e] = k
      BY DEF DirInv, Copied
    <3>4. {entries[e] : e \in 1 .. Len(entries)} = {k \in 1 .. at : names[k] = "short"}
      BY <3>1, <3>2, <3>3
    <3> QED
      BY <2>1, <3>4
  <2>3. \A e, g \in DOMAIN entries : e < g => entries[e] < entries[g]
    BY <2>1 DEF DirInv, Copied
  <2> QED
    BY <2>2, <2>3 DEF D!ListIsWhole
<1>4. D!FailureHasCause
  BY DEF DirInv, Stage, D!FailureHasCause
<1> QED
  BY <1>1, <1>2, <1>3, <1>4

(* One more name is looked at: it is skipped, copied or too many. *)
LEMMA TakeFacts ==
  ASSUME DirInv, D!Take, at < Len(names), dirPc \in {"read", "name"},
         UNCHANGED <<dirOs, names, handle, pattern>>,
         dirOs = "unix" \/ dirPc = "name"
  PROVE  DirInv'
<1>1. /\ names \in Seq({"short", "long"}) /\ Len(names) \in Nat /\ at \in Nat
      /\ at' = at + 1 /\ names' = names /\ entryBlock \in Nat /\ MaxCap \in Nat
  BY DirConstants DEF DirInv, DirTypes, D!Take
<1>2. names[at + 1] \in {"short", "long"}
  BY <1>1
<1>3. Copied /\ Doubled /\ ~pattern /\ dirResult = "none" /\ "before" \notin cause
  BY DEF DirInv, Holding, Stage
<1>4. CASE names[at + 1] = "long"
  <2>1. UNCHANGED <<entryBlock, entries, dirPc, dirResult>> /\ errno' \in {errno, "message"}
        /\ (cause' = cause \/ cause' = cause \cup {"message"})
    BY <1>4 DEF D!Take
  <2>2. DirTypes'
    BY <1>1, <2>1 DEF DirInv, DirTypes
  <2>3. Copied'
    <3>1. entries \in Seq(1 .. at + 1)
      BY <1>1, <1>3 DEF Copied
    <3> QED
      BY <1>1, <1>3, <1>4, <2>1, <3>1 DEF Copied
  <2>4. Doubled'
    BY <1>1, <1>3, <2>1 DEF Doubled
  <2>5. Holding'
    BY <1>3, <2>1, <2>4 DEF DirInv, Holding
  <2>6. Stage'
    BY <1>3, <2>1 DEF DirInv, Stage
  <2> QED
    BY <2>2, <2>3, <2>5, <2>6 DEF DirInv
<1>5. CASE names[at + 1] = "short" /\ Len(entries) >= entryBlock /\ entryBlock > MaxCap \div 2
  <2>1. /\ dirPc' = "done" /\ dirResult' = "fatal"
        /\ UNCHANGED <<entryBlock, entries, errno, cause>>
    BY <1>5 DEF D!Take
  <2>2. DirTypes'
    BY <1>1, <2>1 DEF DirInv, DirTypes
  <2>3. Copied'
    <3>1. entries \in Seq(1 .. at + 1)
      BY <1>1, <1>3 DEF Copied
    <3> QED
      BY <1>1, <1>3, <2>1, <3>1 DEF Copied
  <2>4. Holding'
    BY <1>1, <1>3, <2>1 DEF Holding, Doubled
  <2>5. Stage'
    BY <1>3, <2>1 DEF DirInv, Stage
  <2> QED
    BY <2>2, <2>3, <2>4, <2>5 DEF DirInv
<1>6. CASE names[at + 1] = "short" /\ ~ (Len(entries) >= entryBlock /\ entryBlock > MaxCap \div 2)
  <2>1. /\ entryBlock' = IF Len(entries) >= entryBlock THEN 2 * entryBlock ELSE entryBlock
        /\ entries' = Append(entries, at + 1)
        /\ UNCHANGED <<errno, cause, dirPc, dirResult>>
    BY <1>6 DEF D!Take
  <2>2. /\ entries \in Seq(1 .. at + 1) /\ Len(entries) \in Nat
        /\ Len(entries) <= at /\ Len(entries) <= entryBlock
    BY <1>1, <1>3 DEF Copied, Doubled
  <2>2a. \A e \in 1 .. Len(entries) : entries[e] \in 1 .. at
    <3>1. entries \in Seq(1 .. at)
      BY <1>3 DEF Copied
    <3> QED
      BY <3>1, ElementOfSeq
  <2>3. /\ entries' \in Seq(1 .. at + 1) /\ Len(entries') = Len(entries) + 1
        /\ \A e \in 1 .. Len(entries) : entries'[e] = entries[e]
        /\ entries'[Len(entries) + 1] = at + 1
    BY <1>1, <2>1, <2>2
  <2>4. DirTypes'
    BY <1>1, <2>1 DEF DirInv, DirTypes
  <2>5. Copied'
    <3>1. \A e, g \in 1 .. Len(entries') : e < g => entries'[e] < entries'[g]
      <4> SUFFICES ASSUME NEW e \in 1 .. Len(entries'), NEW g \in 1 .. Len(entries'), e < g
                   PROVE  entries'[e] < entries'[g]
        OBVIOUS
      <4>1. e \in 1 .. Len(entries) /\ entries[e] \in 1 .. at /\ entries'[e] = entries[e]
        BY <2>2, <2>2a, <2>3
      <4>2. CASE g = Len(entries) + 1
        BY <1>1, <2>3, <4>1, <4>2
      <4>3. CASE g # Len(entries) + 1
        <5>1. g \in 1 .. Len(entries)
          BY <2>2, <2>3, <4>3
        <5> QED
          BY <1>3, <2>3, <4>1, <5>1 DEF Copied
      <4> QED
        BY <4>2, <4>3
    <3>2. \A e \in 1 .. Len(entries') : names[entries'[e]] = "short"
      <4>1. \A e \in 1 .. Len(entries) : names[entries[e]] = "short"
        BY <1>3 DEF Copied
      <4>2. \A e \in 1 .. Len(entries') : e \in 1 .. Len(entries) \/ e = Len(entries) + 1
        BY <2>2, <2>3
      <4> QED
        BY <1>6, <2>3, <4>1, <4>2, Zenon
    <3>3. ASSUME NEW k \in 1 .. at + 1, names[k] = "short"
          PROVE  \E e \in 1 .. Len(entries') : entries'[e] = k
      <4>1. CASE k = at + 1
        BY <2>2, <2>3, <4>1
      <4>2. CASE k # at + 1
        <5>1. k \in 1 .. at
          BY <1>1, <4>2
        <5>2. PICK e \in 1 .. Len(entries) : entries[e] = k
          BY <1>3, <3>3, <5>1 DEF Copied
        <5>3. e \in 1 .. Len(entries') /\ entries'[e] = k
          BY <2>2, <2>3, <5>2
        <5> QED
          BY <5>3
      <4> QED
        BY <4>1, <4>2
    <3> QED
      BY <1>1, <2>2, <2>3, <3>1, <3>2, <3>3 DEF Copied
  <2>5a. Doubled'
    <3>1. PICK k \in 0 .. at : entryBlock = Initial * 2^k
      BY <1>3 DEF Doubled
    <3>2. 2^k \in Nat \ {0} /\ 2^(k + 1) = 2 * 2^k /\ Initial \in Nat \ {0}
      BY <3>1, PowerFacts, DirConstants
    <3>3. k \in 0 .. at + 1 /\ k + 1 \in 0 .. at + 1 /\ entryBlock \in Nat \ {0}
      BY <1>1, <3>1, <3>2
    <3>4. CASE Len(entries) >= entryBlock
      <4>1. entryBlock' = 2 * entryBlock /\ 2 * entryBlock = Initial * 2^(k + 1)
        BY <2>1, <3>1, <3>2, <3>4
      <4>2. entryBlock <= MaxCap \div 2
        BY <1>1, <1>6, <3>4
      <4>3. 2 * entryBlock <= MaxCap
        BY <1>1, <4>2
      <4>4. Len(entries') <= entryBlock'
        BY <1>1, <2>2, <2>3, <3>3, <4>1
      <4> QED
        BY <1>1, <3>3, <4>1, <4>3, <4>4 DEF Doubled
    <3>5. CASE ~ (Len(entries) >= entryBlock)
      BY <1>1, <1>3, <2>1, <2>2, <2>3, <3>1, <3>3, <3>5 DEF Doubled
    <3> QED
      BY <3>4, <3>5
  <2>6. Holding'
    BY <1>3, <2>1, <2>5a DEF DirInv, Holding
  <2>7. Stage'
    BY <1>3, <2>1 DEF DirInv, Stage
  <2> QED
    BY <2>4, <2>5, <2>6, <2>7 DEF DirInv
<1> QED
  BY <1>2, <1>4, <1>5, <1>6

(* A way out that fails. *)
LEMMA DirFails ==
  ASSUME DirInv, NEW why, why # "before", D!Fails(why), dirPc # "done",
         UNCHANGED <<dirOs, names, at, entries>>,
         entryBlock' = 0, handle' = FALSE, pattern' = FALSE
  PROVE  DirInv'
<1>1. /\ dirPc' = "done" /\ dirResult' = "failed" /\ cause' = cause \cup {why}
      /\ dirResult = "none"
  BY DEF D!Fails, DirInv, Stage
<1>2. DirTypes'
  BY <1>1 DEF DirInv, DirTypes
<1>3. Copied'
  BY <1>1 DEF DirInv, Copied
<1>4. Holding' /\ Stage'
  BY <1>1 DEF DirInv, Holding, Stage
<1> QED
  BY <1>2, <1>3, <1>4 DEF DirInv

(* A step that neither looks at a name nor ends the call. *)
LEMMA DirGoesOn ==
  ASSUME DirInv, UNCHANGED <<names, at, entries, dirResult>>,
         handle' \in BOOLEAN, pattern' \in BOOLEAN,
         entryBlock' \in Nat, Holding', Stage'
  PROVE  DirInv'
<1>1. DirTypes' /\ Copied'
  BY DEF DirInv, DirTypes, Copied
<1> QED
  BY <1>1 DEF DirInv

(* The end of the call, with the list or without. *)
LEMMA DirFinishes ==
  ASSUME DirInv, NEW good \in BOOLEAN, NEW why, ~good => why # "before", dirPc = "close",
         good => at = Len(names), D!Finish(good, why), handle' = FALSE,
         UNCHANGED <<dirOs, names, at, pattern, entries, errno>>
  PROVE  DirInv'
<1>1. pattern = FALSE /\ Doubled /\ dirResult = "none" /\ "before" \notin cause /\ entryBlock \in Nat
      /\ entries \in Seq(1 .. at)
  BY DEF DirInv, Holding, Stage, DirTypes, Copied
<1>2. CASE good
  <2>1. /\ dirPc' = "done" /\ dirResult' = "list" /\ entryBlock' = Len(entries)
        /\ cause' = cause
    BY <1>2 DEF D!Finish
  <2>2a. DirTypes'
    <3>1. handle' \in BOOLEAN /\ pattern' \in BOOLEAN
      BY Zenon DEF DirInv, DirTypes
    <3> QED
      BY <1>1, <2>1, <3>1 DEF DirInv, DirTypes
  <2>2. Copied'
    BY <1>1, <2>1 DEF DirInv, Copied
  <2>3. Holding'
    BY <1>1, <2>1, DirConstants DEF Holding, Doubled
  <2>4. Stage'
    BY <1>1, <1>2, <2>1 DEF DirInv, Stage
  <2> QED
    BY <2>2, <2>2a, <2>3, <2>4 DEF DirInv
<1>3. CASE ~good
  BY <1>1, <1>3, DirFails DEF D!Finish
<1> QED
  BY <1>2, <1>3

(* Every step of a listing, on both systems. *)
LEMMA DirStep == DirInv /\ D!Next => DirInv'
<1> SUFFICES ASSUME DirInv, D!Next PROVE DirInv'
  OBVIOUS
<1>1. CASE D!OpenDir
  <2>1. CASE D!Fails("opendir") /\ UNCHANGED <<handle, entryBlock, errno>>
    <3>1. entryBlock' = 0 /\ handle' = FALSE /\ pattern' = FALSE /\ UNCHANGED <<dirOs, names, at, entries>>
      BY <1>1, <2>1 DEF D!OpenDir, D!call, DirInv, Holding, DirTypes
    <3>2. dirPc # "done"
      BY <1>1 DEF D!OpenDir
    <3> QED
      BY <2>1, <3>1, <3>2, DirFails
  <2>2. CASE dirPc' = "read" /\ handle' = TRUE /\ entryBlock' = Initial /\ errno' = "none"
             /\ UNCHANGED <<cause, dirResult>>
    <3>1. UNCHANGED <<dirOs, names, at, pattern, entries>> /\ dirPc = "open" /\ dirOs = "unix"
      BY <1>1 DEF D!OpenDir, D!call
    <3>2. entries = <<>> /\ at = 0 /\ ~pattern /\ dirResult = "none" /\ "before" \notin cause
      BY <3>1 DEF DirInv, Holding, Stage
    <3>3. Doubled'
      <4>1. Initial * 2^0 = Initial /\ Len(entries) = 0
        BY <3>2, PowerFacts, DirConstants
      <4> QED
        BY <2>2, <3>1, <3>2, <4>1, DirConstants DEF Doubled
    <3>4. Holding' /\ Stage'
      BY <2>2, <3>1, <3>2, <3>3 DEF Holding, Stage
    <3>5. handle' \in BOOLEAN /\ pattern' \in BOOLEAN /\ entryBlock' \in Nat
      BY <2>2, <3>1, DirConstants DEF DirInv, DirTypes
    <3>6. UNCHANGED <<names, at, entries, dirResult>>
      BY <2>2, <3>1
    <3> QED
      BY <3>4, <3>5, <3>6, DirGoesOn
  <2> QED
    BY <1>1, <2>1, <2>2 DEF D!OpenDir
<1>2. CASE D!ReadDir \/ D!TakeName
  BY <1>2, TakeFacts DEF D!ReadDir, D!TakeName, D!call
<1>3. CASE D!ReadDirEnds
  <2>1. /\ UNCHANGED <<dirOs, names, at, handle, pattern, entryBlock, entries, dirResult>>
        /\ dirPc = "read" /\ dirPc' = "close" /\ dirOs = "unix"
        /\ \/ at = Len(names) /\ errno' = errno /\ cause' = cause
           \/ errno' = "readdir" /\ cause' = cause \cup {"readdir"}
    BY <1>3 DEF D!ReadDirEnds, D!call
  <2>2. Doubled'
    BY <2>1 DEF DirInv, Holding, Doubled
  <2>3. Holding' /\ Stage'
    BY <2>1, <2>2 DEF DirInv, Holding, Stage
  <2> QED
    BY <2>1, <2>3, DirGoesOn DEF DirInv, DirTypes
<1>4. CASE D!CloseDir
  <2>1. /\ UNCHANGED <<dirOs, names, at, pattern, entries, errno>> /\ handle' = FALSE
        /\ dirPc = "close" /\ dirOs = "unix"
        /\ D!Finish(errno = "none", errno) \/ D!Finish(FALSE, "closedir")
    BY <1>4 DEF D!CloseDir, D!call
  <2>2. errno # "before" /\ (errno = "none" => at = Len(names))
    BY <2>1 DEF DirInv, Stage
  <2> QED
    BY <2>1, <2>2, DirFinishes
<1>5. CASE D!MakePattern
  <2>1. CASE D!Fails("convert") /\ UNCHANGED pattern
    <3>1. entryBlock' = 0 /\ handle' = FALSE /\ pattern' = FALSE /\ UNCHANGED <<dirOs, names, at, entries>>
      BY <1>5, <2>1 DEF D!MakePattern, D!call, DirInv, Holding, DirTypes
    <3>2. dirPc # "done"
      BY <1>5 DEF D!MakePattern
    <3> QED
      BY <2>1, <3>1, <3>2, DirFails
  <2>2. CASE dirPc' = "first" /\ pattern' = TRUE /\ UNCHANGED <<cause, dirResult>>
    <3>1. UNCHANGED <<dirOs, names, at, handle, entryBlock, entries, errno>> /\ dirPc = "open"
      BY <1>5 DEF D!MakePattern, D!call
    <3>2. Holding' /\ Stage'
      BY <2>2, <3>1 DEF DirInv, Holding, Stage
    <3> QED
      BY <2>2, <3>1, <3>2, DirGoesOn DEF DirInv, DirTypes
  <2> QED
    BY <1>5, <2>1, <2>2 DEF D!MakePattern
<1>6. CASE D!FindFirst
  <2>1. CASE D!Fails("FindFirstFile") /\ UNCHANGED <<handle, entryBlock>>
    <3>1. entryBlock' = 0 /\ handle' = FALSE /\ pattern' = FALSE /\ UNCHANGED <<dirOs, names, at, entries>>
      BY <1>6, <2>1 DEF D!FindFirst, D!call, DirInv, Holding, DirTypes
    <3>2. dirPc # "done"
      BY <1>6 DEF D!FindFirst
    <3> QED
      BY <2>1, <3>1, <3>2, DirFails
  <2>2. CASE dirPc' = "name" /\ handle' = TRUE /\ entryBlock' = Initial
             /\ UNCHANGED <<cause, dirResult>>
    <3>1. /\ UNCHANGED <<dirOs, names, at, entries, errno>> /\ pattern' = FALSE
          /\ dirPc = "first" /\ dirOs = "windows"
      BY <1>6 DEF D!FindFirst, D!call
    <3>2. entries = <<>> /\ at = 0 /\ dirResult = "none" /\ "before" \notin cause
      BY <3>1 DEF DirInv, Holding, Stage
    <3>3. Doubled'
      <4>1. Initial * 2^0 = Initial /\ Len(entries) = 0
        BY <3>2, PowerFacts, DirConstants
      <4> QED
        BY <2>2, <3>1, <3>2, <4>1, DirConstants DEF Doubled
    <3>4. Holding' /\ Stage'
      BY <2>2, <3>1, <3>2, <3>3 DEF Holding, Stage
    <3>5. handle' \in BOOLEAN /\ pattern' \in BOOLEAN /\ entryBlock' \in Nat
      <4>1. pattern' \in BOOLEAN
        BY <3>1, Zenon
      <4> QED
        BY <2>2, <3>1, <4>1, DirConstants DEF DirInv, DirTypes
    <3>6. UNCHANGED <<names, at, entries, dirResult>>
      BY <2>2, <3>1
    <3> QED
      BY <3>4, <3>5, <3>6, DirGoesOn
  <2> QED
    BY <1>6, <2>1, <2>2 DEF D!FindFirst
<1>7. CASE D!CannotConvert
  <2>1. /\ UNCHANGED <<dirOs, names, at, pattern, entries>> /\ dirPc = "name"
        /\ D!Fails("convert") /\ handle' = FALSE /\ entryBlock' = 0
    BY <1>7 DEF D!CannotConvert, D!call
  <2>2. pattern' = FALSE
    BY <2>1 DEF DirInv, Holding, DirTypes
  <2> QED
    BY <2>1, <2>2, DirFails
<1>8. CASE D!FindNext
  <2>1. /\ UNCHANGED <<dirOs, names, at, handle, pattern, entryBlock, entries, errno, dirResult>>
        /\ dirPc = "name" /\ dirPc' = "close" /\ dirOs = "windows"
        /\ \/ at = Len(names) /\ cause' = cause
           \/ cause' = cause \cup {"FindNextFile"}
    BY <1>8 DEF D!FindNext, D!call
  <2>2. Doubled'
    BY <2>1 DEF DirInv, Holding, Doubled
  <2>3. Holding' /\ Stage'
    BY <2>1, <2>2 DEF DirInv, Holding, Stage
  <2> QED
    BY <2>1, <2>3, DirGoesOn DEF DirInv, DirTypes
<1>9. CASE D!FindClose
  <2>1. /\ UNCHANGED <<dirOs, names, at, pattern, entries, errno>> /\ handle' = FALSE
        /\ dirPc = "close" /\ dirOs = "windows"
        /\ D!Finish("FindNextFile" \notin cause, "FindNextFile") \/ D!Finish(FALSE, "FindClose")
    BY <1>9 DEF D!FindClose, D!call
  <2>2. "FindNextFile" \notin cause => at = Len(names)
    BY <2>1 DEF DirInv, Stage
  <2> QED
    BY <2>1, <2>2, DirFinishes
<1> QED
  BY <1>1, <1>2, <1>3, <1>4, <1>5, <1>6, <1>7, <1>8, <1>9 DEF D!Next
-----------------------------------------------------------------------------
(* Whole files.                                                             *)

(* What the assumptions say of lengths. *)
LEMMA FileConstants == MaxFile \in Nat /\ MaxCalls \in Nat /\ Chunk \in Nat \ {0}
BY Instances DEF F!FileIoAssumption

(* The contents of a file are the sequences up to the longest. *)
LEMMA ContentsAre ==
  ASSUME NEW x
  PROVE  x \in F!Contents <=> x \in Seq(Units) /\ Len(x) <= MaxFile
<1>1. ASSUME x \in F!Contents
      PROVE  x \in Seq(Units) /\ Len(x) <= MaxFile
  <2>1. PICK k \in 0 .. MaxFile : x \in [1 .. k -> Units]
    BY <1>1 DEF F!Contents, F!BoundedSeq, F!SeqOf
  <2> QED
    BY <2>1, FileConstants
<1>2. ASSUME x \in Seq(Units), Len(x) <= MaxFile
      PROVE  x \in F!Contents
  <2>1. Len(x) \in 0 .. MaxFile /\ x \in [1 .. Len(x) -> Units]
    BY <1>2, FileConstants
  <2> QED
    BY <2>1 DEF F!Contents, F!BoundedSeq, F!SeqOf
<1> QED
  BY <1>1, <1>2

(* The smaller of two. *)
LEMMA LeastOfTwo ==
  ASSUME NEW x \in Int, NEW y \in Int
  PROVE  /\ F!Min({x, y}) = IF x <= y THEN x ELSE y
         /\ C!Min({x, y}) = IF x <= y THEN x ELSE y
         /\ S!Min({x, y}) = IF x <= y THEN x ELSE y
BY DEF F!Min, C!Min, S!Min

(* A part of a file, from an offset to e, goes on where the part before ends. *)
LEMMA PartOf ==
  ASSUME NEW A, NEW a \in Seq(A), NEW off \in Nat, NEW e \in Nat, off < e, e <= Len(a)
  PROVE  /\ SubSeq(a, off + 1, e) \in Seq(A)
         /\ Len(SubSeq(a, off + 1, e)) = e - off
         /\ SubSeq(a, 1, off) \o SubSeq(a, off + 1, e) = SubSeq(a, 1, e)
<1>1. Len(a) \in Nat
  OBVIOUS
<1>2. \A k \in off + 1 .. e : a[k] \in A
  <2>1. \A k \in off + 1 .. e : k \in 1 .. Len(a)
    BY <1>1
  <2> QED
    BY <2>1, ElementOfSeq
<1>3. /\ SubSeq(a, off + 1, e) \in Seq(A)
      /\ Len(SubSeq(a, off + 1, e)) = IF off + 1 <= e THEN e - (off + 1) + 1 ELSE 0
  BY <1>2, SubSeqProperties
<1>4. 1 \in 1 .. Len(a) + 1 /\ off \in 1 - 1 .. Len(a) /\ e \in off .. Len(a)
  BY <1>1
<1>5. SubSeq(a, 1, off) \o SubSeq(a, off + 1, e) = SubSeq(a, 1, e)
  BY <1>4, ConcatAdjacentSubSeq
<1> QED
  BY <1>3, <1>5

(* A chunk begins where the last one ended; at the end of the file it is    *)
(* empty.                                                                   *)
ChunkOf(a, off) == SubSeq(a, off + 1, F!Min({off + Chunk, Len(a)}))

ChunkIs(A, a, off, c) ==
  /\ c \in Seq(A)
  /\ off >= Len(a) => c = <<>>
  /\ off < Len(a) => /\ c # <<>> /\ Len(c) \in 1 .. Len(a) - off
                     /\ SubSeq(a, 1, off) \o c = SubSeq(a, 1, off + Len(c))

LEMMA ChunkFacts ==
  ASSUME NEW A, NEW a \in Seq(A), NEW off \in Nat
  PROVE  ChunkIs(A, a, off, ChunkOf(a, off))
<1>1. PICK e \in Nat : e = F!Min({off + Chunk, Len(a)}) /\ e <= Len(a)
                       /\ (off < Len(a) => off < e) /\ (off >= Len(a) => e <= off)
  <2>1. off + Chunk \in Int /\ Len(a) \in Int /\ Len(a) >= 0 /\ Chunk \in Nat \ {0}
    BY FileConstants
  <2> QED
    BY <2>1, LeastOfTwo
<1>2. PICK c : c = ChunkOf(a, off)
  OBVIOUS
<1>3. c = SubSeq(a, off + 1, e) /\ Len(a) \in Nat
  BY <1>1, <1>2 DEF ChunkOf
<1>4. CASE off < Len(a)
  <2>1. c \in Seq(A) /\ Len(c) = e - off /\ SubSeq(a, 1, off) \o c = SubSeq(a, 1, e)
    <3>1. off < e /\ e <= Len(a)
      BY <1>1, <1>4
    <3>2. /\ SubSeq(a, off + 1, e) \in Seq(A)
          /\ Len(SubSeq(a, off + 1, e)) = e - off
          /\ SubSeq(a, 1, off) \o SubSeq(a, off + 1, e) = SubSeq(a, 1, e)
      BY <3>1, PartOf
    <3> QED
      BY <1>3, <3>2, Zenon
  <2>2. Len(c) \in 1 .. Len(a) - off /\ off + Len(c) = e
    <3>1. Len(c) = e - off /\ off < e /\ e <= Len(a) /\ Len(a) \in Nat
      BY <1>1, <1>3, <1>4, <2>1
    <3>2. PICK n : n = Len(c)
      OBVIOUS
    <3>3. PICK m \in Nat : m = Len(a)
      BY <1>3
    <3>4. n \in 1 .. m - off /\ off + n = e
      BY <3>1, <3>2, <3>3
    <3> QED
      BY <3>2, <3>3, <3>4, Zenon
  <2>3. c # <<>>
    BY <2>2
  <2>4. off + Len(c) = e
    BY <2>2
  <2>5. SubSeq(a, 1, off) \o c = SubSeq(a, 1, off + Len(c))
    BY <1>3, <2>1, <2>4, Zenon
  <2>6. ~ (off >= Len(a))
    BY <1>3, <1>4
  <2> QED
    BY <1>2, <2>1, <2>2, <2>3, <2>5, <2>6, Zenon DEF ChunkIs
<1>5. CASE off >= Len(a)
  <2>1. off + 1 \in Int /\ e \in Int /\ e < off + 1
    BY <1>1, <1>5
  <2>2. c = <<>>
    BY <1>3, <2>1, SubSeqEmpty
  <2>3. c \in Seq(A)
    BY <2>2
  <2>4. ~ (off < Len(a))
    BY <1>3, <1>5
  <2> QED
    BY <1>2, <1>3, <1>5, <2>2, <2>3, <2>4, Zenon DEF ChunkIs
<1> QED
  BY <1>3, <1>4, <1>5

(* The file a from its beginning to an offset, which may be its end. *)
LEMMA PartFacts ==
  ASSUME NEW A, NEW a \in Seq(A), NEW k \in 0 .. Len(a)
  PROVE  SubSeq(a, 1, k) \in Seq(A) /\ Len(SubSeq(a, 1, k)) = k
<1>1. \A x \in 1 .. k : a[x] \in A
  BY ElementOfSeq
<1> QED
  BY <1>1, SubSeqProperties

FileOps == {"none", "dead", "copy", "read", "write", "equal"}
FilePcs == {"begin", "close", "mapA", "mapB", "compare", "read"}
OnDisk == F!Contents \cup {F!Missing}
FileCalls == [op : FileOps, pc : FilePcs, off : 0 .. MaxFile, len : 0 .. MaxFile, data : OnDisk]

FileTypes ==
  /\ disk \in [F!Names -> OnDisk]
  /\ call \in FileCalls
  /\ open \subseteq F!Names /\ maps \subseteq F!Names
  /\ block \in 0 .. MaxFile + 1

(* Descriptors are of calls, mappings of a comparison at two of its steps,   *)
(* and the block is a read's or its caller's.                                *)
Mapped == call.op = "equal" /\ call.pc \in {"mapB", "compare"}

FileHeld ==
  /\ call.op = "none" => open = {}
  /\ ~ Mapped => maps = {}
  /\ call.op \notin {"none", "read"} => block = 0
  /\ call.op = "none" /\ block > 0 => result.op = "read" /\ result.ok /\ block = Len(result.data) + 1

(* How far a copy to another file is. *)
CopySoFar ==
  call.op = "copy" /\ ~same =>
    /\ disk["b"] \in F!Contents /\ Len(disk["b"]) = call.off
    /\ ~changed => /\ call.data = disk["a"] /\ call.off <= Len(disk["a"])
                   /\ disk["b"] = SubSeq(disk["a"], 1, call.off)

(* The length of a read, while nobody changes the file. *)
ReadSoFar ==
  call.op = "read" =>
    /\ ~changed => call.data = disk["a"]
    /\ block > 0 => block = call.len + 1
    /\ block > 0 /\ ~changed => call.len = Len(disk["a"])

(* What fwrite took of the text, and what of that is in the file. *)
WriteSoFar ==
  call.op = "write" =>
    /\ call.data \in F!Contents
    /\ call.pc = "close" => call.off <= call.len /\ call.len <= Len(call.data)

(* How far files were found equal; both have the size that fstat told. *)
EqualSoFar ==
  call.op = "equal" /\ ~changed =>
    /\ call.off <= Len(disk["a"]) /\ call.off <= Len(F!Text("b"))
    /\ SubSeq(disk["a"], 1, call.off) = SubSeq(F!Text("b"), 1, call.off)
    /\ call.pc # "begin" => call.len = Len(disk["a"]) /\ call.len = Len(F!Text("b"))

FileCall ==
  /\ call.op \in {"copy", "read", "equal"} => disk["a"] \in F!Contents
  /\ call.op = "equal" => F!Text("b") \in F!Contents
  /\ CopySoFar /\ ReadSoFar /\ WriteSoFar /\ EqualSoFar

FileDone == F!CopyIsWhole /\ F!ReadIsWhole /\ F!WriteIsWhole /\ F!EqualIsTrue

FileInv == FileTypes /\ FileHeld /\ FileCall /\ FileDone

(* What the invariant gives of the properties. *)
LEMMA FileIsRight ==
  FileInv => F!TypeOK /\ F!NothingIsLeft /\ FileDone
<1> SUFFICES ASSUME FileInv PROVE F!TypeOK /\ F!NothingIsLeft
  BY DEF FileInv
<1>1. F!TypeOK
  BY DEF FileInv, FileTypes, FileCalls, OnDisk, F!TypeOK
<1>2. F!NothingIsLeft
  BY DEF FileInv, FileHeld, Mapped, F!NothingIsLeft
<1> QED
  BY <1>1, <1>2

(* The two paths lead to two files, or both to the first. *)
LEMMA FilesAre ==
  /\ "a" \in F!Names /\ "b" \in F!Names /\ F!File("b") \in F!Names
  /\ F!Text("a") = disk["a"] /\ F!Text("a")' = disk'["a"]
  /\ F!Text("b") = disk[F!File("b")]
  /\ ~same => F!File("b") = "b" /\ F!Text("b") = disk["b"]
  /\ same => F!File("b") = "a" /\ F!Text("b") = disk["a"]
  /\ (same' <=> same) => F!Text("b")' = disk'[F!File("b")]
BY DEF F!Names, F!Text, F!File

(* An empty file. *)
LEMMA NoContents == <<>> \in F!Contents /\ <<>> \in OnDisk
<1>1. <<>> \in Seq(Units) /\ Len(<<>>) = 0 /\ 0 <= MaxFile
  BY EmptySeq, FileConstants
<1> QED
  BY <1>1, ContentsAre DEF OnDisk

(* Between calls nothing is said. *)
LEMMA NoCallIs ==
  /\ F!NoCall \in FileCalls /\ F!NoCall.op = "none" /\ F!NoCall.off = 0 /\ F!NoCall.len = 0
  /\ F!NoResult.op = "none" /\ F!NoResult.ok = FALSE
<1>1. <<>> \in OnDisk /\ 0 \in 0 .. MaxFile
  BY NoContents, FileConstants
<1> QED
  BY <1>1 DEF F!NoCall, F!NoResult, FileCalls, FileOps, FilePcs

(* No call was made yet. *)
LEMMA FileStart == F!Init => FileInv
<1> SUFFICES ASSUME F!Init PROVE FileInv
  OBVIOUS
<1>1. /\ call = F!NoCall /\ open = {} /\ maps = {} /\ block = 0 /\ result = F!NoResult
      /\ disk \in [F!Names -> OnDisk]
  BY DEF F!Init, OnDisk
<1>2. call \in FileCalls /\ call.op = "none" /\ ~result.ok
  BY <1>1, NoCallIs
<1>3. FileTypes
  BY <1>1, <1>2, FileConstants DEF FileTypes
<1>4. FileHeld
  BY <1>1, <1>2 DEF FileHeld
<1>5. FileCall
  BY <1>2 DEF FileCall, CopySoFar, ReadSoFar, WriteSoFar, EqualSoFar
<1>6. FileDone
  BY <1>2 DEF FileDone, F!CopyIsWhole, F!ReadIsWhole, F!WriteIsWhole, F!EqualIsTrue
<1> QED
  BY <1>3, <1>4, <1>5, <1>6 DEF FileInv

(* A call returns, and what it says is so. *)
LEMMA FileReturns ==
  ASSUME FileInv, call.op # "none", NEW ok, NEW data, F!Return(ok, data), open' = {}, maps' = {},
         disk' \in [F!Names -> OnDisk], block' \in 0 .. MaxFile + 1,
         block' > 0 => call.op = "read" /\ ok /\ block' = Len(data) + 1,
         ok /\ ~changed' /\ ~same' /\ call.op = "copy" => data = call.data,
         ok /\ ~changed' /\ call.op = "read" => data = call.data,
         ok /\ ~closeFailed' /\ call.op = "write" => F!Text("b")' = call.data,
         ok /\ ~changed' /\ call.op = "equal" => F!Text("a")' = F!Text("b")'
  PROVE  FileInv'
<1>1. /\ call' = F!NoCall /\ call'.op = "none" /\ call' \in FileCalls
      /\ result'.op = call.op /\ result'.ok = ok /\ result'.data = data
      /\ result'.before = call.data
  BY NoCallIs DEF F!Return
<1>2. FileTypes'
  BY <1>1 DEF FileTypes
<1>3. FileHeld'
  BY <1>1 DEF FileHeld
<1>4. FileCall'
  BY <1>1 DEF FileCall, CopySoFar, ReadSoFar, WriteSoFar, EqualSoFar
<1>5. FileDone'
  BY <1>1 DEF FileDone, F!CopyIsWhole, F!ReadIsWhole, F!WriteIsWhole, F!EqualIsTrue
<1> QED
  BY <1>2, <1>3, <1>4, <1>5 DEF FileInv

(* A call that fails needs no more than its files closed. *)
LEMMA FileFails ==
  ASSUME FileInv, call.op # "none", NEW data, F!Return(FALSE, data), open' = {}, maps' = {},
         block' = 0, disk' \in [F!Names -> OnDisk]
  PROVE  FileInv'
<1>1. block' \in 0 .. MaxFile + 1 /\ ~ (block' > 0)
  BY FileConstants
<1> QED
  BY <1>1, FileReturns

(* A call goes on. *)
LEMMA FileGoesOn ==
  ASSUME FileTypes', FileCall', call'.op # "none", call'.op # "read" => block' = 0,
         maps' = {} \/ Mapped'
  PROVE  FileInv'
<1>1. FileHeld'
  BY DEF FileHeld
<1>2. FileDone'
  BY DEF FileDone, F!CopyIsWhole, F!ReadIsWhole, F!WriteIsWhole, F!EqualIsTrue
<1> QED
  BY <1>1, <1>2 DEF FileInv

(* How a call begins: not at all, or with nothing done yet. *)
LEMMA BeginFacts ==
  ASSUME FileInv, NEW op \in FileOps \ {"none"}, NEW these \in SUBSET F!Names,
         NEW data \in OnDisk, F!Begin(op, these, data)
  PROVE  /\ call.op = "none" /\ block = 0 /\ block' = 0 /\ maps' = {} /\ same' = same
         /\ \/ /\ call' = call /\ open' = open /\ ~result'.ok
            \/ /\ \A x \in these \ {"b"} : disk[x] # F!Missing
               /\ call' \in FileCalls /\ call'.op = op /\ call'.pc = "begin" /\ call'.data = data
               /\ call'.off = 0 /\ call'.len = 0 /\ open' = these
<1>1. call.op = "none" /\ block = 0 /\ block' = 0 /\ maps' = {} /\ same' = same
  BY DEF F!Begin, F!Idle, FileInv, FileHeld, Mapped
<1>2. CASE result' = [F!NoResult EXCEPT !.op = op] /\ UNCHANGED <<call, open>>
  <2>1. ~result'.ok
    BY <1>2 DEF F!NoResult
  <2> QED
    BY <1>1, <1>2, <2>1
<1>3. CASE /\ \A x \in these \ {"b"} : disk[x] # F!Missing
           /\ call' = [F!NoCall EXCEPT !.op = op, !.data = data]
           /\ open' = these
  <2>1. call' = [op |-> op, pc |-> "begin", off |-> 0, len |-> 0, data |-> data]
    BY <1>3 DEF F!NoCall
  <2>2. 0 \in 0 .. MaxFile
    BY FileConstants
  <2> QED
    <3>1. call' \in FileCalls
      BY <2>1, <2>2 DEF FileCalls, FilePcs
    <3>2. /\ call'.op = op /\ call'.pc = "begin" /\ call'.data = data
          /\ call'.off = 0 /\ call'.len = 0
      BY <2>1
    <3> QED
      BY <1>1, <1>3, <3>1, <3>2
<1> QED
  BY <1>2, <1>3 DEF F!Begin

(* A call that does not begin. *)
LEMMA FileRests ==
  ASSUME FileInv, call.op = "none", call' = call, open' = open, ~result'.ok, disk' = disk,
         block' = 0, maps' = {}
  PROVE  FileInv'
<1>1. FileTypes' /\ FileHeld'
  BY FileConstants DEF FileInv, FileTypes, FileHeld
<1>2. FileCall'
  BY DEF FileCall, CopySoFar, ReadSoFar, WriteSoFar, EqualSoFar
<1>3. FileDone'
  BY DEF FileDone, F!CopyIsWhole, F!ReadIsWhole, F!WriteIsWhole, F!EqualIsTrue
<1> QED
  BY <1>1, <1>2, <1>3 DEF FileInv

(* What a call has of the disk and of itself, and that it maps nothing.      *)
LEMMA FileTyped ==
  ASSUME FileInv
  PROVE  /\ disk \in [F!Names -> OnDisk] /\ call \in FileCalls /\ block \in 0 .. MaxFile + 1
         /\ call.off \in 0 .. MaxFile /\ call.off \in Nat
         /\ call.len \in 0 .. MaxFile /\ call.len \in Nat
         /\ ~ Mapped => maps = {}
         /\ call.op # "equal" => ~ Mapped
<1>1. disk \in [F!Names -> OnDisk] /\ call \in FileCalls /\ block \in 0 .. MaxFile + 1
  BY DEF FileInv, FileTypes
<1>2. call.off \in 0 .. MaxFile /\ call.len \in 0 .. MaxFile
  BY <1>1 DEF FileCalls
<1> QED
  BY <1>1, <1>2, FileConstants DEF FileInv, FileHeld, Mapped

(* What a write of a part of a chunk makes of the destination. *)
Appended(a, b, off, c, w) ==
  /\ off < Len(a) /\ c \in Seq(Units) /\ Len(c) \in 1 .. Len(a) - off
  /\ b \o SubSeq(c, 1, w) \in Seq(Units)
  /\ Len(b \o SubSeq(c, 1, w)) = off + w
  /\ b = SubSeq(a, 1, off) /\ w = Len(c) =>
       b \o SubSeq(c, 1, w) = SubSeq(a, 1, off + Len(c))

LEMMA AppendFacts ==
  ASSUME NEW a \in Seq(Units), NEW b \in Seq(Units), NEW off \in Nat, Len(b) = off,
         NEW c, c = ChunkOf(a, off), c # <<>>, NEW w \in 0 .. Len(c)
  PROVE  Appended(a, b, off, c, w)
<1>1. Len(a) \in Nat
  OBVIOUS
<1>2. /\ c \in Seq(Units)
      /\ off >= Len(a) => c = <<>>
      /\ off < Len(a) => Len(c) \in 1 .. Len(a) - off
                         /\ SubSeq(a, 1, off) \o c = SubSeq(a, 1, off + Len(c))
  BY ChunkFacts, Zenon DEF ChunkIs
<1>3. off < Len(a)
  <2>1. off < Len(a) \/ off >= Len(a)
    BY <1>1
  <2> QED
    BY <1>2, <2>1
<1>4. SubSeq(c, 1, w) \in Seq(Units) /\ Len(SubSeq(c, 1, w)) = w
  BY <1>2, PartFacts
<1>5. /\ b \o SubSeq(c, 1, w) \in Seq(Units)
      /\ Len(b \o SubSeq(c, 1, w)) = Len(b) + Len(SubSeq(c, 1, w))
  BY <1>4, ConcatProperties
<1>6. Len(b \o SubSeq(c, 1, w)) = off + w
  BY <1>4, <1>5, Zenon
<1>7. ASSUME b = SubSeq(a, 1, off), w = Len(c)
      PROVE  b \o SubSeq(c, 1, w) = SubSeq(a, 1, off + Len(c))
  <2>1. SubSeq(c, 1, w) = c
    BY <1>2, <1>7, SubSeqFull
  <2>2. SubSeq(a, 1, off) \o c = SubSeq(a, 1, off + Len(c))
    BY <1>2, <1>3, Zenon
  <2> QED
    BY <1>7, <2>1, <2>2, Zenon
<1> QED
  BY <1>2, <1>3, <1>5, <1>6, <1>7, Zenon DEF Appended

(* A chunk that is not empty goes on where the part before it ends. *)
NextOffset(a, off, c) ==
  /\ Len(c) \in 1 .. Len(a) - off /\ off < Len(a)
  /\ SubSeq(a, 1, off) \o c = SubSeq(a, 1, off + Len(c))

LEMMA NextChunk ==
  ASSUME NEW a \in Seq(Units), NEW off \in Nat, NEW c, c = ChunkOf(a, off), c # <<>>
  PROVE  NextOffset(a, off, c)
<1>1. /\ off >= Len(a) => c = <<>>
      /\ off < Len(a) => Len(c) \in 1 .. Len(a) - off
                         /\ SubSeq(a, 1, off) \o c = SubSeq(a, 1, off + Len(c))
  <2>1. ChunkIs(Units, a, off, c)
    BY ChunkFacts
  <2> QED
    BY <2>1, Zenon DEF ChunkIs
<1>2. off < Len(a) \/ off >= Len(a)
  OBVIOUS
<1> QED
  BY <1>1, <1>2, Zenon DEF NextOffset

(* util_copy_file_sync *)
LEMMA CopyFileStep ==
  ASSUME FileInv, F!CopyStart \/ F!CopyChunk \/ F!CopyEnd
  PROVE  FileInv'
<1>t. /\ disk \in [F!Names -> OnDisk] /\ call \in FileCalls /\ call.off \in 0 .. MaxFile
      /\ call.off \in Nat /\ (call.op # "equal" => maps = {})
  BY FileTyped
<1>1. CASE F!CopyStart
  <2>1. disk["a"] \in OnDisk /\ F!Truncates("copy")
    BY <1>1, <1>t, FilesAre DEF F!CopyStart
  <2>2. /\ call.op = "none" /\ block' = 0 /\ maps' = {} /\ same' = same
        /\ \/ /\ call' = call /\ open' = open /\ ~result'.ok
           \/ /\ \A x \in {"a", "b"} \ {"b"} : disk[x] # F!Missing
              /\ call' \in FileCalls /\ call'.op = "copy" /\ call'.data = disk["a"]
              /\ call'.off = 0 /\ open' = {"a", "b"}
    <3>1. "copy" \in FileOps \ {"none"} /\ {"a", "b"} \in SUBSET F!Names
      BY DEF FileOps, F!Names
    <3>2. F!Begin("copy", {"a", "b"}, disk["a"])
      BY <1>1 DEF F!CopyStart
    <3> QED
      BY <2>1, <3>1, <3>2, BeginFacts
  <2>3. CASE call' = call /\ open' = open /\ ~result'.ok
    <3>1. disk' = disk
      BY <2>1, <2>2, <2>3 DEF F!Truncates
    <3> QED
      BY <2>2, <2>3, <3>1, FileRests
  <2>4. CASE /\ \A x \in {"a", "b"} \ {"b"} : disk[x] # F!Missing
             /\ call' \in FileCalls /\ call'.op = "copy" /\ call'.data = disk["a"]
             /\ call'.off = 0 /\ open' = {"a", "b"}
    <3>1. disk' = [disk EXCEPT ![F!File("b")] = <<>>]
      BY <2>1, <2>4 DEF F!Truncates
    <3>2. disk["a"] \in F!Contents
      BY <2>1, <2>4 DEF OnDisk
    <3>3. /\ disk' \in [F!Names -> OnDisk]
          /\ disk'["a"] = disk["a"] \/ disk'["a"] = <<>>
          /\ ~same => disk'["a"] = disk["a"] /\ disk'["b"] = <<>>
      BY <1>t, <3>1, NoContents, FilesAre
    <3>4. disk'["a"] \in F!Contents
      BY <3>2, <3>3, NoContents
    <3>5. FileTypes'
      BY <2>2, <2>4, <3>3, FileConstants DEF FileTypes, F!Names
    <3>6. CopySoFar'
      <4>1. disk["a"] \in Seq(Units) /\ Len(disk["a"]) \in Nat
        BY <3>2, ContentsAre
      <4>2. SubSeq(disk["a"], 1, 0) = <<>> /\ Len(<<>>) = 0
        BY SubSeqEmpty
      <4>3. ~same' => disk'["b"] \in F!Contents /\ Len(disk'["b"]) = call'.off
        BY <2>2, <2>4, <3>3, <4>2, NoContents
      <4>4. 0 <= Len(disk["a"])
        BY <4>1
      <4>5. ~same' => /\ call'.data = disk'["a"] /\ call'.off <= Len(disk'["a"])
                      /\ disk'["b"] = SubSeq(disk'["a"], 1, call'.off)
        BY <2>2, <2>4, <3>3, <4>2, <4>4, Zenon
      <4> QED
        BY <4>3, <4>5, Zenon DEF CopySoFar
    <3>7. FileCall'
      BY <2>4, <3>4, <3>6 DEF FileCall, ReadSoFar, WriteSoFar, EqualSoFar
    <3> QED
      BY <2>2, <2>4, <3>5, <3>7, FileGoesOn
  <2> QED
    BY <2>2, <2>3, <2>4
<1>a. PICK a, b, off : a = disk["a"] /\ b = disk["b"] /\ off = call.off
  OBVIOUS
<1>2. ASSUME call.op = "copy"
      PROVE  /\ a \in F!Contents /\ a \in Seq(Units) /\ Len(a) <= MaxFile /\ Len(a) \in Nat
             /\ off \in 0 .. MaxFile /\ off \in Nat /\ block = 0 /\ maps = {} /\ MaxFile \in Nat
             /\ ~same => /\ b \in Seq(Units) /\ Len(b) = off
                         /\ ~changed => call.data = a /\ off <= Len(a) /\ b = SubSeq(a, 1, off)
  <2>1. a \in F!Contents /\ block = 0
    BY <1>a, <1>2 DEF FileInv, FileCall, FileHeld
  <2>2. ~same => /\ b \in F!Contents /\ Len(b) = off
                 /\ ~changed => call.data = a /\ off <= Len(a) /\ b = SubSeq(a, 1, off)
    BY <1>a, <1>2 DEF FileInv, FileCall, CopySoFar
  <2>3. a \in Seq(Units) /\ Len(a) <= MaxFile /\ Len(a) \in Nat
    BY <2>1, ContentsAre
  <2>4. ~same => b \in Seq(Units)
    BY <2>2, ContentsAre
  <2> QED
    BY <1>a, <1>t, <1>2, <2>1, <2>2, <2>3, <2>4, FileConstants
<1>3. CASE F!CopyChunk
  <2>1. PICK c : c = ChunkOf(a, off)
    OBVIOUS
  <2>2. c = F!ReadChunk("a") /\ call.op = "copy" /\ c # <<>>
    BY <1>a, <1>3, <2>1, FilesAre DEF F!CopyChunk, F!ReadChunk, ChunkOf
  <2>3. PICK w \in 0 .. Len(c) :
          /\ disk' = IF same THEN disk ELSE [disk EXCEPT !["b"] = b \o SubSeq(c, 1, w)]
          /\ IF F!WrittenOf(c, w)
             THEN /\ call' = [call EXCEPT !.off = off + Len(c)]
                  /\ UNCHANGED <<open, result>>
             ELSE F!Return(FALSE, <<>>) /\ open' = {}
    BY <1>a, <1>3, <2>2 DEF F!CopyChunk
  <2>4. UNCHANGED <<same, maps, block, changed>>
    BY <1>3 DEF F!CopyChunk
  <2>5. ~same => Appended(a, b, off, c, w)
    <3>1. ~same => b \in Seq(Units) /\ Len(b) = off
      BY <1>2, <2>2
    <3>2. w \in 0 .. Len(c) /\ a \in Seq(Units) /\ off \in Nat
      BY <1>2, <2>2
    <3>3. c = ChunkOf(a, off) /\ c # <<>>
      BY <2>1, <2>2
    <3> QED
      BY <3>1, <3>2, <3>3, AppendFacts
  <2>6. PICK n2 : n2 = b \o SubSeq(c, 1, w)
    OBVIOUS
  <2>7. PICK m : m = Len(c)
    OBVIOUS
  <2>8. off < Len(a) /\ m \in 1 .. Len(a) - off /\ w \in 0 .. m
    <3>1. NextOffset(a, off, c)
      <4>1. a \in Seq(Units) /\ off \in Nat /\ c = ChunkOf(a, off) /\ c # <<>>
        BY <1>2, <2>1, <2>2
      <4> QED
        BY <4>1, NextChunk
    <3> QED
      BY <2>3, <2>7, <3>1, Zenon DEF NextOffset
  <2>9. ~same => /\ n2 \in Seq(Units) /\ Len(n2) = off + w
                 /\ b = SubSeq(a, 1, off) /\ w = m => n2 = SubSeq(a, 1, off + m)
    BY <2>5, <2>6, <2>7, Zenon DEF Appended
  <2>10. ~same => n2 \in F!Contents
    <3>1. off + w <= MaxFile
      BY <1>2, <2>2, <2>8
    <3> QED
      BY <2>9, <3>1, ContentsAre
  <2>11. disk'["a"] = a /\ disk' \in [F!Names -> OnDisk] /\ (~same => disk'["b"] = n2)
    <3>1. CASE same
      BY <1>a, <1>t, <2>3, <3>1
    <3>2. CASE ~same
      <4>1. n2 \in OnDisk /\ disk' = [disk EXCEPT !["b"] = n2]
        BY <2>3, <2>6, <2>10, <3>2 DEF OnDisk
      <4> QED
        BY <1>a, <1>t, <4>1, FilesAre
    <3> QED
      BY <3>1, <3>2
  <2>12. CASE F!WrittenOf(c, w)
    <3>1. w = m /\ call' = [call EXCEPT !.off = off + m] /\ UNCHANGED <<open, result>>
      BY <2>3, <2>7, <2>12 DEF F!WrittenOf
    <3>2. off + m \in 0 .. MaxFile /\ off + m <= Len(a)
      BY <1>2, <2>2, <2>8
    <3>3. call' \in FileCalls /\ call'.op = "copy" /\ call'.off = off + m
          /\ call'.data = call.data
      BY <1>t, <2>2, <3>1, <3>2 DEF FileCalls
    <3>4. FileTypes'
      BY <2>4, <2>11, <3>1, <3>3 DEF FileInv, FileTypes
    <3>5. ~same /\ ~changed => n2 = SubSeq(a, 1, off + m) /\ call.data = a
      BY <1>2, <2>2, <2>9, <3>1, Zenon
    <3>6. CopySoFar'
      <4>1. ~same' => disk'["b"] \in F!Contents /\ Len(disk'["b"]) = call'.off
        BY <2>4, <2>9, <2>10, <2>11, <3>1, <3>3, Zenon
      <4>2. ~same' /\ ~changed' =>
              /\ call'.data = disk'["a"] /\ call'.off <= Len(disk'["a"])
              /\ disk'["b"] = SubSeq(disk'["a"], 1, call'.off)
        BY <2>4, <2>11, <3>2, <3>3, <3>5, Zenon
      <4> QED
        BY <4>1, <4>2, Zenon DEF CopySoFar
    <3>7. disk'["a"] \in F!Contents
      BY <1>2, <2>2, <2>11
    <3>8. FileCall'
      BY <3>3, <3>6, <3>7 DEF FileCall, ReadSoFar, WriteSoFar, EqualSoFar
    <3> QED
      BY <1>2, <2>2, <2>4, <3>3, <3>4, <3>8, FileGoesOn
  <2>13. CASE ~F!WrittenOf(c, w)
    <3>1. F!Return(FALSE, <<>>) /\ open' = {}
      BY <2>3, <2>13
    <3> QED
      BY <1>2, <2>2, <2>4, <2>11, <3>1, FileFails
  <2> QED
    BY <2>12, <2>13
<1>4. CASE F!CopyEnd
  <2>1. call.op = "copy" /\ open' = {} /\ UNCHANGED <<disk, same, maps, block, changed>>
    BY <1>4 DEF F!CopyEnd
  <2>2. CASE F!ReadChunk("a") = <<>> /\ F!Return(TRUE, F!Text("b"))
    <3>1. ChunkOf(a, off) = <<>> /\ a \in Seq(Units) /\ off \in Nat /\ Len(a) \in Nat
      <4>1. F!ReadChunk("a") = ChunkOf(a, off)
        BY <1>a, FilesAre DEF F!ReadChunk, ChunkOf
      <4> QED
        BY <1>2, <2>1, <2>2, <4>1, Zenon
    <3>2. off < Len(a) => ChunkOf(a, off) # <<>>
      BY <3>1, ChunkFacts, Zenon DEF ChunkIs
    <3>3. off >= Len(a)
      BY <3>1, <3>2
    <3>4. ~same /\ ~changed => b = call.data
      <4>1. SubSeq(a, 1, Len(a)) = a
        BY <3>1, SubSeqFull
      <4>2. ~same /\ ~changed => off = Len(a)
        BY <1>2, <2>1, <3>1, <3>3
      <4> QED
        BY <1>2, <2>1, <4>1, <4>2, Zenon
    <3>5. block' \in 0 .. MaxFile + 1 /\ ~ (block' > 0) /\ disk' \in [F!Names -> OnDisk]
          /\ maps' = {} /\ call.op # "none"
      BY <1>2, <1>t, <2>1
    <3>6. PICK d : d = F!Text("b")
      OBVIOUS
    <3>7. ~same' /\ ~changed' => d = call.data
      <4>1. ~same => d = b
        BY <1>a, <3>6, FilesAre
      <4> QED
        BY <2>1, <3>4, <4>1
    <3> QED
      BY <2>1, <2>2, <3>5, <3>6, <3>7, FileReturns
  <2>3. CASE F!Return(FALSE, <<>>)
    BY <1>2, <1>t, <2>1, <2>3, FileFails
  <2> QED
    BY <1>4, <2>2, <2>3 DEF F!CopyEnd
<1> QED
  BY <1>1, <1>3, <1>4

(* read_entire_file *)
LEMMA ReadFileStep ==
  ASSUME FileInv, F!ReadStart \/ F!ReadSize \/ F!ReadBytes \/ F!FreeBytes
  PROVE  FileInv'
<1>a. /\ disk \in [F!Names -> OnDisk] /\ call \in FileCalls /\ block \in 0 .. MaxFile + 1
      /\ (call.op # "equal" => maps = {})
  BY FileTyped
<1>1. CASE F!ReadStart
  <2>1. disk["a"] \in OnDisk /\ disk' = disk
    BY <1>1, <1>a, FilesAre DEF F!ReadStart
  <2>2. /\ call.op = "none" /\ block' = 0 /\ maps' = {}
        /\ \/ /\ call' = call /\ open' = open /\ ~result'.ok
           \/ /\ \A x \in {"a"} \ {"b"} : disk[x] # F!Missing
              /\ call' \in FileCalls /\ call'.op = "read" /\ call'.data = disk["a"]
              /\ call'.off = 0 /\ call'.len = 0 /\ open' = {"a"}
    <3>1. "read" \in FileOps \ {"none"} /\ {"a"} \in SUBSET F!Names
      BY DEF FileOps, F!Names
    <3>2. F!Begin("read", {"a"}, disk["a"])
      BY <1>1 DEF F!ReadStart
    <3> QED
      BY <2>1, <3>1, <3>2, BeginFacts
  <2>3. CASE call' = call /\ open' = open /\ ~result'.ok
    BY <2>1, <2>2, <2>3, FileRests
  <2>4. CASE /\ \A x \in {"a"} \ {"b"} : disk[x] # F!Missing
             /\ call' \in FileCalls /\ call'.op = "read" /\ call'.data = disk["a"]
             /\ call'.off = 0 /\ call'.len = 0 /\ open' = {"a"}
    <3>1. disk["a"] \in F!Contents /\ disk' = disk
      BY <2>1, <2>2, <2>4 DEF OnDisk
    <3>2. FileTypes'
      BY <1>a, <2>2, <2>4, <3>1, FileConstants DEF FileTypes, F!Names
    <3>3. FileCall'
      BY <2>2, <2>4, <3>1 DEF FileCall, CopySoFar, ReadSoFar, WriteSoFar, EqualSoFar
    <3> QED
      BY <2>2, <2>4, <3>2, <3>3, FileGoesOn
  <2> QED
    BY <2>2, <2>3, <2>4
<1>b. ASSUME call.op = "read"
      PROVE  /\ disk["a"] \in F!Contents /\ disk["a"] \in Seq(Units)
             /\ Len(disk["a"]) \in Nat /\ Len(disk["a"]) <= MaxFile
             /\ ~changed => call.data = disk["a"]
             /\ block > 0 => block = call.len + 1
             /\ block > 0 /\ ~changed => call.len = Len(disk["a"])
  <2>1. disk["a"] \in F!Contents
    BY <1>b DEF FileInv, FileCall
  <2>2. disk["a"] \in Seq(Units) /\ Len(disk["a"]) \in Nat /\ Len(disk["a"]) <= MaxFile
    BY <2>1, ContentsAre
  <2> QED
    BY <1>b, <2>1, <2>2 DEF FileInv, FileCall, ReadSoFar
<1>2. CASE F!ReadSize
  <2>1. call.op = "read" /\ block = 0 /\ UNCHANGED <<disk, maps, changed>> /\ maps = {}
    BY <1>2, <1>a DEF F!ReadSize
  <2>2. CASE /\ call' = [call EXCEPT !.len = Len(disk["a"])]
             /\ block' = Len(disk["a"]) + 1
             /\ UNCHANGED <<open, result>>
    <3>1. PICK m : m = Len(disk["a"])
      OBVIOUS
    <3>2. m \in 0 .. MaxFile
      BY <1>b, <2>1, <3>1
    <3>3. call' \in FileCalls /\ call'.op = "read" /\ call'.len = m /\ call'.data = call.data
      BY <1>a, <2>1, <2>2, <3>1, <3>2 DEF FileCalls
    <3>4. block' = m + 1 /\ block' \in 0 .. MaxFile + 1
      BY <2>2, <3>1, <3>2, FileConstants
    <3>5. FileTypes'
      BY <1>a, <2>1, <2>2, <3>3, <3>4 DEF FileInv, FileTypes
    <3>6. ReadSoFar'
      BY <1>b, <2>1, <3>1, <3>3, <3>4 DEF ReadSoFar
    <3>7. FileCall'
      BY <1>b, <2>1, <3>3, <3>6 DEF FileCall, CopySoFar, WriteSoFar, EqualSoFar
    <3> QED
      BY <2>1, <3>3, <3>5, <3>7, FileGoesOn
  <2>3. CASE F!Return(FALSE, <<>>) /\ open' = {} /\ UNCHANGED block
    BY <1>a, <2>1, <2>3, FileFails
  <2> QED
    BY <1>2, <2>2, <2>3 DEF F!ReadSize
<1>3. CASE F!ReadBytes
  <2>1. call.op = "read" /\ block > 0 /\ open' = {} /\ UNCHANGED <<disk, changed>> /\ maps' = {}
    BY <1>3, <1>a DEF F!ReadBytes
  <2>2. CASE /\ Len(disk["a"]) >= call.len
             /\ F!Return(TRUE, SubSeq(disk["a"], 1, call.len))
             /\ UNCHANGED block
    <3>1. PICK a, k, d : a = disk["a"] /\ k = call.len /\ d = SubSeq(a, 1, k)
      OBVIOUS
    <3>2. k \in 0 .. MaxFile
      BY <1>a, <3>1 DEF FileCalls
    <3>3. a \in Seq(Units) /\ k \in 0 .. Len(a) /\ block = k + 1
      BY <1>b, <2>1, <2>2, <3>1, <3>2
    <3>4. Len(SubSeq(a, 1, k)) = k /\ SubSeq(a, 1, Len(a)) = a
      BY <3>3, PartFacts, SubSeqFull
    <3>5. ~changed => d = call.data
      BY <1>b, <2>1, <3>1, <3>4, Zenon
    <3>6. Len(d) = k
      BY <3>1, <3>4, Zenon
    <3>7. F!Return(TRUE, d) /\ block' = block
      BY <2>2, <3>1, Zenon
    <3>8. /\ block' \in 0 .. MaxFile + 1 /\ disk' \in [F!Names -> OnDisk]
          /\ block' = Len(d) + 1
      BY <1>a, <2>1, <3>3, <3>6, <3>7
    <3> QED
      BY <2>1, <3>5, <3>7, <3>8, FileReturns
  <2>3. CASE F!Return(FALSE, <<>>) /\ block' = 0
    BY <1>a, <2>1, <2>3, FileFails
  <2> QED
    BY <1>3, <2>2, <2>3 DEF F!ReadBytes
<1>4. CASE F!FreeBytes
  <2>1. call.op = "none" /\ block' = 0 /\ UNCHANGED <<disk, same, call, open, maps, result, changed, closeFailed>>
    BY <1>4 DEF F!FreeBytes
  <2>2. FileTypes' /\ FileHeld'
    BY <2>1, FileConstants DEF FileInv, FileTypes, FileHeld, Mapped
  <2>3. FileCall'
    BY <2>1 DEF FileCall, CopySoFar, ReadSoFar, WriteSoFar, EqualSoFar
  <2>4. FileDone'
    BY <2>1 DEF FileInv, FileDone, F!CopyIsWhole, F!ReadIsWhole, F!WriteIsWhole, F!EqualIsTrue,
                F!Text, F!File
  <2> QED
    BY <2>2, <2>3, <2>4 DEF FileInv
<1> QED
  BY <1>1, <1>2, <1>3, <1>4

(* write_entire_file *)
LEMMA WriteFileStep ==
  ASSUME FileInv, (\E text \in F!Contents : F!WriteStart(text)) \/ F!WriteText \/ F!WriteClose
  PROVE  FileInv'
<1>a. /\ disk \in [F!Names -> OnDisk] /\ call \in FileCalls /\ block \in 0 .. MaxFile + 1
      /\ call.off \in Nat /\ call.len \in Nat /\ (call.op # "equal" => maps = {})
  BY FileTyped
<1>1. ASSUME NEW text \in F!Contents, F!WriteStart(text)
      PROVE  FileInv'
  <2>1. text \in OnDisk /\ F!Truncates("write")
    BY <1>1 DEF F!WriteStart, OnDisk
  <2>2. /\ call.op = "none" /\ block' = 0 /\ maps' = {}
        /\ \/ /\ call' = call /\ open' = open /\ ~result'.ok
           \/ /\ call' \in FileCalls /\ call'.op = "write" /\ call'.pc = "begin"
              /\ call'.data = text /\ open' = {"b"}
    <3>1. "write" \in FileOps \ {"none"} /\ {"b"} \in SUBSET F!Names
      BY DEF FileOps, F!Names
    <3>2. F!Begin("write", {"b"}, text)
      BY <1>1 DEF F!WriteStart
    <3> QED
      BY <2>1, <3>1, <3>2, BeginFacts
  <2>3. CASE call' = call /\ open' = open /\ ~result'.ok
    <3>1. disk' = disk
      BY <2>1, <2>2, <2>3 DEF F!Truncates
    <3> QED
      BY <2>2, <2>3, <3>1, FileRests
  <2>4. CASE /\ call' \in FileCalls /\ call'.op = "write" /\ call'.pc = "begin"
             /\ call'.data = text /\ open' = {"b"}
    <3>1. disk' \in [F!Names -> OnDisk]
      BY <1>a, <2>1, <2>4, NoContents DEF F!Truncates
    <3>2. FileTypes'
      BY <2>2, <2>4, <3>1, FileConstants DEF FileTypes, F!Names
    <3>3. FileCall'
      BY <1>1, <2>4 DEF FileCall, CopySoFar, ReadSoFar, WriteSoFar, EqualSoFar
    <3> QED
      BY <2>2, <2>4, <3>2, <3>3, FileGoesOn
  <2> QED
    BY <2>2, <2>3, <2>4
<1>d. PICK d, m : d = call.data /\ m = Len(d)
  OBVIOUS
<1>b. ASSUME call.op = "write"
      PROVE  /\ d \in F!Contents /\ d \in Seq(Units) /\ m \in Nat /\ m <= MaxFile
             /\ block = 0 /\ maps = {}
             /\ call.pc = "close" => call.off <= call.len /\ call.len <= m
  <2>1. d \in F!Contents /\ block = 0
    BY <1>b, <1>d DEF FileInv, FileCall, WriteSoFar, FileHeld
  <2>2. d \in Seq(Units) /\ Len(d) <= MaxFile /\ Len(d) \in Nat
    BY <2>1, ContentsAre
  <2>3. call.pc = "close" => call.off <= call.len /\ call.len <= m
    BY <1>b, <1>d DEF FileInv, FileCall, WriteSoFar
  <2> QED
    BY <1>a, <1>b, <1>d, <2>1, <2>2, <2>3
<1>c. ASSUME call.op = "write", NEW k \in 0 .. m,
             disk' = [disk EXCEPT ![F!File("b")] = SubSeq(d, 1, k)]
      PROVE  /\ disk' \in [F!Names -> OnDisk] /\ disk'[F!File("b")] = SubSeq(d, 1, k)
             /\ k = m => SubSeq(d, 1, k) = d
  <2>1. PICK p : p = SubSeq(d, 1, k)
    OBVIOUS
  <2>2. p \in Seq(Units) /\ Len(p) = k /\ (k = m => p = d)
    <3>1. k \in 0 .. Len(d) /\ d \in Seq(Units)
      BY <1>b, <1>c, <1>d, Zenon
    <3>2. SubSeq(d, 1, k) \in Seq(Units) /\ Len(SubSeq(d, 1, k)) = k /\ SubSeq(d, 1, Len(d)) = d
      BY <3>1, PartFacts, SubSeqFull
    <3> QED
      BY <1>d, <2>1, <3>2, Zenon
  <2>3. p \in OnDisk
    <3>1. Len(p) <= MaxFile
      <4>1. k \in 0 .. m /\ MaxFile \in Nat /\ m \in Nat /\ m <= MaxFile
        BY <1>b, <1>c, FileConstants
      <4> QED
        BY <2>2, <4>1
    <3> QED
      BY <2>2, <3>1, ContentsAre DEF OnDisk
  <2>4. disk' = [disk EXCEPT ![F!File("b")] = p] /\ F!File("b") \in F!Names
    BY <1>c, <2>1, FilesAre
  <2>5. disk' \in [F!Names -> OnDisk] /\ disk'[F!File("b")] = p
    BY <1>a, <2>3, <2>4
  <2> QED
    BY <2>1, <2>2, <2>5, Zenon
<1>2. CASE F!WriteText
  <2>1. /\ call.op = "write" /\ UNCHANGED <<open, maps, block>>
    BY <1>2 DEF F!WriteText
  <2>2. PICK w \in 0 .. m : \E k \in 0 .. w :
          /\ disk' = [disk EXCEPT ![F!File("b")] = SubSeq(d, 1, k)]
          /\ call' = [call EXCEPT !.pc = "close", !.off = k, !.len = w]
    BY <1>2, <1>d DEF F!WriteText
  <2>3. PICK k \in 0 .. w :
          /\ disk' = [disk EXCEPT ![F!File("b")] = SubSeq(d, 1, k)]
          /\ call' = [call EXCEPT !.pc = "close", !.off = k, !.len = w]
    BY <2>2
  <2>4. /\ k \in 0 .. m /\ k \in 0 .. MaxFile /\ w \in 0 .. MaxFile /\ k <= w /\ w <= m
    BY <1>b, <2>1, FileConstants
  <2>5. disk' \in [F!Names -> OnDisk]
    BY <1>c, <2>1, <2>3, <2>4
  <2>6. /\ call' \in FileCalls /\ call'.op = "write" /\ call'.off = k /\ call'.len = w
        /\ call'.data = d
    BY <1>a, <1>d, <2>1, <2>3, <2>4 DEF FileCalls, FilePcs
  <2>7. FileTypes'
    BY <2>1, <2>5, <2>6 DEF FileInv, FileTypes
  <2>8. WriteSoFar'
    <3>1. d \in F!Contents /\ k <= w /\ w <= Len(d)
      BY <1>b, <1>d, <2>1, <2>4
    <3> QED
      BY <2>6, <3>1 DEF WriteSoFar
  <2>9. FileCall'
    BY <2>6, <2>8 DEF FileCall, CopySoFar, ReadSoFar, EqualSoFar
  <2> QED
    BY <1>b, <2>1, <2>6, <2>7, <2>9, FileGoesOn
<1>3. CASE F!WriteClose
  <2>1. /\ call.op = "write" /\ call.pc = "close" /\ open' = {} /\ UNCHANGED <<same, maps, block>>
        /\ F!Return(F!WroteAll(call.len, d), <<>>)
    BY <1>3, <1>d DEF F!WriteClose
  <2>2. PICK k \in call.off .. call.len :
          /\ disk' = [disk EXCEPT ![F!File("b")] = SubSeq(d, 1, k)]
          /\ ~closeFailed' => k = call.len
    BY <1>3, <1>d DEF F!WriteClose
  <2>3. k \in 0 .. m
    <3>1. call.off \in Nat /\ call.len \in Nat /\ call.len <= m /\ m \in Nat
      BY <1>a, <1>b, <2>1
    <3> QED
      BY <2>2, <3>1
  <2>4. /\ disk' \in [F!Names -> OnDisk] /\ disk'[F!File("b")] = SubSeq(d, 1, k)
        /\ k = m => SubSeq(d, 1, k) = d
    BY <1>c, <2>1, <2>2, <2>3
  <2>5. F!Text("b")' = SubSeq(d, 1, k)
    BY <2>1, <2>4, FilesAre
  <2>6. block' \in 0 .. MaxFile + 1 /\ ~ (block' > 0) /\ maps' = {}
    BY <1>b, <2>1, FileConstants
  <2>7. F!WroteAll(call.len, d) /\ ~closeFailed' => F!Text("b")' = call.data
    <3>1. F!WroteAll(call.len, d) => call.len = m
      BY <1>d DEF F!WroteAll
    <3> QED
      BY <1>d, <2>2, <2>4, <2>5, <3>1, Zenon
  <2> QED
    BY <2>1, <2>4, <2>6, <2>7, FileReturns
<1> QED
  BY <1>1, <1>2, <1>3

(* util_equal_files *)
LEMMA EqualFilesStep ==
  ASSUME FileInv,
         F!EqualStart \/ F!EqualStat \/ F!EqualMapA \/ F!EqualMapB \/ F!EqualCompare \/ F!EqualChunk
  PROVE  FileInv'
<1>a. /\ disk \in [F!Names -> OnDisk] /\ call \in FileCalls /\ block \in 0 .. MaxFile + 1
      /\ call.off \in 0 .. MaxFile /\ call.off \in Nat /\ call.len \in Nat
      /\ ~ Mapped => maps = {}
  BY FileTyped
<1>d. PICK a, b, off : a = disk["a"] /\ b = F!Text("b") /\ off = call.off
  OBVIOUS
<1>e. F!Text("a") = a /\ b \in OnDisk
  BY <1>a, <1>d, FilesAre
<1>f. ASSUME disk' = disk, same' = same
      PROVE  disk'["a"] = a /\ F!Text("a")' = a /\ F!Text("b")' = b
  BY <1>d, <1>f, FilesAre
<1>1. CASE F!EqualStart
  <2>1. disk' = disk
    BY <1>1 DEF F!EqualStart
  <2>2. /\ call.op = "none" /\ block' = 0 /\ maps' = {} /\ same' = same
        /\ \/ /\ call' = call /\ open' = open /\ ~result'.ok
           \/ /\ \A x \in {"a", "b"} \ {"b"} : disk[x] # F!Missing
              /\ call' \in FileCalls /\ call'.op = "equal" /\ call'.pc = "begin"
              /\ call'.off = 0 /\ open' = {"a", "b"}
    <3>1. "equal" \in FileOps \ {"none"} /\ {"a", "b"} \in SUBSET F!Names
      BY DEF FileOps, F!Names
    <3>2. F!Begin("equal", {"a", "b"}, <<>>)
      BY <1>1 DEF F!EqualStart
    <3> QED
      BY <3>1, <3>2, BeginFacts, NoContents
  <2>3. CASE call' = call /\ open' = open /\ ~result'.ok
    BY <2>1, <2>2, <2>3, FileRests
  <2>4. CASE /\ \A x \in {"a", "b"} \ {"b"} : disk[x] # F!Missing
             /\ call' \in FileCalls /\ call'.op = "equal" /\ call'.pc = "begin"
             /\ call'.off = 0 /\ open' = {"a", "b"}
    <3>1. b # F!Missing
      BY <1>1, <1>d, <2>4 DEF F!EqualStart
    <3>2. a \in F!Contents /\ b \in F!Contents
      <4>1. a \in OnDisk /\ a # F!Missing
        BY <1>a, <1>d, <2>4, FilesAre
      <4> QED
        BY <1>e, <3>1, <4>1 DEF OnDisk
    <3>3. a \in Seq(Units) /\ b \in Seq(Units) /\ Len(a) \in Nat /\ Len(b) \in Nat
      BY <3>2, ContentsAre
    <3>4. SubSeq(a, 1, 0) = <<>> /\ SubSeq(b, 1, 0) = <<>>
      BY <3>3, SubSeqEmpty
    <3>5. FileTypes'
      BY <1>a, <2>1, <2>2, <2>4, FileConstants DEF FileTypes, F!Names
    <3>6. disk'["a"] = a /\ F!Text("b")' = b
      BY <1>f, <2>1, <2>2
    <3>7. EqualSoFar'
      <4>1. call'.off <= Len(a) /\ call'.off <= Len(b)
        BY <2>4, <3>3
      <4>2. SubSeq(a, 1, call'.off) = SubSeq(b, 1, call'.off)
        BY <2>4, <3>4, Zenon
      <4> QED
        BY <2>4, <3>6, <4>1, <4>2, Zenon DEF EqualSoFar
    <3>8. FileCall'
      BY <2>4, <3>2, <3>6, <3>7 DEF FileCall, CopySoFar, ReadSoFar, WriteSoFar
    <3> QED
      BY <2>2, <2>4, <3>5, <3>8, FileGoesOn
  <2> QED
    BY <2>2, <2>3, <2>4
<1>b. ASSUME call.op = "equal"
      PROVE  /\ a \in F!Contents /\ b \in F!Contents /\ a \in Seq(Units) /\ b \in Seq(Units)
             /\ Len(a) \in Nat /\ Len(a) <= MaxFile /\ Len(b) \in Nat
             /\ off \in Nat /\ off \in 0 .. MaxFile /\ call.len \in Nat /\ block = 0
             /\ ~changed => /\ off <= Len(a) /\ off <= Len(b)
                            /\ SubSeq(a, 1, off) = SubSeq(b, 1, off)
                            /\ call.pc # "begin" => call.len = Len(a) /\ call.len = Len(b)
  <2>1. a \in F!Contents /\ b \in F!Contents /\ block = 0
    BY <1>b, <1>d DEF FileInv, FileCall, FileHeld
  <2>2. /\ a \in Seq(Units) /\ Len(a) \in Nat /\ Len(a) <= MaxFile
        /\ b \in Seq(Units) /\ Len(b) \in Nat
    BY <2>1, ContentsAre
  <2>3. ~changed => /\ off <= Len(a) /\ off <= Len(b)
                    /\ SubSeq(a, 1, off) = SubSeq(b, 1, off)
                    /\ call.pc # "begin" => call.len = Len(a) /\ call.len = Len(b)
    BY <1>b, <1>d DEF FileInv, FileCall, EqualSoFar
  <2> QED
    BY <1>a, <1>d, <2>1, <2>2, <2>3
<1>c. ASSUME call.op = "equal", UNCHANGED <<disk, same, block, changed>>, maps' = {}, NEW ok,
             F!EqualReturns(ok), ok /\ ~changed => a = b
      PROVE  FileInv'
  <2>1. block' \in 0 .. MaxFile + 1 /\ ~ (block' > 0) /\ disk' \in [F!Names -> OnDisk]
    BY <1>a, <1>b, <1>c, FileConstants
  <2>2. F!Text("a")' = a /\ F!Text("b")' = b
    BY <1>c, <1>f
  <2>3. F!Return(ok, <<>>) /\ open' = {}
    BY <1>c DEF F!EqualReturns
  <2>4. call.op # "none" /\ call.op # "copy" /\ call.op # "read" /\ call.op # "write"
    BY <1>c
  <2>5. ok /\ ~changed' => F!Text("a")' = F!Text("b")'
    BY <1>c, <2>2
  <2> QED
    BY <1>c, <2>1, <2>3, <2>4, <2>5, FileReturns
(* The call goes on to another step with the same offset. *)
<1>g. ASSUME call.op = "equal", UNCHANGED <<disk, same, open, block, changed>>,
             NEW pc2 \in FilePcs, NEW m \in 0 .. MaxFile,
             call' = [call EXCEPT !.pc = pc2, !.len = m],
             ~changed => m = Len(a) /\ m = Len(b),
             maps' \subseteq F!Names, maps' = {} \/ pc2 \in {"mapB", "compare"}
      PROVE  FileInv'
  <2>1. call' \in FileCalls /\ call'.op = "equal" /\ call'.pc = pc2 /\ call'.off = off /\ call'.len = m
    BY <1>a, <1>d, <1>g DEF FileCalls
  <2>2. FileTypes'
    BY <1>a, <1>g, <2>1 DEF FileInv, FileTypes
  <2>3. disk'["a"] = a /\ F!Text("b")' = b
    BY <1>f, <1>g
  <2>4. ~changed' => /\ off <= Len(a) /\ off <= Len(b) /\ SubSeq(a, 1, off) = SubSeq(b, 1, off)
                     /\ m = Len(a) /\ m = Len(b)
    BY <1>b, <1>g
  <2>5. EqualSoFar'
    BY <2>1, <2>3, <2>4, Zenon DEF EqualSoFar
  <2>6. FileCall'
    BY <1>b, <1>g, <2>1, <2>3, <2>5 DEF FileCall, CopySoFar, ReadSoFar, WriteSoFar
  <2>7. maps' = {} \/ Mapped'
    BY <1>g, <2>1 DEF Mapped
  <2> QED
    BY <1>b, <1>g, <2>1, <2>2, <2>6, <2>7, FileGoesOn
<1>2. CASE F!EqualStat
  <2>1. call.op = "equal" /\ call.pc = "begin" /\ UNCHANGED <<disk, same, maps, block, changed>>
    BY <1>2 DEF F!EqualStat
  <2>2. maps = {} /\ maps' = {}
    BY <1>a, <2>1 DEF Mapped
  <2>3. CASE F!EqualReturns(FALSE)
    BY <1>c, <2>1, <2>2, <2>3
  <2>4. CASE Len(a) = Len(b) /\ (same \/ a = <<>>) /\ F!EqualReturns(TRUE)
    <3>1. a = b
      <4>1. CASE same
        BY <1>d, <4>1, FilesAre
      <4>2. CASE a = <<>>
        <5>1. Len(b) = 0 /\ b \in Seq(Units)
          BY <1>b, <2>1, <2>4, <4>2, EmptySeq
        <5>2. b = <<>>
          BY <5>1, EmptySeq
        <5> QED
          BY <4>2, <5>2
      <4> QED
        BY <2>4, <4>1, <4>2
    <3> QED
      BY <1>c, <2>1, <2>2, <2>4, <3>1
  <2>5. CASE /\ Len(a) = Len(b) /\ call' = [call EXCEPT !.pc = "mapA", !.len = Len(a)]
             /\ UNCHANGED <<open, result>>
    <3>1. PICK m : m = Len(a)
      OBVIOUS
    <3>2. m \in 0 .. MaxFile /\ "mapA" \in FilePcs
      BY <1>b, <2>1, <3>1 DEF FilePcs
    <3>3. call' = [call EXCEPT !.pc = "mapA", !.len = m] /\ m = Len(b)
      BY <2>5, <3>1
    <3>4. maps' \subseteq F!Names
      BY <2>2
    <3> QED
      BY <1>g, <2>1, <2>2, <2>5, <3>1, <3>2, <3>3, <3>4
  <2> QED
    BY <1>2, <1>d, <1>e, <2>3, <2>4, <2>5 DEF F!EqualStat
<1>3. CASE F!EqualMapA \/ F!EqualMapB
  <2>1. /\ call.op = "equal" /\ call.pc \in {"mapA", "mapB"}
        /\ UNCHANGED <<disk, same, open, block, changed>>
    BY <1>3 DEF F!EqualMapA, F!EqualMapB
  <2>2. PICK pc2 : /\ call' = [call EXCEPT !.pc = pc2] /\ pc2 \in {"mapB", "compare", "read"}
                   /\ maps' \subseteq F!Names /\ (maps' = {} \/ pc2 \in {"mapB", "compare"})
    <3>1. CASE F!EqualMapA
      <4>1. maps = {}
        BY <1>a, <3>1 DEF F!EqualMapA, Mapped
      <4> QED
        BY <3>1, <4>1 DEF F!EqualMapA, F!Names
    <3>2. CASE F!EqualMapB
      BY <3>2 DEF F!EqualMapB, F!Names
    <3> QED
      BY <1>3, <3>1, <3>2
  <2>3. PICK m : m = call.len
    OBVIOUS
  <2>4. m \in 0 .. MaxFile /\ pc2 \in FilePcs
    BY <1>a, <2>2, <2>3 DEF FileCalls, FilePcs
  <2>5. call' = [call EXCEPT !.pc = pc2, !.len = m]
    BY <1>a, <2>2, <2>3 DEF FileCalls
  <2>6. ~changed => m = Len(a) /\ m = Len(b)
    BY <1>b, <2>1, <2>3
  <2> QED
    BY <1>g, <2>1, <2>2, <2>4, <2>5, <2>6
<1>4. CASE F!EqualCompare
  <2>1. call.op = "equal" /\ maps' = {} /\ UNCHANGED <<disk, same, block, changed>>
    BY <1>4 DEF F!EqualCompare
  <2>2. CASE \E equal \in BOOLEAN :
               (~changed => equal = (F!Text("a") = F!Text("b"))) /\ F!EqualReturns(equal)
    <3>1. PICK equal \in BOOLEAN : /\ ~changed => equal = (F!Text("a") = F!Text("b"))
                                   /\ F!EqualReturns(equal)
      BY <2>2
    <3>2. equal /\ ~changed => a = b
      BY <1>d, <1>e, <3>1
    <3> QED
      BY <1>c, <2>1, <3>1, <3>2
  <2>3. CASE call' = [call EXCEPT !.op = "dead"] /\ open' = {} /\ UNCHANGED result
    <3>1. call' \in FileCalls /\ call'.op = "dead"
      BY <1>a, <2>3 DEF FileCalls, FileOps
    <3>2. FileTypes'
      BY <1>a, <2>1, <2>3, <3>1 DEF FileTypes
    <3>3. FileCall'
      BY <3>1 DEF FileCall, CopySoFar, ReadSoFar, WriteSoFar, EqualSoFar
    <3> QED
      BY <1>b, <2>1, <3>1, <3>2, <3>3, FileGoesOn
  <2> QED
    BY <1>4, <2>2, <2>3 DEF F!EqualCompare
<1>5. CASE F!EqualChunk
  <2>0. PICK ca, cb : ca = ChunkOf(a, off) /\ cb = ChunkOf(b, off)
    OBVIOUS
  <2>1. ca = F!ReadChunk("a") /\ cb = F!ReadChunk("b")
    BY <1>d, <1>e, <2>0 DEF F!ReadChunk, ChunkOf
  <2>2. /\ call.op = "equal" /\ call.pc = "read" /\ UNCHANGED <<disk, same, maps, block, changed>>
        /\ \/ /\ ca # <<>> /\ ca = cb
              /\ call' = [call EXCEPT !.off = off + Len(ca)]
              /\ UNCHANGED <<open, result>>
           \/ F!EqualReturns(FALSE)
           \/ F!EqualReturns(off = call.len)
    BY <1>5, <1>d, <2>1 DEF F!EqualChunk, F!SameChunk
  <2>3. maps' = {}
    BY <1>a, <2>2 DEF Mapped
  <2>4. CASE F!EqualReturns(FALSE)
    BY <1>c, <2>2, <2>3, <2>4
  <2>5. CASE F!EqualReturns(off = call.len)
    <3>1. off = call.len /\ ~changed => a = b
      <4>1. ~changed => /\ call.len = Len(a) /\ call.len = Len(b)
                        /\ SubSeq(a, 1, off) = SubSeq(b, 1, off)
        BY <1>b, <2>2
      <4>2. SubSeq(a, 1, Len(a)) = a /\ SubSeq(b, 1, Len(b)) = b
        BY <1>b, <2>2, SubSeqFull
      <4> QED
        BY <4>1, <4>2, Zenon
    <3> QED
      BY <1>c, <2>2, <2>3, <2>5, <3>1
  <2>6. CASE /\ ca # <<>> /\ ca = cb /\ call' = [call EXCEPT !.off = off + Len(ca)]
             /\ UNCHANGED <<open, result>>
    <3>1. NextOffset(a, off, ca) /\ NextOffset(b, off, ca)
      <4>1. a \in Seq(Units) /\ b \in Seq(Units) /\ off \in Nat
        BY <1>b, <2>2
      <4>2. ca = ChunkOf(a, off) /\ ca = ChunkOf(b, off) /\ ca # <<>>
        BY <2>0, <2>6
      <4> QED
        BY <4>1, <4>2, NextChunk
    <3>2. PICK m, off2 : m = Len(ca) /\ off2 = off + m
      OBVIOUS
    <3>3. /\ m \in 1 .. Len(a) - off /\ m \in 1 .. Len(b) - off /\ off < Len(a) /\ off < Len(b)
          /\ SubSeq(a, 1, off) \o ca = SubSeq(a, 1, off2)
          /\ SubSeq(b, 1, off) \o ca = SubSeq(b, 1, off2)
      BY <3>1, <3>2, Zenon DEF NextOffset
    <3>4. off2 \in 0 .. MaxFile /\ off2 <= Len(a) /\ off2 <= Len(b)
      <4>1. Len(b) \in Nat /\ Len(a) \in Nat /\ Len(a) <= MaxFile /\ off \in Nat
        BY <1>b, <2>2
      <4> QED
        BY <3>2, <3>3, <4>1, FileConstants
    <3>5. /\ call' \in FileCalls /\ call'.op = "equal" /\ call'.pc = "read"
          /\ call'.off = off2 /\ call'.len = call.len
      <4>1. call' = [call EXCEPT !.off = off2]
        BY <2>6, <3>2
      <4> QED
        BY <1>a, <2>2, <3>4, <4>1 DEF FileCalls
    <3>6. FileTypes'
      BY <1>a, <2>2, <2>3, <2>6, <3>5 DEF FileInv, FileTypes
    <3>7. disk'["a"] = a /\ F!Text("b")' = b
      BY <1>f, <2>2
    <3>8. ~changed' => /\ SubSeq(a, 1, off2) = SubSeq(b, 1, off2)
                       /\ call.len = Len(a) /\ call.len = Len(b)
      BY <1>b, <2>2, <2>6, <3>3, Zenon
    <3>9. EqualSoFar'
      BY <3>4, <3>5, <3>7, <3>8, Zenon DEF EqualSoFar
    <3>10. FileCall'
      BY <1>b, <2>2, <3>5, <3>7, <3>9 DEF FileCall, CopySoFar, ReadSoFar, WriteSoFar
    <3> QED
      BY <1>b, <2>2, <2>3, <3>5, <3>6, <3>10, FileGoesOn
  <2> QED
    BY <2>2, <2>4, <2>5, <2>6
<1> QED
  BY <1>1, <1>2, <1>3, <1>4, <1>5

(* Nothing happens to the files. *)
LEMMA FilesStay ==
  ASSUME FileInv,
         UNCHANGED <<disk, same, call, open, maps, block, result, changed, closeFailed>>
  PROVE  FileInv'
<1>0. F!Text("a")' = F!Text("a") /\ F!Text("b")' = F!Text("b")
  BY DEF F!Text, F!File
<1>1. FileTypes' /\ FileHeld'
  BY DEF FileInv, FileTypes, FileHeld, Mapped
<1>2. CopySoFar' /\ ReadSoFar' /\ WriteSoFar' /\ EqualSoFar'
  BY <1>0 DEF FileInv, FileCall, CopySoFar, ReadSoFar, WriteSoFar, EqualSoFar
<1>3. FileCall'
  BY <1>0, <1>2 DEF FileInv, FileCall
<1>4. FileDone'
  BY <1>0 DEF FileInv, FileDone, F!CopyIsWhole, F!ReadIsWhole, F!WriteIsWhole, F!EqualIsTrue
<1> QED
  BY <1>1, <1>3, <1>4 DEF FileInv

(* Every step of the whole-file operations. *)
LEMMA FileStep ==
  FileInv /\ F!Next => FileInv'
<1> SUFFICES ASSUME FileInv, F!Next PROVE FileInv'
  OBVIOUS
<1>1. CASE F!Other
  <2>1. PICK c \in F!Contents : disk' = [disk EXCEPT !["a"] = c]
    BY <1>1 DEF F!Other
  <2>2. /\ call.op # "none" /\ changed' = TRUE
        /\ UNCHANGED <<same, call, open, maps, block, result, closeFailed>>
    BY <1>1 DEF F!Other
  <2>3. /\ disk'["a"] = c /\ disk'["b"] = disk["b"] /\ disk' \in [F!Names -> OnDisk]
    BY <2>1, FilesAre DEF FileInv, FileTypes, OnDisk
  <2>4. FileTypes' /\ FileHeld'
    BY <2>2, <2>3 DEF FileInv, FileTypes, FileHeld, Mapped
  <2>5. CopySoFar' /\ ReadSoFar' /\ WriteSoFar' /\ EqualSoFar'
    BY <2>2, <2>3 DEF FileInv, FileCall, CopySoFar, ReadSoFar, WriteSoFar, EqualSoFar
  <2>6. F!Text("b")' = c \/ F!Text("b")' = F!Text("b")
    BY <2>2, <2>3 DEF F!Text, F!File
  <2>7. FileCall'
    BY <2>2, <2>3, <2>5, <2>6 DEF FileInv, FileCall
  <2>8. FileDone'
    BY <2>2 DEF FileDone, F!CopyIsWhole, F!ReadIsWhole, F!WriteIsWhole, F!EqualIsTrue
  <2> QED
    BY <2>4, <2>7, <2>8 DEF FileInv
<1>2. CASE F!Over
  <2>1. UNCHANGED <<disk, same, call, open, maps, block, result, changed, closeFailed>>
    BY <1>2 DEF F!Over, F!vars
  <2> QED
    BY <2>1, FilesStay
<1> QED
  BY <1>1, <1>2, CopyFileStep, ReadFileStep, WriteFileStep, EqualFilesStep DEF F!Next
-----------------------------------------------------------------------------
(* Copies by a thread.                                                      *)

Both == {"source", "dest"}
Opened == {f \in Files : fds[f] # {}}
Sources == [total : Nat, read : Nat, ready : Nat, writer : BOOLEAN]

PairTypes ==
  /\ source \in [Files -> Sources] /\ dest \in [Files -> Nat]
  /\ fds \in [Files -> {{}, Both}]

RoundTypes ==
  /\ copyPc \in {"open", "poll", "loop", "copy", "done"}
  /\ nfds \in 0 .. Cardinality(Files) /\ index \in 0 .. nfds /\ events \in 0 .. nfds
  /\ failed \subseteq Files

(* The pairs that the caller opened are open until the thread ends them, and *)
(* left counts them.                                                         *)
OpenedOnce ==
  /\ Opened \subseteq 1 .. nfds
  /\ copyPc = "open" => Opened = 1 .. nfds
  /\ copyPc # "open" => left = Cardinality(Opened)
  /\ copyPc = "done" => broken \/ left = 0

(* A round: what poll reported and the thread has not looked at is open, and *)
(* the events it counts are as many at least.                                *)
Round ==
  /\ revents \subseteq Opened
  /\ copyPc \in {"loop", "copy"} => index \in 1 .. nfds
  /\ copyPc = "loop" => Cardinality(revents) <= events
  /\ copyPc = "copy" => index \in revents /\ Cardinality(revents) <= events + 1

(* What was read of a source is in the destination.                          *)
PairIs(s, d) ==
  /\ s.read = d /\ s.read <= s.ready /\ s.ready <= s.total
  /\ s.writer = FALSE => s.ready = s.total

Pairs == \A f \in Files : PairIs(source[f], dest[f])

(* Nothing was copied yet of a pair that is open or not opened yet, but of   *)
(* the one that the thread is at.                                            *)
Unbegun ==
  \A f \in Files :
    (f > nfds \/ fds[f] # {}) /\ ~ (copyPc = "copy" /\ f = index) => dest[f] = 0

CopyInv ==
  /\ PairTypes /\ RoundTypes /\ OpenedOnce /\ Round /\ Pairs /\ Unbegun
  /\ C!CopiesAreComplete

(* The pairs are finitely many and numbered from one. *)
LEMMA CopyConstants ==
  /\ IsFiniteSet(Files) /\ Cardinality(Files) \in Nat /\ Files = 1 .. Cardinality(Files)
  /\ Fifos \subseteq Files /\ Sizes \subseteq Nat \ {0} /\ Chunk \in Nat \ {0}
<1>1. \A A : C!Cardinality(A) = Cardinality(A)
  BY DEF C!Cardinality, Cardinality
<1>2. IsFiniteSet(Files) /\ Files = 1 .. Cardinality(Files)
  BY <1>1, Instances DEF C!CopyAsyncAssumption, C!IsFiniteSet, IsFiniteSet
<1> QED
  BY <1>2, FS_CardinalityType, Instances DEF C!CopyAsyncAssumption

(* Cardinality is the same in the instance. *)
LEMMA SameCount == \A A : C!Cardinality(A) = Cardinality(A)
BY DEF C!Cardinality, Cardinality

(* Subsets of the pairs are finite.                                          *)
LEMMA PairsFinite ==
  ASSUME NEW A, A \subseteq Files
  PROVE  /\ IsFiniteSet(A) /\ Cardinality(A) \in Nat
         /\ Cardinality(A) = 0 <=> A = {}
         /\ \A f \in A : Cardinality(A \ {f}) = Cardinality(A) - 1
BY CopyConstants, FS_Subset, FS_CardinalityType, FS_EmptySet, FS_RemoveElement

(* The pairs that the caller opened are the first ones. *)
LEMMA FirstPairs ==
  ASSUME NEW k \in 0 .. Cardinality(Files)
  PROVE  /\ 1 .. k \subseteq Files /\ Cardinality(1 .. k) = k
         /\ \A A : A \subseteq 1 .. k => Cardinality(A) \in 0 .. k
<1>1. Cardinality(Files) \in Nat /\ Files = 1 .. Cardinality(Files) /\ k \in Nat
  BY CopyConstants
<1>2. 1 .. k \subseteq Files
  BY <1>1
<1>3. IsFiniteSet(1 .. k) /\ Cardinality(1 .. k) = k
  BY <1>1, FS_Interval
<1>4. ASSUME NEW A, A \subseteq 1 .. k
      PROVE  Cardinality(A) \in 0 .. k
  <2>1. Cardinality(A) <= Cardinality(1 .. k) /\ Cardinality(A) \in Nat
    BY <1>3, <1>4, FS_Subset, FS_CardinalityType
  <2> QED
    BY <1>1, <1>3, <2>1
<1> QED
  BY <1>2, <1>3, <1>4

(* When left is 0, all pairs are closed; else what is open was not begun. *)
LEMMA CopyIsRight ==
  CopyInv => C!TypeOK /\ C!CopiesAreComplete /\ C!ClosedOrUntouched
<1> SUFFICES ASSUME CopyInv PROVE C!TypeOK /\ C!ClosedOrUntouched
  BY DEF CopyInv
<1>1. Opened \subseteq Files
  BY DEF Opened
<1>2. C!TypeOK
  <2>1. /\ copyPc \in {"open", "poll", "loop", "copy", "done"}
        /\ nfds \in 0 .. C!Cardinality(Files) /\ index \in 0 .. nfds /\ events \in 0 .. nfds
        /\ failed \subseteq Files
    BY SameCount DEF CopyInv, RoundTypes
  <2>2. revents \subseteq Files
    BY <1>1 DEF CopyInv, Round
  <2>3. \A f \in Files : fds[f] \in SUBSET {"source", "dest"}
    BY DEF CopyInv, PairTypes, Both
  <2>4. copyPc # "open" => left = C!Cardinality({f \in Files : fds[f] # {}})
    BY SameCount DEF CopyInv, OpenedOnce, Opened
  <2> QED
    BY <2>1, <2>2, <2>3, <2>4 DEF C!TypeOK
<1>3. C!ClosedOrUntouched
  <2> SUFFICES ASSUME copyPc = "done", NEW f \in Files, fds[f] # {}
               PROVE  broken /\ fds[f] = {"source", "dest"} /\ dest[f] = 0
    BY DEF C!ClosedOrUntouched
  <2>1. broken
    <3> SUFFICES ASSUME ~broken PROVE FALSE
      OBVIOUS
    <3>1. Cardinality(Opened) = 0
      BY DEF CopyInv, OpenedOnce
    <3>2. Opened = {}
      BY <1>1, <3>1, PairsFinite
    <3> QED
      BY <3>2 DEF Opened
  <2>2. fds[f] = {"source", "dest"}
    BY DEF CopyInv, PairTypes, Both
  <2>3. dest[f] = 0
    BY DEF CopyInv, Unbegun
  <2> QED
    BY <2>1, <2>2, <2>3
<1> QED
  BY <1>2, <1>3

(* No pair is opened yet. *)
LEMMA CopyBegins == C!Init => CopyInv
<1> SUFFICES ASSUME C!Init PROVE CopyInv
  OBVIOUS
<1>1. PICK size \in [Files -> Sizes] :
        source = [f \in Files |->
                   [total |-> size[f], read |-> 0,
                    ready |-> IF f \in Fifos THEN 0 ELSE size[f], writer |-> f \in Fifos]]
  BY DEF C!Init
<1>2. /\ copyPc = "open" /\ nfds = 0 /\ left = 0 /\ events = 0 /\ index = 0
      /\ dest = [f \in Files |-> 0] /\ fds = [f \in Files |-> {}]
      /\ revents = {} /\ failed = {} /\ broken = FALSE
  BY DEF C!Init
<1>3. ASSUME NEW f \in Files
      PROVE  source[f] \in Sources /\ PairIs(source[f], dest[f])
  <2>1. PICK t, r, w : t = size[f] /\ r = (IF f \in Fifos THEN 0 ELSE size[f]) /\ w = (f \in Fifos)
    OBVIOUS
  <2>2. source[f] = [total |-> t, read |-> 0, ready |-> r, writer |-> w]
    BY <1>1, <2>1
  <2>3. w \in BOOLEAN
    <3>1. (f \in Fifos) \in BOOLEAN
      OBVIOUS
    <3> QED
      BY <2>1, <3>1, Zenon
  <2>4. t \in Nat
    BY <2>1, CopyConstants
  <2>5. r \in Nat /\ r <= t /\ 0 <= r
    BY <2>1, <2>4
  <2>6. w = FALSE => r = t
    BY <2>1
  <2>7. source[f] \in Sources
    BY <2>2, <2>3, <2>4, <2>5 DEF Sources
  <2>8. dest[f] = 0
    BY <1>2
  <2>9. /\ source[f].read = 0 /\ source[f].ready = r /\ source[f].total = t
        /\ source[f].writer = w
    BY <2>2
  <2> QED
    BY <2>5, <2>6, <2>7, <2>8, <2>9 DEF PairIs
<1>4. PairTypes
  <2>1. source \in [Files -> Sources]
    BY <1>1, <1>3
  <2> QED
    BY <1>2, <2>1 DEF PairTypes
<1>5. RoundTypes
  BY <1>2, CopyConstants DEF RoundTypes
<1>6. Opened = {}
  BY <1>2 DEF Opened
<1>7. OpenedOnce
  BY <1>2, <1>6 DEF OpenedOnce
<1>8. Round
  BY <1>2 DEF Round
<1>9. Pairs
  BY <1>3 DEF Pairs
<1>10. C!CopiesAreComplete
  BY <1>2 DEF C!CopiesAreComplete
<1>11. Unbegun
  BY <1>2 DEF Unbegun
<1> QED
  BY <1>4, <1>5, <1>7, <1>8, <1>9, <1>10, <1>11 DEF CopyInv

(* What the caller does, and the rounds of the thread.                       *)
LEMMA CopyRounds ==
  ASSUME CopyInv,
         C!Open \/ C!StartThread \/ C!Poll \/ C!PollFails \/ C!Skip \/ C!Take \/ C!Finish
  PROVE  CopyInv'
<1>a. UNCHANGED <<source, dest, failed>>
  BY DEF C!Open, C!StartThread, C!Poll, C!PollFails, C!Skip, C!Take, C!Finish
<1>b. Pairs'
  BY <1>a DEF CopyInv, Pairs
<1>c. Opened \subseteq Files /\ Opened \subseteq 1 .. nfds
  BY DEF CopyInv, OpenedOnce, Opened
<1>d. /\ nfds \in 0 .. Cardinality(Files) /\ index \in 0 .. nfds /\ events \in 0 .. nfds
      /\ Cardinality(Files) \in Nat /\ Files = 1 .. Cardinality(Files)
      /\ failed \subseteq Files /\ nfds \in Nat /\ index \in Nat /\ events \in Nat
  BY CopyConstants DEF CopyInv, RoundTypes
<1>u. Unbegun'
  <2>1. copyPc # "copy" /\ \A f \in Files : f > nfds \/ fds[f] # {} => dest[f] = 0
    BY DEF CopyInv, Unbegun, C!Open, C!StartThread, C!Poll, C!PollFails, C!Skip, C!Take, C!Finish
  <2>2. UNCHANGED <<nfds, fds>> => Unbegun'
    BY <1>a, <2>1 DEF Unbegun
  <2>3. CASE C!Open
    <3>1. nfds' = nfds + 1 /\ fds' = [fds EXCEPT ![nfds + 1] = Both]
      BY <2>3 DEF C!Open, Both
    <3>2. ASSUME NEW f \in Files, f > nfds' \/ fds'[f] # {}
          PROVE  f > nfds \/ fds[f] # {}
      <4>1. f \in Nat
        BY <1>d
      <4>2. CASE f = nfds + 1
        BY <1>d, <4>2
      <4>3. CASE f # nfds + 1
        <5>1. fds'[f] = fds[f]
          BY <3>1, <4>3 DEF CopyInv, PairTypes
        <5>2. f > nfds + 1 => f > nfds
          BY <1>d, <4>1
        <5> QED
          BY <3>1, <3>2, <5>1, <5>2
      <4> QED
        BY <4>2, <4>3
    <3> QED
      BY <1>a, <2>1, <3>2 DEF Unbegun
  <2> QED
    BY <2>2, <2>3 DEF C!StartThread, C!Poll, C!PollFails, C!Skip, C!Take, C!Finish
<1>1. CASE C!Open
  <2>1. /\ copyPc = "open" /\ nfds < Cardinality(Files)
        /\ fds' = [fds EXCEPT ![nfds + 1] = Both] /\ nfds' = nfds + 1
        /\ UNCHANGED <<copyPc, left, events, index, revents, broken>>
    BY <1>1, SameCount DEF C!Open, Both
  <2>2. nfds + 1 \in Files /\ Both # {}
    BY <1>d, <2>1 DEF Both
  <2>3. fds \in [Files -> {{}, Both}] /\ Opened = 1 .. nfds
    BY <2>1 DEF CopyInv, PairTypes, OpenedOnce
  <2>4. PairTypes'
    BY <1>a, <2>1, <2>2, <2>3 DEF CopyInv, PairTypes
  <2>5. Opened' = Opened \cup {nfds + 1}
    BY <2>1, <2>2, <2>3 DEF Opened
  <2>6. Opened' = 1 .. nfds'
    BY <1>d, <2>1, <2>3, <2>5
  <2>7. RoundTypes'
    BY <1>a, <1>d, <2>1 DEF CopyInv, RoundTypes
  <2>8. OpenedOnce'
    BY <2>1, <2>6 DEF OpenedOnce
  <2>9. Round'
    BY <2>1, <2>5 DEF CopyInv, Round
  <2>10. C!CopiesAreComplete'
    <3>1. \A f \in 1 .. nfds' : fds'[f] # {}
      BY <2>6 DEF Opened
    <3> QED
      BY <3>1 DEF C!CopiesAreComplete
  <2> QED
    BY <1>b, <1>u, <2>4, <2>7, <2>8, <2>9, <2>10 DEF CopyInv
<1>e. ASSUME UNCHANGED <<nfds, fds>>
      PROVE  PairTypes' /\ C!CopiesAreComplete' /\ Opened' = Opened
  BY <1>a, <1>e DEF CopyInv, PairTypes, C!CopiesAreComplete, Opened
<1>2. CASE C!StartThread
  <2>1. /\ copyPc = "open" /\ copyPc' = "poll" /\ left' = nfds
        /\ UNCHANGED <<nfds, fds, events, index, revents, broken>>
    BY <1>2 DEF C!StartThread
  <2>2. RoundTypes'
    BY <1>a, <2>1 DEF CopyInv, RoundTypes
  <2>3. OpenedOnce'
    <3>1. Opened = 1 .. nfds /\ Cardinality(1 .. nfds) = nfds
      BY <1>d, <2>1, FirstPairs DEF CopyInv, OpenedOnce
    <3> QED
      BY <1>e, <2>1, <3>1 DEF OpenedOnce
  <2>4. Round'
    BY <1>e, <2>1 DEF CopyInv, Round
  <2> QED
    BY <1>b, <1>u, <1>e, <2>1, <2>2, <2>3, <2>4 DEF CopyInv
<1>3. CASE C!Poll
  <2>0. DEFINE Told == {f \in C!Polled : C!Event(f)}
               Readable == {f \in C!Polled : C!In(f)}
  <2>1. /\ copyPc = "poll" /\ copyPc' = "loop" /\ index' = 1
        /\ Told # {} /\ events' = Cardinality(Told) /\ revents' = Readable
        /\ UNCHANGED <<nfds, fds, left, broken>>
    BY <1>3, SameCount DEF C!Poll
  <2>2. Readable \subseteq Told /\ Told \subseteq 1 .. nfds
    BY DEF C!Event, C!Polled
  <2>3. Cardinality(Told) \in 0 .. nfds /\ Cardinality(Readable) \in 0 .. nfds
    BY <1>d, <2>2, FirstPairs
  <2>4. Cardinality(Readable) <= Cardinality(Told) /\ 1 \in 1 .. nfds
    <3>1. IsFiniteSet(Told)
      BY <1>d, <2>2, FirstPairs, PairsFinite
    <3>2. Cardinality(Readable) <= Cardinality(Told)
      BY <2>2, <3>1, FS_Subset
    <3>3. PICK f : f \in Told
      BY <2>1
    <3>4. 1 \in 1 .. nfds
      BY <1>d, <2>2, <3>3
    <3> QED
      BY <3>2, <3>4
  <2>5. Readable \subseteq Opened
    <3>1. ASSUME NEW f \in Readable PROVE f \in Opened
      <4>1. f \in 1 .. nfds /\ "source" \in fds[f]
        BY <3>1 DEF C!Polled
      <4>2. f \in Files /\ fds[f] # {}
        BY <1>d, <4>1
      <4> QED
        BY <4>2 DEF Opened
    <3> QED
      BY <3>1
  <2> HIDE DEF Told, Readable
  <2>6. RoundTypes'
    BY <1>a, <1>d, <2>1, <2>3, <2>4 DEF RoundTypes
  <2>7. OpenedOnce'
    BY <1>e, <2>1 DEF CopyInv, OpenedOnce
  <2>8. Round'
    BY <1>e, <2>1, <2>4, <2>5 DEF Round
  <2> QED
    BY <1>b, <1>u, <1>e, <2>1, <2>6, <2>7, <2>8 DEF CopyInv
<1>4. CASE C!PollFails \/ C!Finish
  <2>1. /\ copyPc = "poll" /\ copyPc' = "done" /\ (left = 0 \/ broken' = TRUE)
        /\ UNCHANGED <<nfds, fds, left, events, index, revents>>
    BY <1>4 DEF C!PollFails, C!Finish
  <2>2. RoundTypes'
    BY <1>a, <2>1 DEF CopyInv, RoundTypes
  <2>3. OpenedOnce'
    BY <1>e, <2>1 DEF CopyInv, OpenedOnce
  <2>4. Round'
    BY <1>e, <2>1 DEF CopyInv, Round
  <2> QED
    BY <1>b, <1>u, <1>e, <2>1, <2>2, <2>3, <2>4 DEF CopyInv
<1>5. CASE C!Skip
  <2>1. /\ copyPc = "loop"
        /\ \/ copyPc' = "poll" /\ index' = index
           \/ copyPc' = "loop" /\ index' = index + 1 /\ index # nfds
        /\ UNCHANGED <<nfds, fds, left, events, revents, broken>>
    BY <1>5 DEF C!Skip, C!NextRound
  <2>2. RoundTypes'
    BY <1>a, <1>d, <2>1 DEF CopyInv, RoundTypes
  <2>3. OpenedOnce'
    BY <1>e, <2>1 DEF CopyInv, OpenedOnce
  <2>4. Round'
    BY <1>d, <1>e, <2>1 DEF CopyInv, Round
  <2> QED
    BY <1>b, <1>u, <1>e, <2>1, <2>2, <2>3, <2>4 DEF CopyInv
<1>6. CASE C!Take
  <2>1. /\ copyPc = "loop" /\ copyPc' = "copy" /\ index \in revents /\ events' = events - 1
        /\ UNCHANGED <<nfds, fds, left, index, revents, broken>>
    BY <1>6 DEF C!Take
  <2>2. Cardinality(revents) <= events /\ Cardinality(revents) \in Nat /\ Cardinality(revents) # 0
    <3>1. revents \subseteq Files /\ Cardinality(revents) <= events
      BY <1>c, <2>1 DEF CopyInv, Round
    <3> QED
      BY <2>1, <3>1, PairsFinite
  <2>3. events' \in 0 .. nfds /\ Cardinality(revents) <= events' + 1
    BY <1>d, <2>1, <2>2
  <2>4. RoundTypes'
    BY <1>a, <1>d, <2>1, <2>3 DEF RoundTypes
  <2>5. OpenedOnce'
    BY <1>e, <2>1 DEF CopyInv, OpenedOnce
  <2>6. Round'
    BY <1>e, <2>1, <2>3 DEF CopyInv, Round
  <2> QED
    BY <1>b, <1>u, <1>e, <2>1, <2>4, <2>5, <2>6 DEF CopyInv
<1> QED
  BY <1>1, <1>2, <1>3, <1>4, <1>5, <1>6
(* A pair that ends was open, and it is one less.                            *)
PairEnds ==
  /\ fds' = [fds EXCEPT ![index] = {}] /\ left' = left - 1 /\ revents' = revents \ {index}
  /\ \/ copyPc' = "poll" /\ index' = index
     \/ copyPc' = "loop" /\ index' = index + 1 /\ index # nfds
  /\ UNCHANGED <<nfds, source, dest, events, broken>>

(* left and what poll reported are brought up to date with the pair. *)
LEMMA CopyPairEnds ==
  ASSUME CopyInv, copyPc = "copy", PairEnds, failed' \subseteq Files, failed \subseteq failed',
         index \in failed' \/ dest[index] = source[index].total
  PROVE  CopyInv'
<1>1. /\ nfds \in 0 .. Cardinality(Files) /\ index \in 1 .. nfds /\ events \in 0 .. nfds
      /\ Cardinality(Files) \in Nat /\ Files = 1 .. Cardinality(Files) /\ nfds \in Nat
      /\ index \in revents /\ Cardinality(revents) <= events + 1
      /\ revents \subseteq Opened /\ Opened \subseteq 1 .. nfds /\ left = Cardinality(Opened)
      /\ fds \in [Files -> {{}, Both}]
  BY CopyConstants DEF CopyInv, RoundTypes, Round, OpenedOnce, PairTypes
<1>2. Opened \subseteq Files /\ index \in Opened /\ index \in Files
  BY <1>1 DEF Opened
<1>3. Opened' = Opened \ {index}
  BY <1>1, <1>2 DEF Opened, PairEnds
<1>4. PairTypes'
  BY <1>1, <1>2 DEF CopyInv, PairTypes, PairEnds
<1>5. RoundTypes'
  <2>1. index' \in 0 .. nfds
    BY <1>1 DEF PairEnds
  <2> QED
    BY <1>1, <2>1 DEF RoundTypes, PairEnds
<1>6. Pairs'
  BY DEF CopyInv, Pairs, PairEnds
<1>7. OpenedOnce'
  <2>1. Cardinality(Opened') = Cardinality(Opened) - 1
    BY <1>2, <1>3, PairsFinite
  <2> QED
    BY <1>1, <1>3, <2>1 DEF OpenedOnce, PairEnds
<1>8. Round'
  <2>1. Cardinality(revents \ {index}) = Cardinality(revents) - 1
        /\ Cardinality(revents) \in Nat
    BY <1>1, <1>2, PairsFinite
  <2>2. revents' = revents \ {index} /\ events' = events /\ events \in Nat
    BY <1>1 DEF PairEnds
  <2>3. revents' \subseteq Opened'
    <3>1. revents \ {index} \subseteq Opened \ {index}
      BY <1>1
    <3> QED
      BY <1>3, <2>2, <3>1, Zenon
  <2>4. Cardinality(revents') <= events'
    <3>1. PICK c \in Nat : c = Cardinality(revents)
      BY <2>1
    <3>2. c - 1 <= events
      BY <1>1, <2>2, <3>1
    <3>3. Cardinality(revents') = c - 1
      BY <2>1, <2>2, <3>1, Zenon
    <3> QED
      BY <2>2, <3>2, <3>3
  <2> QED
    BY <1>1, <2>3, <2>4 DEF Round, PairEnds
<1>9. C!CopiesAreComplete'
  <2> SUFFICES ASSUME NEW f \in 1 .. nfds, fds'[f] = {}, f \notin failed'
               PROVE  dest[f] = source[f].total
    BY DEF C!CopiesAreComplete, PairEnds
  <2>1. CASE f = index
    BY <2>1
  <2>2. CASE f # index
    <3>1. f \in Files /\ f \notin failed
      BY <1>1
    <3>2. fds[f] = {}
      BY <1>1, <2>2, <3>1 DEF PairEnds
    <3> QED
      BY <3>1, <3>2 DEF CopyInv, C!CopiesAreComplete
  <2> QED
    BY <2>1, <2>2
<1>10. Unbegun'
  <2> SUFFICES ASSUME NEW f \in Files, f > nfds' \/ fds'[f] # {}
               PROVE  dest'[f] = 0
    BY DEF Unbegun
  <2>1. nfds' = nfds /\ dest' = dest
    BY DEF PairEnds
  <2>2. f # index
    <3>1. fds'[index] = {} /\ ~ (index > nfds)
      BY <1>1, <1>2 DEF PairEnds
    <3> QED
      BY <2>1, <3>1
  <2>3. fds'[f] = fds[f]
    BY <1>1, <2>2 DEF PairEnds
  <2> QED
    BY <2>1, <2>2, <2>3 DEF CopyInv, Unbegun
<1> QED
  BY <1>4, <1>5, <1>6, <1>7, <1>8, <1>9, <1>10 DEF CopyInv

(* A source grows, ends or is read further: one pair changes, and the rest   *)
(* stays as it was.                                                          *)
LEMMA CopyOfPair ==
  ASSUME CopyInv, NEW f \in Files, NEW s \in Sources, NEW d \in Nat, PairIs(s, d),
         source' = [source EXCEPT ![f] = s], dest' = [dest EXCEPT ![f] = d],
         s.total = source[f].total, d = dest[f] \/ fds[f] # {},
         d = dest[f] \/ (copyPc = "copy" /\ f = index),
         UNCHANGED <<copyPc, nfds, fds, left, events, index, revents, failed, broken>>
  PROVE  CopyInv'
<1>0. /\ source \in [Files -> Sources] /\ dest \in [Files -> Nat]
      /\ Files = 1 .. Cardinality(Files) /\ Cardinality(Files) \in Nat
      /\ nfds \in 0 .. Cardinality(Files)
  BY CopyConstants DEF CopyInv, PairTypes, RoundTypes
<1>1. PairTypes'
  BY <1>0 DEF CopyInv, PairTypes
<1>2. Opened' = Opened
  BY DEF Opened
<1>3. RoundTypes' /\ OpenedOnce' /\ Round'
  BY <1>2 DEF CopyInv, RoundTypes, OpenedOnce, Round
<1>4. \A g \in Files : /\ source'[g] = IF g = f THEN s ELSE source[g]
                       /\ dest'[g] = IF g = f THEN d ELSE dest[g]
  BY <1>0
<1>5. Pairs'
  BY <1>4 DEF CopyInv, Pairs
<1>6. C!CopiesAreComplete'
  <2> SUFFICES ASSUME NEW g \in 1 .. nfds, fds[g] = {}, g \notin failed
               PROVE  dest'[g] = source'[g].total
    BY DEF C!CopiesAreComplete
  <2>1. g \in Files /\ dest[g] = source[g].total
    BY <1>0 DEF CopyInv, C!CopiesAreComplete
  <2> QED
    BY <1>4, <2>1
<1>7. Unbegun'
  <2> SUFFICES ASSUME NEW g \in Files, g > nfds \/ fds[g] # {},
                      ~ (copyPc = "copy" /\ g = index)
               PROVE  dest'[g] = 0
    BY DEF Unbegun
  <2>1. dest[g] = 0
    BY DEF CopyInv, Unbegun
  <2>2. g = f => d = dest[f]
    OBVIOUS
  <2> QED
    BY <1>4, <2>1, <2>2
<1> QED
  BY <1>1, <1>3, <1>5, <1>6, <1>7 DEF CopyInv

(* The writer of a FIFO goes on meanwhile. *)
LEMMA CopyWriter ==
  ASSUME CopyInv, NEW f \in Files, C!WriterWrites(f) \/ C!WriterEnds(f)
  PROVE  CopyInv'
<1>1. PICK s0, d : s0 = source[f] /\ d = dest[f]
  OBVIOUS
<1>2. /\ s0 \in Sources /\ d \in Nat /\ PairIs(s0, d)
      /\ source \in [Files -> Sources] /\ dest \in [Files -> Nat]
  BY <1>1 DEF CopyInv, PairTypes, Pairs
<1>3. /\ s0.total \in Nat /\ s0.read \in Nat /\ s0.ready \in Nat
      /\ s0.read = d /\ s0.read <= s0.ready /\ s0.ready <= s0.total
  BY <1>2 DEF Sources, PairIs
<1>4. dest' = [dest EXCEPT ![f] = d]
  BY <1>1, <1>2 DEF C!WriterWrites, C!WriterEnds
<1>5. UNCHANGED <<copyPc, nfds, fds, left, events, index, revents, failed, broken>>
  BY DEF C!WriterWrites, C!WriterEnds
<1>6. CASE C!WriterWrites(f)
  <2>1. PICK s : s = [total |-> s0.total, read |-> s0.read, ready |-> s0.ready + 1, writer |-> s0.writer]
    OBVIOUS
  <2>2. s0.writer /\ s0.ready < s0.total /\ source' = [source EXCEPT ![f] = [s0 EXCEPT !.ready = s0.ready + 1]]
    BY <1>1, <1>6 DEF C!WriterWrites
  <2>3. s = [s0 EXCEPT !.ready = s0.ready + 1]
    BY <1>2, <2>1 DEF Sources
  <2>4. s \in Sources /\ s.total = s0.total
    BY <1>2, <1>3, <2>1 DEF Sources
  <2>5. PairIs(s, d)
    <3>1. s.read = d /\ s.read <= s.ready /\ s.ready <= s.total
      BY <1>3, <2>1, <2>2
    <3>2. s.writer # FALSE
      BY <2>1, <2>2
    <3> QED
      BY <3>1, <3>2 DEF PairIs
  <2> QED
    BY <1>1, <1>2, <1>4, <1>5, <2>2, <2>3, <2>4, <2>5, CopyOfPair
<1>7. CASE C!WriterEnds(f)
  <2>1. PICK s : s = [s0 EXCEPT !.writer = FALSE]
    OBVIOUS
  <2>2. s0.ready = s0.total /\ source' = [source EXCEPT ![f] = s]
    BY <1>1, <1>7, <2>1 DEF C!WriterEnds
  <2>3. s.total = s0.total /\ s.read = s0.read /\ s.ready = s0.ready /\ s.writer = FALSE
    BY <1>2, <2>1 DEF Sources
  <2>4. s \in Sources
    BY <1>2, <2>1 DEF Sources
  <2>5. PairIs(s, d)
    BY <1>3, <2>2, <2>3 DEF PairIs
  <2> QED
    BY <1>1, <1>2, <1>4, <1>5, <2>2, <2>3, <2>4, <2>5, CopyOfPair
<1> QED
  BY <1>6, <1>7

(* The caller, the thread and the writers, in any order. *)
LEMMA CopyStep ==
  CopyInv /\ C!Next => CopyInv'
<1> SUFFICES ASSUME CopyInv, C!Next PROVE CopyInv'
  OBVIOUS
<1>a. ASSUME copyPc = "copy"
      PROVE  index \in revents /\ index \in Files /\ index \in Opened
  BY <1>a DEF CopyInv, Round, Opened
<1>b. ASSUME C!EndPair, UNCHANGED <<nfds, source, dest, events, broken>>
      PROVE  PairEnds
  BY <1>b DEF C!EndPair, C!ClosePair, C!NextRound, PairEnds
<1>c. failed \subseteq Files
  BY DEF CopyInv, RoundTypes
<1>1. CASE C!CopyFails
  <2>1. copyPc = "copy" /\ failed' = failed \cup {index} /\ PairEnds
    BY <1>1, <1>b DEF C!CopyFails
  <2> QED
    BY <1>a, <1>c, <2>1, CopyPairEnds
<1>2. CASE C!CopyEnds
  <2>1. copyPc = "copy" /\ failed' = failed /\ PairEnds /\ C!AtEnd(index)
    BY <1>2, <1>b DEF C!CopyEnds
  <2>2. dest[index] = source[index].total
    <3>1. source[index] \in Sources /\ PairIs(source[index], dest[index])
      BY <1>a, <2>1 DEF CopyInv, PairTypes, Pairs
    <3>2. ~ (source[index].read < source[index].ready) /\ source[index].writer = FALSE
      BY <2>1, <3>1 DEF C!AtEnd, C!Data, Sources
    <3> QED
      BY <3>1, <3>2 DEF PairIs, Sources
  <2> QED
    BY <1>c, <2>1, <2>2, CopyPairEnds
<1>3. CASE C!CopyChunk
  <2>1. copyPc = "copy" /\ C!Data(index)
        /\ UNCHANGED <<copyPc, nfds, fds, left, events, index, revents, failed, broken>>
    BY <1>3 DEF C!CopyChunk
  <2>2. PICK s0, d0, m : s0 = source[index] /\ d0 = dest[index] /\ m = C!Amount
    OBVIOUS
  <2>3. /\ s0 \in Sources /\ PairIs(s0, d0) /\ d0 \in Nat /\ fds[index] # {} /\ index \in Files
    BY <1>a, <2>1, <2>2 DEF CopyInv, PairTypes, Pairs, Opened
  <2>4. /\ s0.total \in Nat /\ s0.read \in Nat /\ s0.ready \in Nat
        /\ s0.read = d0 /\ s0.read <= s0.ready /\ s0.ready <= s0.total /\ s0.read < s0.ready
    BY <2>1, <2>2, <2>3 DEF Sources, PairIs, C!Data
  <2>5. m \in Nat /\ m <= s0.ready - s0.read
    <3>1. PICK x, y : x = Chunk /\ y = s0.ready - s0.read
      OBVIOUS
    <3>2. m = C!Min({x, y})
      BY <2>2, <3>1 DEF C!Amount
    <3>3. x \in Int /\ x \in Nat /\ y \in Int /\ y > 0
      BY <2>4, <3>1, CopyConstants
    <3>4. m = IF x <= y THEN x ELSE y
      BY <3>2, <3>3, LeastOfTwo
    <3>5. m \in Nat /\ m <= y
      BY <3>3, <3>4
    <3> QED
      BY <3>1, <3>5
  <2>6. /\ source' = [source EXCEPT ![index] = [s0 EXCEPT !.read = s0.read + m]]
        /\ dest' = [dest EXCEPT ![index] = d0 + m]
    BY <1>3, <2>2 DEF C!CopyChunk
  <2>7. PICK s : s = [total |-> s0.total, read |-> s0.read + m, ready |-> s0.ready, writer |-> s0.writer]
    OBVIOUS
  <2>8. s = [s0 EXCEPT !.read = s0.read + m]
    BY <2>3, <2>7 DEF Sources
  <2>9. s \in Sources /\ s.total = s0.total /\ d0 + m \in Nat
    BY <2>3, <2>4, <2>5, <2>7 DEF Sources
  <2>10. PairIs(s, d0 + m)
    <3>1. s.read = d0 + m /\ s.read <= s.ready /\ s.ready <= s.total
      BY <2>4, <2>5, <2>7
    <3>2. s.writer = FALSE => s.ready = s.total
      BY <2>3, <2>7 DEF PairIs
    <3> QED
      BY <3>1, <3>2 DEF PairIs
  <2> QED
    BY <2>1, <2>2, <2>3, <2>6, <2>8, <2>9, <2>10, CopyOfPair
<1>4. CASE C!Over
  <2>1. UNCHANGED <<copyPc, nfds, source, dest, fds, left, events, index, revents, failed, broken>>
    BY <1>4 DEF C!Over, C!vars
  <2> QED
    BY <2>1 DEF CopyInv, PairTypes, RoundTypes, OpenedOnce, Opened, Round, Pairs, Unbegun,
                C!CopiesAreComplete
<1> QED
  BY <1>1, <1>2, <1>3, <1>4, CopyRounds, CopyWriter DEF C!Next, C!Thread
-----------------------------------------------------------------------------
(* Sleeping, the clock and the time zone.                                   *)

(* A quotient and its remainder. *)
LEMMA Quotient ==
  ASSUME NEW a \in Nat, NEW b \in Nat \ {0}
  PROVE  \E q \in Nat, r \in 0 .. b - 1 : q = a \div b /\ r = a % b /\ a = b * q + r
<1> DEFINE q == a \div b
           r == a % b
<1>1. q \in Nat /\ r \in Nat /\ r < b /\ a = b * q + r
  OBVIOUS
<1> HIDE DEF q, r
<1>2. r \in 0 .. b - 1
  BY <1>1
<1>3. q = a \div b /\ r = a % b
  BY DEF q, r
<1> QED
  BY <1>1, <1>2, <1>3

(* Products grow with their factors. *)
LEMMA Products ==
  ASSUME NEW k \in Nat, NEW x \in Int, NEW y \in Int
  PROVE  /\ k * x \in Int
         /\ x <= y => k * x <= k * y
         /\ x < y => k * x + k <= k * y
<1>1. k * x \in Int /\ k * y \in Int /\ k * (y - x) = k * y - k * x
  OBVIOUS
<1>2. x <= y => k * (y - x) >= 0
  OBVIOUS
<1>3. x < y => k * (y - x) >= k
  <2>1. k * (y - x) = k * (y - x - 1) + k
    OBVIOUS
  <2>2. x < y => k * (y - x - 1) >= 0
    OBVIOUS
  <2> QED
    BY <2>1, <2>2
<1> QED
  BY <1>1, <1>2, <1>3

(* A quotient is known by its remainder.                                     *)
LEMMA OneQuotient ==
  ASSUME NEW a \in Nat, NEW b \in Nat \ {0}, NEW q \in Int, NEW r \in 0 .. b - 1, a = b * q + r
  PROVE  a \div b = q /\ a % b = r
<1>1. PICK q2 \in Nat, r2 \in 0 .. b - 1 : q2 = a \div b /\ r2 = a % b /\ a = b * q2 + r2
  BY Quotient
<1>2. q2 \in Nat /\ r2 \in 0 .. b - 1 /\ a = b * q2 + r2
  BY <1>1
<1>3. PICK p, p2 : p = b * q /\ p2 = b * q2
  OBVIOUS
<1>4. /\ p \in Int /\ p2 \in Int
      /\ q < q2 => p + b <= p2
      /\ q2 < q => p2 + b <= p
  BY <1>2, <1>3, Products
<1>5. a = p + r /\ a = p2 + r2
  BY <1>2, <1>3
<1>6. q2 = q
  BY <1>2, <1>4, <1>5
<1>7. r2 = r
  BY <1>2, <1>3, <1>5, <1>6
<1> QED
  BY <1>1, <1>6, <1>7

(* The longest sleep stands for anything longer: the product is taken only   *)
(* where it fits.                                                            *)
SleepInv ==
  /\ unit \in Nat \ {0} /\ amount \in Int /\ amount <= MaxInt
  /\ elapsed \in Nat /\ sleepLeft \in Int
  /\ pc = "call" => elapsed = 0 /\ sleepLeft = 0
  /\ pc = "sleep" => sleepLeft > 0
  /\ S!TypeOK /\ S!SleepsLongEnough

(* What the assumptions say of units and widths. *)
LEMMA ClockConstants ==
  /\ NsPerUs \in Nat \ {0} /\ NsPerMs \in Nat \ {0} /\ NsPerSec \in Nat \ {0}
  /\ MaxMs \in Nat \ {0} /\ MaxInt \in Nat /\ Frequencies \subseteq Nat \ {0}
BY Instances DEF S!ClockAssumption

(* The comparison with a quotient says whether the product fits. *)
LEMMA WantedIs ==
  ASSUME unit \in Nat \ {0}, amount \in Int, amount <= MaxInt
  PROVE  /\ S!Wanted \in 0 .. MaxInt
         /\ amount <= 0 => S!Wanted = 0
         /\ amount > 0 => S!Nanoseconds(amount) = S!Wanted /\ S!Wanted > 0
<1>1. CASE amount <= 0
  BY <1>1, ClockConstants DEF S!Wanted
<1>2. CASE amount > 0
  <2>0. unit \in Nat \ {0} /\ MaxInt \in Nat
    BY ClockConstants
  <2>1. PICK u : u = unit
    OBVIOUS
  <2>2. PICK q \in Nat, r \in 0 .. u - 1 : q = MaxInt \div unit /\ MaxInt = u * q + r
    BY <2>0, <2>1, Quotient
  <2>a. u \in Nat \ {0} /\ q \in Nat /\ r \in 0 .. u - 1 /\ MaxInt = u * q + r /\ MaxInt \in Nat
    BY <2>0, <2>1, <2>2
  <2>3. PICK p, w : p = u * q /\ w = u * amount
    OBVIOUS
  <2>4. /\ p \in Int /\ w \in Int
        /\ amount <= q => w <= p
        /\ q < amount => p + u <= w
        /\ w >= amount
    <3>1. u \in Nat /\ q \in Int /\ amount \in Int /\ 0 < amount
      BY <1>2, <2>a
    <3>2. p \in Int /\ w \in Int /\ (amount <= q => w <= p) /\ (q < amount => p + u <= w)
      BY <2>3, <3>1, Products
    <3>3. w >= amount
      <4>1. 1 \in Int /\ amount \in Nat /\ 1 <= u
        BY <2>a, <3>1
      <4>2. amount * 1 <= amount * u
        BY <2>a, <4>1, Products
      <4> QED
        BY <2>a, <2>3, <4>1, <4>2
    <3> QED
      BY <3>2, <3>3
  <2>5. MaxInt = p + r
    BY <2>a, <2>3, Zenon
  <2>6. amount * unit = w
    BY <1>2, <2>1, <2>a, <2>3
  <2>7. S!Nanoseconds(amount) = IF amount > q THEN MaxInt ELSE w
    BY <2>1, <2>2, <2>6 DEF S!Nanoseconds
  <2>8. S!Wanted = IF w <= MaxInt THEN w ELSE MaxInt
    <3>1. S!Wanted = S!Min({amount * unit, MaxInt})
      BY <1>2 DEF S!Wanted
    <3>2. w \in Int /\ MaxInt \in Int
      BY <2>a, <2>4
    <3>3. S!Min({w, MaxInt}) = IF w <= MaxInt THEN w ELSE MaxInt
      BY <3>2, LeastOfTwo
    <3> QED
      BY <2>6, <3>1, <3>3, Zenon
  <2>9. amount > q <=> ~ (w <= MaxInt)
    BY <1>2, <2>a, <2>4, <2>5
  <2> QED
    BY <1>2, <2>a, <2>4, <2>7, <2>8, <2>9
<1> QED
  BY <1>1, <1>2

(* Nothing was slept yet. *)
LEMMA SleepStart == S!Init => SleepInv
<1> SUFFICES ASSUME S!Init PROVE SleepInv
  OBVIOUS
<1>1. /\ unit \in {1, NsPerUs, NsPerMs} /\ amount \in -1 .. MaxInt
      /\ sleepLeft = 0 /\ elapsed = 0 /\ pc = "call"
  BY DEF S!Init
<1>2. unit \in Nat \ {0} /\ amount \in Int /\ amount <= MaxInt
  BY <1>1, ClockConstants
<1>3. S!TypeOK
  BY <1>1, ClockConstants DEF S!TypeOK
<1> QED
  BY <1>1, <1>2, <1>3 DEF SleepInv, S!SleepsLongEnough

(* Whole milliseconds, rounded up, are less than one longer.                 *)
LEMMA WholeMilliseconds ==
  ASSUME NEW x \in Nat
  PROVE  /\ ((x + NsPerMs - 1) \div NsPerMs) * NsPerMs \in Int
         /\ ((x + NsPerMs - 1) \div NsPerMs) * NsPerMs >= x
         /\ ((x + NsPerMs - 1) \div NsPerMs) * NsPerMs < x + NsPerMs
<1>1. PICK m, a : m = NsPerMs /\ a = x + NsPerMs - 1
  OBVIOUS
<1>2. m \in Nat \ {0} /\ a \in Nat /\ a = x + m - 1
  BY <1>1, ClockConstants
<1>3. PICK q \in Nat, r \in 0 .. m - 1 : q = a \div m /\ a = m * q + r
  BY <1>2, Quotient
<1>4. PICK s : s = q * m
  OBVIOUS
<1>5. s = m * q /\ s \in Int
  BY <1>2, <1>4
<1>6. a = s + r /\ r \in 0 .. m - 1
  BY <1>3, <1>5, Zenon
<1>7. s >= x /\ s < x + m
  BY <1>2, <1>5, <1>6
<1> QED
  BY <1>1, <1>3, <1>4, <1>5, <1>7, Zenon

(* However a sleep goes on, what is left is what is wanted and not slept. *)
LEMMA SleepStep == SleepInv /\ S!Next => SleepInv'
<1> SUFFICES ASSUME SleepInv, S!Next PROVE SleepInv'
  OBVIOUS
<1>1. unit' = unit /\ amount' = amount
  BY DEF S!Next, S!Begin, S!SleepWhole, S!Interrupted, S!SleepChunk
<1>2. S!Wanted' = S!Wanted
  BY <1>1 DEF S!Wanted
<1>3. PICK w : w = S!Wanted
  OBVIOUS
<1>4. /\ w \in 0 .. MaxInt /\ S!Wanted' = w /\ w \in Nat
      /\ amount <= 0 => w = 0
      /\ amount > 0 => S!Nanoseconds(amount) = w /\ w > 0
  BY <1>2, <1>3, WantedIs, ClockConstants DEF SleepInv
<1>5. /\ unit \in Nat \ {0} /\ amount \in Int /\ amount <= MaxInt /\ elapsed \in Nat
      /\ sleepLeft \in Int /\ sleepLeft \in 1 - NsPerMs .. MaxInt
      /\ pc = "call" => elapsed = 0 /\ sleepLeft = 0
      /\ pc = "sleep" => sleepLeft > 0 /\ elapsed + sleepLeft = w
      /\ NsPerMs \in Nat \ {0} /\ MaxInt \in Nat /\ MaxMs \in Nat \ {0}
  BY <1>3, ClockConstants DEF SleepInv, S!TypeOK
<1>6. ASSUME elapsed' \in Nat, sleepLeft' \in 1 - NsPerMs .. MaxInt,
             \/ pc' = "sleep" /\ sleepLeft' > 0 /\ elapsed' + sleepLeft' = w
             \/ pc' = "done" /\ elapsed' >= w /\ elapsed' < w + NsPerMs
      PROVE  SleepInv'
  <2>1. S!TypeOK'
    BY <1>4, <1>6 DEF S!TypeOK
  <2>2. S!SleepsLongEnough'
    BY <1>4, <1>6 DEF S!SleepsLongEnough
  <2>3. sleepLeft' \in Int
    BY <1>5, <1>6
  <2> QED
    BY <1>1, <1>5, <1>6, <2>1, <2>2, <2>3 DEF SleepInv
<1>7. CASE S!Begin
  <2>1. /\ pc = "call" /\ elapsed' = elapsed
        /\ \/ amount <= 0 /\ sleepLeft' = 0 /\ pc' = "done"
           \/ amount > 0 /\ sleepLeft' = S!Nanoseconds(amount) /\ pc' = "sleep"
    BY <1>5, <1>7 DEF S!Begin
  <2> QED
    BY <1>4, <1>5, <1>6, <2>1
<1>8. CASE S!SleepWhole
  <2>1. pc = "sleep" /\ elapsed' = elapsed + sleepLeft /\ sleepLeft' = 0 /\ pc' = "done"
    BY <1>8 DEF S!SleepWhole
  <2> QED
    BY <1>4, <1>5, <1>6, <2>1
<1>9. CASE S!Interrupted
  <2>1. PICK slept \in 1 .. sleepLeft - 1 :
          elapsed' = elapsed + slept /\ sleepLeft' = sleepLeft - slept
    BY <1>9 DEF S!Interrupted
  <2>2. pc = "sleep" /\ pc' = pc
    BY <1>9 DEF S!Interrupted
  <2> QED
    BY <1>4, <1>5, <1>6, <2>1, <2>2
<1>10. CASE S!SleepChunk
  <2>1. PICK x : x = S!Min({sleepLeft, MaxMs * NsPerMs})
    OBVIOUS
  <2>2. PICK slept : slept = ((x + NsPerMs - 1) \div NsPerMs) * NsPerMs
    OBVIOUS
  <2>3. /\ pc = "sleep" /\ sleepLeft > 0
        /\ elapsed' = elapsed + slept /\ sleepLeft' = sleepLeft - slept
        /\ pc' = IF sleepLeft' > 0 THEN "sleep" ELSE "done"
    BY <1>10, <2>1, <2>2 DEF S!SleepChunk, S!Milliseconds
  <2>4. x \in Nat /\ x <= sleepLeft
    <3>1. PICK y : y = MaxMs * NsPerMs
      OBVIOUS
    <3>2. y \in Nat
      BY <1>5, <3>1
    <3>3. x = IF sleepLeft <= y THEN sleepLeft ELSE y
      <4>1. y \in Int
        BY <3>2
      <4> QED
        BY <1>5, <2>1, <3>1, <4>1, LeastOfTwo
    <3> QED
      BY <1>5, <2>3, <3>2, <3>3
  <2>5. slept \in Int /\ slept >= x /\ slept < x + NsPerMs
    BY <2>2, <2>4, WholeMilliseconds
  <2>6. CASE sleepLeft' > 0
    <3>1. pc' = "sleep"
      BY <2>3, <2>6
    <3> QED
      BY <1>4, <1>5, <1>6, <2>3, <2>4, <2>5, <2>6, <3>1
  <2>7. CASE ~ (sleepLeft' > 0)
    <3>1. pc' = "done"
      BY <2>3, <2>7
    <3> QED
      BY <1>4, <1>5, <1>6, <2>3, <2>4, <2>5, <2>7, <3>1
  <2> QED
    BY <2>6, <2>7
<1> QED
  BY <1>7, <1>8, <1>9, <1>10 DEF S!Next

(* The hardware's counter follows the time that went by.                     *)
TickInv ==
  /\ tick \in [count : Nat, frequency : Frequencies]
  /\ tick.count = (elapsed * tick.frequency) \div NsPerSec

(* A quotient grows with the number. *)
LEMMA QuotientGrows ==
  ASSUME NEW x \in Nat, NEW y \in Nat, NEW b \in Nat \ {0}, x <= y
  PROVE  x \div b \in Nat /\ y \div b \in Nat /\ x \div b <= y \div b
<1>1. PICK q1 \in Nat, r1 \in 0 .. b - 1 : q1 = x \div b /\ r1 = x % b /\ x = b * q1 + r1
  BY Quotient
<1>2. PICK q2 \in Nat, r2 \in 0 .. b - 1 : q2 = y \div b /\ r2 = y % b /\ y = b * q2 + r2
  BY Quotient
<1>3. PICK p1, p2 : p1 = b * q1 /\ p2 = b * q2
  OBVIOUS
<1>4. p1 \in Int /\ p2 \in Int /\ (q2 < q1 => p2 + b <= p1)
  <2>1. b \in Nat /\ q1 \in Int /\ q2 \in Int
    OBVIOUS
  <2> QED
    BY <1>3, <2>1, Products
<1>5. x = p1 + r1 /\ y = p2 + r2
  BY <1>1, <1>2, <1>3, Zenon
<1>6. q1 <= q2
  BY <1>4, <1>5
<1> QED
  BY <1>1, <1>2, <1>6

(* Seconds and nanoseconds of a counter that goes on.                        *)
GoesOn(f, c, d) ==
  LET nsec(x) == ((x % f) * NsPerSec) \div f
  IN /\ nsec(d) \in 0 .. NsPerSec - 1
     /\ c \div f < d \div f \/ (c \div f = d \div f /\ nsec(c) <= nsec(d))

(* The seconds decide, then the remainder. *)
LEMMA CounterGoesOn ==
  ASSUME NEW f \in Nat \ {0}, NEW c \in Nat, NEW d \in Nat, c <= d
  PROVE  GoesOn(f, c, d)
<1>1. PICK q1 \in Nat, r1 \in 0 .. f - 1 : q1 = c \div f /\ r1 = c % f /\ c = f * q1 + r1
  BY Quotient
<1>2. PICK q2 \in Nat, r2 \in 0 .. f - 1 : q2 = d \div f /\ r2 = d % f /\ d = f * q2 + r2
  BY Quotient
<1>3. PICK k : k = NsPerSec
  OBVIOUS
<1>4. k \in Nat \ {0} /\ k \in Nat /\ r1 \in Nat /\ r2 \in Nat /\ f \in Nat
  BY <1>3, ClockConstants
<1>5. q1 <= q2
  BY <1>1, <1>2, QuotientGrows
<1>6. q1 = q2 => r1 <= r2
  <2>1. PICK p : p = f * q1
    OBVIOUS
  <2>2. p \in Int
    BY <2>1
  <2>3. q1 = q2 => c = p + r1 /\ d = p + r2
    BY <1>1, <1>2, <2>1, Zenon
  <2> QED
    BY <2>2, <2>3
<1>7. PICK n1, n2 : n1 = r1 * k /\ n2 = r2 * k
  OBVIOUS
<1>8. n1 \in Nat /\ n2 \in Nat /\ (r1 <= r2 => n1 <= n2) /\ n2 + k <= f * k
  <2>1. n1 \in Nat /\ n2 \in Nat
    BY <1>4, <1>7
  <2>2. n1 = k * r1 /\ n2 = k * r2 /\ f * k = k * f
    BY <1>4, <1>7
  <2>3. r1 \in Int /\ r2 \in Int /\ f \in Int /\ r2 < f
    BY <1>4
  <2>4. r1 <= r2 => k * r1 <= k * r2
    BY <1>4, <2>3, Products
  <2>5. k * r2 + k <= k * f
    BY <1>4, <2>3, Products
  <2> QED
    BY <2>1, <2>2, <2>4, <2>5, Zenon
<1>9. n2 \div f \in 0 .. k - 1 /\ n1 \div f \in Nat
  <2>1. PICK q \in Nat, r \in 0 .. f - 1 : q = n2 \div f /\ n2 = f * q + r
    BY <1>8, Quotient
  <2>2. n1 \div f \in Nat
    BY <1>8, QuotientGrows
  <2>3. PICK p, m : p = f * q /\ m = f * k
    OBVIOUS
  <2>4. p \in Int /\ m \in Int /\ (k <= q => m <= p)
    <3>1. k \in Int /\ q \in Int
      BY <1>4
    <3> QED
      BY <1>4, <2>3, <3>1, Products
  <2>5. n2 = p + r /\ n2 + k <= m
    BY <1>8, <2>1, <2>3, Zenon
  <2>6. q < k
    BY <1>4, <1>8, <2>4, <2>5
  <2>7. q \in 0 .. k - 1
    BY <1>4, <2>6
  <2> QED
    BY <2>1, <2>2, <2>7
<1>10. r1 <= r2 => n1 \div f <= n2 \div f
  BY <1>8, QuotientGrows
<1>11. n2 = (d % f) * NsPerSec /\ n1 = (c % f) * NsPerSec
  BY <1>1, <1>2, <1>3, <1>7, Zenon
<1>12. q1 < q2 \/ (q1 = q2 /\ n1 \div f <= n2 \div f)
  BY <1>5, <1>6, <1>10
<1>13. c \div f < d \div f \/ (c \div f = d \div f /\ n1 \div f <= n2 \div f)
  BY <1>1, <1>2, <1>12, Zenon
<1> QED
  BY <1>3, <1>9, <1>11, <1>13, Zenon DEF GoesOn

(* The counter begins at 0. *)
LEMMA TickStart == S!Init => TickInv
<1> SUFFICES ASSUME S!Init PROVE TickInv
  OBVIOUS
<1>1. tick \in [count : {0}, frequency : Frequencies] /\ elapsed = 0
  BY DEF S!Init
<1>2. tick \in [count : Nat, frequency : Frequencies] /\ tick.count = 0 /\ tick.frequency \in Nat
  <2>1. 0 \in Nat /\ \A z \in {0} : z \in Nat
    OBVIOUS
  <2>2. tick.count \in {0} /\ tick.frequency \in Frequencies
    BY <1>1
  <2>3. tick = [count |-> tick.count, frequency |-> tick.frequency]
    BY <1>1
  <2> QED
    BY <2>1, <2>2, <2>3, ClockConstants
<1>3. PICK x : x = elapsed * tick.frequency
  OBVIOUS
<1>4. x = 0
  BY <1>1, <1>2, <1>3
<1>5. 0 \div NsPerSec = 0
  BY ClockConstants
<1> QED
  BY <1>2, <1>3, <1>4, <1>5, Zenon DEF TickInv

(* The counter never counts back. *)
LEMMA TickStep ==
  ASSUME SleepInv, TickInv, S!Next, SleepInv'
  PROVE  /\ TickInv' /\ tick'.frequency = tick.frequency
         /\ tick.count \in Nat /\ tick'.count \in Nat /\ tick.count <= tick'.count
         /\ tick.frequency \in Nat \ {0}
<1>1. PICK c, f : c = tick.count /\ f = tick.frequency
  OBVIOUS
<1>2. /\ f \in Frequencies /\ f \in Nat \ {0} /\ c \in Nat
      /\ tick \in [count : Nat, frequency : Frequencies]
      /\ c = (elapsed * f) \div NsPerSec
  BY <1>1, ClockConstants DEF TickInv
<1>3. CASE elapsed' = elapsed /\ tick' = tick
  BY <1>1, <1>2, <1>3 DEF TickInv
<1>4. CASE /\ elapsed' >= elapsed
           /\ tick' = [tick EXCEPT !.count = (elapsed' * f) \div NsPerSec]
  <2>1. elapsed \in Nat /\ elapsed' \in Nat
    BY DEF SleepInv
  <2>2. PICK x, y : x = elapsed * f /\ y = elapsed' * f
    OBVIOUS
  <2>3. x \in Nat /\ y \in Nat /\ x <= y
    <3>1. x = f * elapsed /\ y = f * elapsed'
      BY <1>2, <2>1, <2>2
    <3>2. f \in Nat /\ elapsed \in Int /\ elapsed' \in Int
      BY <1>2, <2>1
    <3>3. f * elapsed <= f * elapsed'
      BY <1>4, <3>2, Products
    <3>4. x \in Nat /\ y \in Nat
      <4>1. 0 \in Int /\ 0 <= elapsed /\ 0 <= elapsed'
        BY <2>1
      <4>2. /\ f * 0 <= f * elapsed /\ f * 0 <= f * elapsed'
            /\ f * elapsed \in Int /\ f * elapsed' \in Int
        BY <3>2, <4>1, Products
      <4>3. f * 0 = 0
        BY <3>2
      <4> QED
        BY <3>1, <4>2, <4>3
    <3> QED
      BY <3>1, <3>3, <3>4, Zenon
  <2>4. PICK d : d = y \div NsPerSec
    OBVIOUS
  <2>5. c = x \div NsPerSec
    BY <1>2, <2>2, Zenon
  <2>6. c \in Nat /\ d \in Nat /\ c <= d
    BY <2>3, <2>4, <2>5, ClockConstants, QuotientGrows
  <2>7. tick' = [tick EXCEPT !.count = d]
    BY <1>4, <2>2, <2>4
  <2>8. /\ tick' \in [count : Nat, frequency : Frequencies]
        /\ tick'.count = d /\ tick'.frequency = f
    BY <1>1, <1>2, <2>6, <2>7
  <2>9. tick'.count = (elapsed' * tick'.frequency) \div NsPerSec
    BY <2>2, <2>4, <2>8, Zenon
  <2> QED
    BY <1>1, <1>2, <2>6, <2>8, <2>9 DEF TickInv
<1>5. ASSUME NEW k \in Nat, elapsed' = elapsed + k, S!Ticks(k)
      PROVE  /\ elapsed' >= elapsed
             /\ tick' = [tick EXCEPT !.count = (elapsed' * f) \div NsPerSec]
  BY <1>1, <1>5 DEF S!Ticks, SleepInv
<1>6. CASE S!Begin
  BY <1>3, <1>6 DEF S!Begin
<1>7. CASE S!SleepWhole
  <2>1. pc = "sleep" /\ elapsed' = elapsed + sleepLeft /\ S!Ticks(sleepLeft)
    BY <1>7 DEF S!SleepWhole
  <2>2. sleepLeft \in Nat
    BY <2>1 DEF SleepInv
  <2> QED
    BY <1>4, <1>5, <2>1, <2>2
<1>8. CASE S!Interrupted
  <2>1. PICK slept \in 1 .. sleepLeft - 1 : elapsed' = elapsed + slept /\ S!Ticks(slept)
    BY <1>8 DEF S!Interrupted
  <2>2. slept \in Nat
    BY DEF SleepInv
  <2> QED
    BY <1>4, <1>5, <2>1, <2>2
<1>9. CASE S!SleepChunk
  <2>1. PICK slept : slept = S!Milliseconds(sleepLeft) * NsPerMs
    OBVIOUS
  <2>2. elapsed' = elapsed + slept /\ S!Ticks(slept) /\ sleepLeft > 0
    BY <1>9, <2>1 DEF S!SleepChunk
  <2>3. PICK x, y : y = MaxMs * NsPerMs /\ x = S!Min({sleepLeft, y})
    OBVIOUS
  <2>4. y \in Nat /\ y \in Int /\ sleepLeft \in Int
    BY <2>3, ClockConstants DEF SleepInv
  <2>5. x \in Nat
    <3>1. S!Min({sleepLeft, y}) = IF sleepLeft <= y THEN sleepLeft ELSE y
      BY <2>4, LeastOfTwo
    <3>2. x = sleepLeft \/ x = y
      BY <2>3, <3>1
    <3> QED
      BY <2>2, <2>4, <3>2
  <2>6. slept = ((x + NsPerMs - 1) \div NsPerMs) * NsPerMs
    BY <2>1, <2>3 DEF S!Milliseconds
  <2>7. slept \in Nat
    BY <2>5, <2>6, WholeMilliseconds
  <2> QED
    BY <1>4, <1>5, <2>2, <2>7
<1> QED
  BY <1>6, <1>7, <1>8, <1>9 DEF S!Next

(* A quotient of a quotient. *)
LEMMA QuotientOfQuotient ==
  ASSUME NEW t \in Nat, NEW b \in Nat \ {0}, NEW k \in Nat \ {0}
  PROVE  t \div (b * k) = (t \div b) \div k
<1>1. PICK d \in Nat, r \in 0 .. b - 1 : d = t \div b /\ r = t % b /\ t = b * d + r
  BY Quotient
<1>2. PICK y \in Nat, s \in 0 .. k - 1 : y = d \div k /\ s = d % k /\ d = k * y + s
  BY Quotient
<1>3. PICK m, p, q : m = b * k /\ p = b * s /\ q = m * y
  OBVIOUS
<1>4. m \in Nat /\ p \in Nat /\ q \in Int /\ p + b <= m /\ m # 0
  <2>1. b \in Nat /\ s \in Int /\ k \in Int /\ s < k /\ 0 \in Int /\ 0 <= s
    OBVIOUS
  <2>2. b * s + b <= b * k /\ b * 0 <= b * s /\ b * s \in Int /\ b * k \in Int
    BY <2>1, Products
  <2>3. b * 0 = 0 /\ b > 0
    OBVIOUS
  <2>4. p + b <= m /\ 0 <= p /\ p \in Int /\ m \in Int
    BY <1>3, <2>2, <2>3
  <2>5. m \in Nat /\ p \in Nat /\ m # 0
    BY <2>3, <2>4
  <2>6. q \in Int
    BY <1>3, <2>5
  <2> QED
    BY <2>4, <2>5, <2>6
<1>5. b * d = q + p
  <2>1. b * (k * y + s) = (b * k) * y + b * s
    OBVIOUS
  <2> QED
    BY <1>2, <1>3, <2>1, Zenon
<1>6. t = q + (p + r) /\ p + r \in 0 .. m - 1
  BY <1>1, <1>4, <1>5
<1>7. t = m * y + (p + r)
  BY <1>3, <1>6, Zenon
<1>8. t \div m = y
  <2>1. m \in Nat \ {0} /\ y \in Int
    BY <1>4
  <2> QED
    BY <1>6, <1>7, <2>1, OneQuotient
<1> QED
  BY <1>1, <1>2, <1>3, <1>8, Zenon

(* Days are counted on through the years: the year decides before the day.   *)
DayOrder(k, d1, d2) ==
  LET y1 == d1 \div k  y2 == d2 \div k  e1 == d1 % k  e2 == d2 % k
  IN (IF y1 < y2 THEN -1 ELSE IF y1 > y2 THEN 1 ELSE IF e1 < e2 THEN -1 ELSE IF e1 > e2 THEN 1 ELSE 0)
       = d1 - d2

(* Days of two sides of the date line are a day apart at most. *)
LEMMA DaysInOrder ==
  ASSUME NEW k \in Nat \ {0}, NEW d1 \in Nat, NEW d2 \in Nat, d1 - d2 \in -1 .. 1
  PROVE  DayOrder(k, d1, d2)
<1>1. PICK y1 \in Nat, e1 \in 0 .. k - 1 : y1 = d1 \div k /\ e1 = d1 % k /\ d1 = k * y1 + e1
  BY Quotient
<1>2. PICK y2 \in Nat, e2 \in 0 .. k - 1 : y2 = d2 \div k /\ e2 = d2 % k /\ d2 = k * y2 + e2
  BY Quotient
<1>3. PICK p1, p2 : p1 = k * y1 /\ p2 = k * y2
  OBVIOUS
<1>4. /\ p1 \in Int /\ p2 \in Int /\ (y1 = y2 => p1 = p2)
      /\ y1 < y2 => p1 + k <= p2
      /\ y2 < y1 => p2 + k <= p1
  <2>1. k \in Nat /\ y1 \in Int /\ y2 \in Int
    OBVIOUS
  <2> QED
    BY <1>3, <2>1, Products
<1>5. d1 = p1 + e1 /\ d2 = p2 + e2
  BY <1>1, <1>2, <1>3, Zenon
<1>6. (IF y1 < y2 THEN -1 ELSE IF y1 > y2 THEN 1 ELSE IF e1 < e2 THEN -1 ELSE IF e1 > e2 THEN 1 ELSE 0)
        = d1 - d2
  BY <1>4, <1>5
<1> QED
  BY <1>1, <1>2, <1>6, Zenon DEF DayOrder

ZoneTypes ==
  /\ now \in Nat /\ now >= 48 /\ zone \in -47 .. 47
  /\ initialized \in BOOLEAN

ZoneInv == ZoneTypes /\ Z!OffsetIsTheZones

(* Zones are less than a day off. *)
LEMMA ZoneConstants ==
  /\ DaysPerYear \in Nat \ {0} /\ \A o \in Offsets : o \in 0 .. 47
BY Instances DEF Z!TimeZoneAssumption, Z!Day

(* What is broken down on both sides of the date line is put together.       *)
OffsetIs(t, z) == Z!Offset(Z!Broken(t + z), Z!Broken(t)) = 1800 * z

LEMMA OffsetOfZone ==
  ASSUME NEW t \in Nat, NEW z \in -47 .. 47, t >= 48
  PROVE  OffsetIs(t, z)
<1>1. PICK u : u = t + z
  OBVIOUS
<1>2. u \in Nat /\ 48 \in Nat \ {0}
  BY <1>1
<1>3. PICK d1 \in Nat, r1 \in 0 .. 48 - 1 : d1 = u \div 48 /\ r1 = u % 48 /\ u = 48 * d1 + r1
  BY <1>2, Quotient
<1>4. PICK d2 \in Nat, r2 \in 0 .. 48 - 1 : d2 = t \div 48 /\ r2 = t % 48 /\ t = 48 * d2 + r2
  BY <1>2, Quotient
<1>5. d1 - d2 \in -1 .. 1 /\ z = 48 * (d1 - d2) + r1 - r2
  BY <1>1, <1>3, <1>4
<1>6. PICK k : k = DaysPerYear
  OBVIOUS
<1>7. k \in Nat \ {0}
  BY <1>6, ZoneConstants
<1>8. u \div (48 * k) = d1 \div k /\ t \div (48 * k) = d2 \div k
  BY <1>2, <1>3, <1>4, <1>7, QuotientOfQuotient
<1>9. DayOrder(k, d1, d2)
  BY <1>5, <1>7, DaysInOrder
<1>10. PICK h1 \in Nat, g1 \in 0 .. 2 - 1 : h1 = r1 \div 2 /\ r1 = 2 * h1 + g1
  BY Quotient
<1>11. PICK h2 \in Nat, g2 \in 0 .. 2 - 1 : h2 = r2 \div 2 /\ r2 = 2 * h2 + g2
  BY Quotient
<1>12. u % 2 = g1 /\ t % 2 = g2
  <2>1. u = 2 * (24 * d1 + h1) + g1 /\ t = 2 * (24 * d2 + h2) + g2
    BY <1>3, <1>4, <1>10, <1>11
  <2>2. 24 * d1 + h1 \in Int /\ 24 * d2 + h2 \in Int /\ 2 \in Nat \ {0}
    OBVIOUS
  <2> QED
    BY <1>2, <2>1, <2>2, OneQuotient
<1>13. PICK y1 \in Nat, e1 \in 0 .. k - 1 : y1 = d1 \div k /\ e1 = d1 % k
  BY <1>7, Quotient
<1>14. PICK y2 \in Nat, e2 \in 0 .. k - 1 : y2 = d2 \div k /\ e2 = d2 % k
  BY <1>7, Quotient
<1>15. /\ Z!Broken(u) = [year |-> y1, yday |-> e1, hour |-> h1, min |-> 30 * g1]
       /\ Z!Broken(t) = [year |-> y2, yday |-> e2, hour |-> h2, min |-> 30 * g2]
  <2>1. /\ u \div (48 * k) = y1 /\ (u \div 48) % k = e1 /\ (u % 48) \div 2 = h1
        /\ t \div (48 * k) = y2 /\ (t \div 48) % k = e2 /\ (t % 48) \div 2 = h2
    BY <1>3, <1>4, <1>8, <1>10, <1>11, <1>13, <1>14, Zenon
  <2> QED
    BY <1>6, <1>12, <2>1, Zenon DEF Z!Broken, Z!Day
<1>16. (IF y1 < y2 THEN -1 ELSE IF y1 > y2 THEN 1 ELSE IF e1 < e2 THEN -1 ELSE IF e1 > e2 THEN 1 ELSE 0)
         = d1 - d2
  BY <1>9, <1>13, <1>14, Zenon DEF DayOrder
<1>17. PICK a, b : /\ a = Z!Broken(u) /\ a.year = y1 /\ a.yday = e1 /\ a.hour = h1 /\ a.min = 30 * g1
                   /\ b = Z!Broken(t) /\ b.year = y2 /\ b.yday = e2 /\ b.hour = h2 /\ b.min = 30 * g2
  BY <1>15
<1>18. PICK sign : sign = IF y1 < y2 THEN -1 ELSE IF y1 > y2 THEN 1
                          ELSE IF e1 < e2 THEN -1 ELSE IF e1 > e2 THEN 1 ELSE 0
  OBVIOUS
<1>19. Z!Offset(a, b) = 3600 * (h1 - h2) + 60 * (30 * g1 - 30 * g2) + 24 * 3600 * sign
  BY <1>17, <1>18 DEF Z!Offset
<1>20. sign = d1 - d2
  BY <1>16, <1>18, Zenon
<1>21. 3600 * (h1 - h2) + 60 * (30 * g1 - 30 * g2) + 24 * 3600 * sign = 1800 * z
  BY <1>5, <1>10, <1>11, <1>20
<1>22. Z!Offset(a, b) = 1800 * z
  BY <1>19, <1>21
<1>23. Z!Broken(t + z) = a /\ Z!Broken(t) = b
  BY <1>1, <1>17
<1> QED
  BY <1>22, <1>23 DEF OffsetIs

(* The clock starts a day after the first midnight. *)
LEMMA ZoneStart == Z!Init => ZoneInv
<1> SUFFICES ASSUME Z!Init PROVE ZoneInv
  OBVIOUS
<1>1. now = 48 /\ zone \in Offsets \cup {-o : o \in Offsets} /\ initialized = FALSE
  BY DEF Z!Init, Z!Day
<1>2. zone \in -47 .. 47
  <2>1. CASE zone \in Offsets
    BY <2>1, ZoneConstants
  <2>2. ASSUME NEW o \in Offsets, zone = -o
        PROVE  zone \in -47 .. 47
    BY <2>2, ZoneConstants
  <2> QED
    BY <1>1, <2>1, <2>2
<1>3. ZoneTypes
  <2>1. initialized \in BOOLEAN
    BY <1>1, Zenon
  <2>2. now \in Nat /\ now >= 48
    BY <1>1
  <2> QED
    BY <1>2, <2>1, <2>2, Zenon DEF ZoneTypes
<1>4. Z!OffsetIsTheZones
  BY <1>1 DEF Z!OffsetIsTheZones
<1> QED
  BY <1>3, <1>4 DEF ZoneInv

(* timezone_init at any moment. *)
LEMMA ZoneStep == ZoneInv /\ Z!Next => ZoneInv'
<1> SUFFICES ASSUME ZoneInv, Z!Next PROVE ZoneInv'
  OBVIOUS
<1>1. CASE Z!Pass
  <2>1. now' = now + 1 /\ UNCHANGED <<zone, offset, initialized>>
    BY <1>1 DEF Z!Pass
  <2>2. ZoneTypes'
    BY <2>1 DEF ZoneInv, ZoneTypes
  <2> QED
    BY <2>1, <2>2 DEF ZoneInv, Z!OffsetIsTheZones
<1>2. CASE Z!TimezoneInit
  <2>1. /\ offset' = Z!Offset(Z!Broken(now + zone), Z!Broken(now))
        /\ initialized' = TRUE /\ now' = now /\ zone' = zone
    BY <1>2 DEF Z!TimezoneInit
  <2>2. ZoneTypes'
    BY <2>1 DEF ZoneInv, ZoneTypes
  <2>3. now \in Nat /\ now >= 48 /\ zone \in -47 .. 47
    BY DEF ZoneInv, ZoneTypes
  <2>4. OffsetIs(now, zone)
    BY <2>3, OffsetOfZone
  <2>5. offset' = 1800 * zone'
    BY <2>1, <2>4 DEF OffsetIs
  <2> QED
    BY <2>2, <2>5 DEF ZoneInv, Z!OffsetIsTheZones
<1> QED
  BY <1>1, <1>2 DEF Z!Next
-----------------------------------------------------------------------------
(* The system: one part runs, the others rest.                              *)

SystemInv == TempInv /\ DirInv /\ FileInv /\ CopyInv /\ SleepInv /\ TickInv /\ ZoneInv

(* A part that rests keeps its invariant. *)
LEMMA TempKept == TempInv /\ UNCHANGED tempVars => TempInv'
<1> SUFFICES ASSUME TempInv, UNCHANGED tempVars PROVE TempInv'
  OBVIOUS
<1>1. UNCHANGED <<owner, tempPc, buffer, attempt, fd, tempErrno>>
  BY DEF tempVars
<1> QED
  BY <1>1 DEF TempInv, T!TypeOK, T!FileIsItsMakers, T!NoFileIsLeft

LEMMA DirKept == DirInv /\ UNCHANGED dirVars => DirInv'
<1> SUFFICES ASSUME DirInv, UNCHANGED dirVars PROVE DirInv'
  OBVIOUS
<1>1. UNCHANGED <<dirOs, names, dirPc, at, handle, pattern, entryBlock, entries, errno, cause,
                  dirResult>>
  BY DEF dirVars
<1>2. DirTypes' /\ Copied'
  BY <1>1 DEF DirInv, DirTypes, Copied
<1>3. Holding' /\ Stage'
  BY <1>1 DEF DirInv, Holding, Doubled, Stage
<1> QED
  BY <1>2, <1>3 DEF DirInv

LEMMA FileKept == FileInv /\ UNCHANGED fileVars => FileInv'
<1> SUFFICES ASSUME FileInv, UNCHANGED fileVars PROVE FileInv'
  OBVIOUS
<1>1. UNCHANGED <<disk, same, call, open, maps, block, result, changed, closeFailed>>
  BY DEF fileVars
<1> QED
  BY <1>1, FilesStay

LEMMA CopyKept == CopyInv /\ UNCHANGED copyVars => CopyInv'
<1> SUFFICES ASSUME CopyInv, UNCHANGED copyVars PROVE CopyInv'
  OBVIOUS
<1>1. UNCHANGED <<copyPc, nfds, source, dest, fds, left, events, index, revents, failed, broken>>
  BY DEF copyVars
<1> QED
  BY <1>1 DEF CopyInv, PairTypes, RoundTypes, OpenedOnce, Opened, Round, Pairs, Unbegun,
              C!CopiesAreComplete

LEMMA TimeKept == SleepInv /\ TickInv /\ UNCHANGED timeVars => SleepInv' /\ TickInv'
<1> SUFFICES ASSUME SleepInv, TickInv, UNCHANGED timeVars PROVE SleepInv' /\ TickInv'
  OBVIOUS
<1>1. UNCHANGED <<unit, amount, sleepLeft, elapsed, tick, pc>>
  BY DEF timeVars
<1> QED
  BY <1>1 DEF SleepInv, TickInv, S!TypeOK, S!SleepsLongEnough, S!Wanted

LEMMA ZoneKept == ZoneInv /\ UNCHANGED zoneVars => ZoneInv'
<1> SUFFICES ASSUME ZoneInv, UNCHANGED zoneVars PROVE ZoneInv'
  OBVIOUS
<1>1. UNCHANGED <<now, zone, offset, initialized>>
  BY DEF zoneVars
<1> QED
  BY <1>1 DEF ZoneInv, ZoneTypes, Z!OffsetIsTheZones

(* Every part begins in its initial state, whoever runs. *)
LEMMA SystemStart == Init => SystemInv
<1> SUFFICES ASSUME Init PROVE SystemInv
  OBVIOUS
<1>1. F!Init /\ C!Init /\ T!Init
  BY DEF Init, FilesRest, CopiesRest, TempRest
<1>2. D!Init /\ S!Init /\ Z!Init
  BY DEF Init, DirRest, TimeRest, ZoneRest
<1> QED
  BY <1>1, <1>2, TempStart, DirStart, FileStart, CopyBegins, SleepStart, TickStart, ZoneStart
  DEF SystemInv

(* The part that runs keeps its invariant, and the others rest. *)
LEMMA SystemStep == SystemInv /\ [Next]_vars => SystemInv'
<1> SUFFICES ASSUME SystemInv, [Next]_vars PROVE SystemInv'
  OBVIOUS
<1>1. TempInv'
  <2>1. T!Next \/ UNCHANGED tempVars
    BY DEF Next, vars, FilesRun, CopiesRun, TempRuns, PathGrows, DirRuns, TimeRuns, ZoneRuns, FieldsGrow
  <2> QED
    BY <2>1, TempStep, TempKept DEF SystemInv
<1>2. DirInv'
  <2>1. D!Next \/ UNCHANGED dirVars
    BY DEF Next, vars, FilesRun, CopiesRun, TempRuns, PathGrows, DirRuns, TimeRuns, ZoneRuns, FieldsGrow
  <2> QED
    BY <2>1, DirStep, DirKept DEF SystemInv
<1>3. FileInv'
  <2>1. F!Next \/ UNCHANGED fileVars
    BY DEF Next, vars, FilesRun, CopiesRun, TempRuns, PathGrows, DirRuns, TimeRuns, ZoneRuns, FieldsGrow
  <2> QED
    BY <2>1, FileStep, FileKept DEF SystemInv
<1>4. CopyInv'
  <2>1. C!Next \/ UNCHANGED copyVars
    BY DEF Next, vars, FilesRun, CopiesRun, TempRuns, PathGrows, DirRuns, TimeRuns, ZoneRuns, FieldsGrow
  <2> QED
    BY <2>1, CopyStep, CopyKept DEF SystemInv
<1>5. SleepInv' /\ TickInv'
  <2>1. S!Next \/ UNCHANGED timeVars
    BY DEF Next, vars, FilesRun, CopiesRun, TempRuns, PathGrows, DirRuns, TimeRuns, ZoneRuns, FieldsGrow
  <2>2. CASE S!Next
    <3>1. SleepInv'
      BY <2>2, SleepStep DEF SystemInv
    <3> QED
      BY <2>2, <3>1, TickStep DEF SystemInv
  <2>3. CASE UNCHANGED timeVars
    BY <2>3, TimeKept DEF SystemInv
  <2> QED
    BY <2>1, <2>2, <2>3
<1>6. ZoneInv'
  <2>1. Z!Next \/ UNCHANGED zoneVars
    BY DEF Next, vars, FilesRun, CopiesRun, TempRuns, PathGrows, DirRuns, TimeRuns, ZoneRuns, FieldsGrow
  <2> QED
    BY <2>1, ZoneStep, ZoneKept DEF SystemInv
<1> QED
  BY <1>1, <1>2, <1>3, <1>4, <1>5, <1>6 DEF SystemInv

(* What the invariant gives of the properties. *)
LEMMA SystemIsRight == SystemInv => CallsCleanUp /\ SuccessIsWhole /\ TimeIsRight
<1> SUFFICES ASSUME SystemInv PROVE CallsCleanUp /\ SuccessIsWhole /\ TimeIsRight
  OBVIOUS
<1>1. F!TypeOK /\ F!NothingIsLeft /\ FileDone
  BY FileIsRight DEF SystemInv
<1>2. C!TypeOK /\ C!CopiesAreComplete /\ C!ClosedOrUntouched
  BY CopyIsRight DEF SystemInv
<1>3. D!TypeOK /\ D!NothingIsLeft /\ D!ListIsWhole /\ D!FailureHasCause
  BY DirIsRight DEF SystemInv
<1>4. T!TypeOK /\ T!FileIsItsMakers /\ T!NoFileIsLeft
  BY DEF SystemInv, TempInv
<1>5. CallsCleanUp
  BY <1>1, <1>2, <1>3, <1>4 DEF CallsCleanUp
<1>6. SuccessIsWhole
  BY <1>1, <1>2, <1>3 DEF SuccessIsWhole, FileDone
<1>7. TimeIsRight
  BY DEF SystemInv, SleepInv, ZoneInv, TimeIsRight
<1> QED
  BY <1>5, <1>6, <1>7

(* A call around files gives back what it took, whatever failed:            *)
(* descriptors, mappings, blocks and the directory. A poll that fails       *)
(* leaves open the pairs that the copying thread has not begun, and no      *)
(* other. And a descriptor of a temporary file is of the file that its      *)
(* caller made and will unlink. For any callers, names, attempts, lengths.  *)
THEOREM CallsAlwaysCleanUp == Spec => []CallsCleanUp
<1>1. Init => SystemInv
  BY SystemStart
<1>2. SystemInv /\ [Next]_vars => SystemInv'
  BY SystemStep
<1>3. SystemInv => CallsCleanUp
  BY SystemIsRight
<1> QED
  BY <1>1, <1>2, <1>3, PTL DEF Spec

(* Success is not told of half a job: of a copy to another file, a read, a  *)
(* write whose fclose succeeds and a comparison, mapped or not, of files of *)
(* any length with any buffer, of the pairs of the copying thread from slow *)
(* FIFOs, and of the list of any directory.                                 *)
THEOREM SuccessIsAlwaysWhole == Spec => []SuccessIsWhole
<1>1. Init => SystemInv
  BY SystemStart
<1>2. SystemInv /\ [Next]_vars => SystemInv'
  BY SystemStep
<1>3. SystemInv => SuccessIsWhole
  BY SystemIsRight
<1> QED
  BY <1>1, <1>2, <1>3, PTL DEF Spec

(* A sleep of any int64 of any unit is as long as was asked and less than a *)
(* millisecond longer, whoever interrupts it; and timezone_init finds the   *)
(* offset of every zone at every moment of years of any length.             *)
THEOREM TimeIsAlwaysRight == Spec => []TimeIsRight
<1>1. Init => SystemInv
  BY SystemStart
<1>2. SystemInv /\ [Next]_vars => SystemInv'
  BY SystemStep
<1>3. SystemInv => TimeIsRight
  BY SystemIsRight
<1> QED
  BY <1>1, <1>2, <1>3, PTL DEF Spec

(* Whatever the frequency of the hardware, what windows_time_monotonic      *)
(* gives never goes back, and its nanoseconds stay below a second.          *)
THEOREM TheClockNeverGoesBack == Spec => ClockNeverGoesBack
<1>1. Init => SystemInv
  BY SystemStart
<1>2. SystemInv /\ [Next]_vars => SystemInv'
  BY SystemStep
<1>3. SystemInv /\ SystemInv' /\ [Next]_vars =>
        [LET a == S!Monotonic(tick)  b == S!Monotonic(tick)'
         IN /\ b.nsec \in 0 .. NsPerSec - 1
            /\ a.sec < b.sec \/ (a.sec = b.sec /\ a.nsec <= b.nsec)]_<<os, unit, amount, sleepLeft, elapsed, tick, pc>>
  <2> SUFFICES ASSUME SystemInv, SystemInv', [Next]_vars,
                      ~ UNCHANGED <<os, unit, amount, sleepLeft, elapsed, tick, pc>>
               PROVE  LET a == S!Monotonic(tick)  b == S!Monotonic(tick)'
                      IN /\ b.nsec \in 0 .. NsPerSec - 1
                         /\ a.sec < b.sec \/ (a.sec = b.sec /\ a.nsec <= b.nsec)
    OBVIOUS
  <2>1. S!Next
    <3>1. ~ UNCHANGED timeVars
      BY DEF timeVars
    <3> QED
      BY <3>1 DEF Next, vars, FilesRun, CopiesRun, TempRuns, PathGrows, DirRuns, TimeRuns, ZoneRuns, FieldsGrow
  <2>2. PICK f, c, d : f = tick.frequency /\ c = tick.count /\ d = tick'.count
    OBVIOUS
  <2>3. f \in Nat \ {0} /\ c \in Nat /\ d \in Nat /\ c <= d /\ tick'.frequency = f
    BY <2>1, <2>2, TickStep DEF SystemInv
  <2>4. GoesOn(f, c, d)
    BY <2>3, CounterGoesOn
  <2>5. /\ S!Monotonic(tick) = [sec |-> c \div f, nsec |-> ((c % f) * NsPerSec) \div f]
        /\ S!Monotonic(tick)' = [sec |-> d \div f, nsec |-> ((d % f) * NsPerSec) \div f]
    BY <2>2, <2>3, Zenon DEF S!Monotonic
  <2>6. PICK a, b : /\ a = S!Monotonic(tick) /\ a.sec = c \div f /\ a.nsec = ((c % f) * NsPerSec) \div f
                    /\ b = S!Monotonic(tick)' /\ b.sec = d \div f /\ b.nsec = ((d % f) * NsPerSec) \div f
    BY <2>5
  <2>7. b.nsec \in 0 .. NsPerSec - 1 /\ (a.sec < b.sec \/ (a.sec = b.sec /\ a.nsec <= b.nsec))
    BY <2>4, <2>6, Zenon DEF GoesOn
  <2> QED
    BY <2>6, <2>7, Zenon
<1> QED
  BY <1>1, <1>2, <1>3, PTL DEF Spec, ClockNeverGoesBack, S!ClockIsMonotonic, S!vars

-----------------------------------------------------------------------------
(* Names of enumerations: what a declaration is.                            *)

Declarations == [id : Ids, value : SUBSET Nat,
                 alias : Enum!Tokens \cup {Enum!NoAlias}, single : BOOLEAN]

(* The values are flags of the first c bits, each of which has a name.      *)
BitsTo(c) ==
  /\ Enum!BitCount = c
  /\ \A i \in 1 .. Len(fields) :
       /\ fields[i].value \in SUBSET (0 .. c - 1) /\ fields[i].value # {}
       /\ fields[i].alias = Enum!NoAlias
  /\ \A b \in 0 .. c - 1 : \E i \in 1 .. Len(fields) : fields[i].value = {b}

(* The values are numbers, and an alias is no other field's name or alias.  *)
Numbered ==
  /\ \A i \in 1 .. Len(fields) :
       /\ fields[i].value = {i - 1}
       /\ ~ fields[i].alias.full /\ fields[i].alias.id \in Ids \cup {0}
  /\ \A i, j \in 1 .. Len(fields) :
       /\ fields[i].alias.id # fields[j].id
       /\ fields[i].alias = fields[j].alias /\ fields[i].alias.id # 0 => i = j

EnumInv ==
  /\ bitflags \in BOOLEAN /\ fields \in Seq(Declarations)
  /\ \A i, j \in 1 .. Len(fields) : fields[i].id = fields[j].id => i = j
  /\ bitflags => \E c \in Nat : BitsTo(c)
  /\ ~ bitflags => Numbered

LEMMA EnumStart ==
  ASSUME Enum!Init
  PROVE  EnumInv
<1>1. bitflags \in BOOLEAN /\ fields = <<>>
  BY DEF Enum!Init
<1>2. fields \in Seq(Declarations) /\ Len(fields) = 0
  BY <1>1
<1>3. 1 .. Len(fields) = {} /\ 0 .. 0 - 1 = {}
  BY <1>2
<1>4. Enum!BitCount = 0
  <2>1. {i \in DOMAIN fields : fields[i].single} = {}
    BY <1>1
  <2> QED
    BY <2>1, FS_EmptySet DEF Enum!BitCount, Enum!Cardinality, Cardinality
<1>5. BitsTo(0)
  BY <1>3, <1>4 DEF BitsTo
<1>6. Numbered
  BY <1>3 DEF Numbered
<1> QED
  BY <1>1, <1>2, <1>3, <1>5, <1>6 DEF EnumInv

LEMMA NamesAre ==
  /\ Ids \subseteq Nat \ {0} /\ Enum!NoneName \notin Ids /\ Enum!LastName \notin Ids
  /\ Enum!NoneName \in Nat \ {0} /\ Enum!LastName \in Nat \ {0}
  /\ Enum!NoneName # Enum!LastName /\ PrefixLen \in Nat
BY Instances DEF Enum!EnumAssumption, Enum!NoneName, Enum!LastName

LEMMA LengthsAre ==
  ASSUME NEW id \in Ids
  PROVE  Enum!NameLength(id) \in Nat
<1>1. NameLengths \in [Ids -> Nat]
  BY Instances DEF Enum!EnumAssumption
<1> QED
  BY <1>1 DEF Enum!NameLength

(* A declaration goes to the end.                                           *)
LEMMA DeclaredIs ==
  ASSUME EnumInv, NEW id \in Ids, NEW value \in SUBSET Nat,
         NEW alias \in Enum!Tokens \cup {Enum!NoAlias}, NEW single \in BOOLEAN,
         Enum!Declared(id, value, alias, single), Enum!Fresh(id), bitflags' = bitflags
  PROVE  /\ Len(fields) \in Nat /\ Len(fields') = Len(fields) + 1
         /\ fields' \in Seq(Declarations)
         /\ \A i \in 1 .. Len(fields) : i \in 1 .. Len(fields') /\ fields'[i] = fields[i]
         /\ \A i \in 1 .. Len(fields') : i \in 1 .. Len(fields) \/ i = Len(fields')
         /\ fields'[Len(fields')].id = id /\ fields'[Len(fields')].value = value
         /\ fields'[Len(fields')].alias = alias /\ fields'[Len(fields')].single = single
         /\ \A i, j \in 1 .. Len(fields') : fields'[i].id = fields'[j].id => i = j
<1>1. PICK r : r = [id |-> id, value |-> value, alias |-> alias, single |-> single]
  OBVIOUS
<1>2. r \in Declarations /\ r.id = id /\ r.value = value /\ r.alias = alias /\ r.single = single
  BY <1>1 DEF Declarations
<1>3. fields \in Seq(Declarations) /\ fields' = Append(fields, r)
  BY <1>1 DEF EnumInv, Enum!Declared
<1>4. /\ fields' \in Seq(Declarations) /\ Len(fields) \in Nat /\ Len(fields') = Len(fields) + 1
      /\ \A i \in 1 .. Len(fields) : fields'[i] = fields[i]
      /\ fields'[Len(fields) + 1] = r
  BY <1>2, <1>3
<1>5. \A i \in 1 .. Len(fields) : fields[i].id # id
  <2>1. DOMAIN fields = 1 .. Len(fields)
    BY <1>3
  <2> QED
    BY <2>1 DEF Enum!Fresh
<1>6. /\ \A i \in 1 .. Len(fields) : i \in 1 .. Len(fields') /\ fields'[i] = fields[i]
      /\ \A i \in 1 .. Len(fields') : i \in 1 .. Len(fields) \/ i = Len(fields')
      /\ fields'[Len(fields')] = r
  BY <1>4
<1>7. \A i, j \in 1 .. Len(fields) : fields[i].id = fields[j].id => i = j
  BY DEF EnumInv
<1>8. ASSUME NEW i \in 1 .. Len(fields'), NEW j \in 1 .. Len(fields'),
             fields'[i].id = fields'[j].id
      PROVE  i = j
  <2>1. CASE i \in 1 .. Len(fields) /\ j \in 1 .. Len(fields)
    <3>1. fields[i].id = fields[j].id
      BY <1>6, <1>8, <2>1
    <3> QED
      BY <1>7, <2>1, <3>1
  <2>2. CASE i \in 1 .. Len(fields) /\ j = Len(fields')
    <3>1. fields[i].id = id
      BY <1>2, <1>6, <1>8, <2>2
    <3> QED
      BY <1>5, <2>2, <3>1
  <2>3. CASE i = Len(fields') /\ j \in 1 .. Len(fields)
    <3>1. fields[j].id = id
      BY <1>2, <1>6, <1>8, <2>3
    <3> QED
      BY <1>5, <2>3, <3>1
  <2> QED
    BY <1>6, <2>1, <2>2, <2>3, Zenon
<1> QED
  BY <1>2, <1>4, <1>6, <1>8

(* A declared bit is the next one; a composition takes none.                *)
LEMMA BitsCounted ==
  ASSUME EnumInv, NEW id \in Ids, NEW value \in SUBSET Nat,
         NEW alias \in Enum!Tokens \cup {Enum!NoAlias}, NEW single \in BOOLEAN,
         Enum!Declared(id, value, alias, single), Enum!Fresh(id), bitflags' = bitflags
  PROVE  /\ Enum!BitCount \in Nat
         /\ Enum!BitCount' = IF single THEN Enum!BitCount + 1 ELSE Enum!BitCount
<1> DEFINE W == {i \in 1 .. Len(fields) : fields[i].single}
<1> DEFINE V == {i \in 1 .. Len(fields') : fields'[i].single}
<1>1. /\ Len(fields) \in Nat /\ Len(fields') = Len(fields) + 1
      /\ fields' \in Seq(Declarations)
      /\ \A i \in 1 .. Len(fields) : i \in 1 .. Len(fields') /\ fields'[i] = fields[i]
      /\ \A i \in 1 .. Len(fields') : i \in 1 .. Len(fields) \/ i = Len(fields')
      /\ fields'[Len(fields')].single = single
  BY DeclaredIs
<1>2. DOMAIN fields = 1 .. Len(fields) /\ DOMAIN fields' = 1 .. Len(fields')
  BY <1>1 DEF EnumInv
<1>3. IsFiniteSet(W)
  <2>1. IsFiniteSet(1 .. Len(fields))
    BY <1>1, FS_Interval
  <2> QED
    BY <2>1, FS_Subset
<1>4. Len(fields') \notin W /\ Len(fields') \in 1 .. Len(fields')
  BY <1>1
<1>5. V = IF single THEN W \cup {Len(fields')} ELSE W
  <2>1. \A i : i \in V <=> i \in W \/ (single /\ i = Len(fields'))
    <3> TAKE i
    <3>1. CASE i \in 1 .. Len(fields)
      <4>1. i \in V <=> fields[i].single
        BY <1>1, <3>1
      <4>2. i # Len(fields')
        BY <1>1, <3>1
      <4> QED
        BY <3>1, <4>1, <4>2
    <3>2. CASE i = Len(fields')
      BY <1>1, <1>4, <3>2
    <3>3. CASE i \notin 1 .. Len(fields) /\ i # Len(fields')
      BY <1>1, <3>3
    <3> QED
      BY <3>1, <3>2, <3>3
  <2> QED
    BY <2>1
<1>6. Cardinality(W) \in Nat /\ Cardinality(W \cup {Len(fields')}) = Cardinality(W) + 1
  BY <1>3, <1>4, FS_CardinalityType, FS_AddElement
<1>7. Enum!BitCount = Cardinality(W) /\ Enum!BitCount' = Cardinality(V)
  BY <1>2 DEF Enum!BitCount, Enum!Cardinality, Cardinality
<1> QED
  BY <1>5, <1>6, <1>7

LEMMA AddBitStep ==
  ASSUME EnumInv, NEW id \in Ids, Enum!AddBit(id), bitflags' = bitflags
  PROVE  EnumInv'
<1>1. bitflags /\ Enum!Fresh(id) /\ Enum!Declared(id, {Enum!BitCount}, Enum!NoAlias, TRUE)
  BY DEF Enum!AddBit
<1>2. PICK c \in Nat : BitsTo(c)
  BY <1>1 DEF EnumInv
<1>3. Enum!BitCount = c
  BY <1>2 DEF BitsTo
<1>4. Enum!Declared(id, {c}, Enum!NoAlias, TRUE)
  BY <1>1, <1>3
<1>5. {c} \in SUBSET Nat /\ Enum!NoAlias \in Enum!Tokens \cup {Enum!NoAlias}
  OBVIOUS
<1>6. Enum!BitCount' = c + 1
  BY <1>1, <1>3, <1>4, <1>5, BitsCounted
<1>7. /\ Len(fields) \in Nat /\ Len(fields') = Len(fields) + 1
      /\ fields' \in Seq(Declarations)
      /\ \A i \in 1 .. Len(fields) : i \in 1 .. Len(fields') /\ fields'[i] = fields[i]
      /\ \A i \in 1 .. Len(fields') : i \in 1 .. Len(fields) \/ i = Len(fields')
      /\ fields'[Len(fields')].value = {c} /\ fields'[Len(fields')].alias = Enum!NoAlias
      /\ \A i, j \in 1 .. Len(fields') : fields'[i].id = fields'[j].id => i = j
  BY <1>1, <1>4, <1>5, DeclaredIs
<1>8. ASSUME NEW i \in 1 .. Len(fields')
      PROVE  /\ fields'[i].value \in SUBSET (0 .. c) /\ fields'[i].value # {}
             /\ fields'[i].alias = Enum!NoAlias
  <2>1. CASE i \in 1 .. Len(fields)
    <3>1. /\ fields[i].value \in SUBSET (0 .. c - 1) /\ fields[i].value # {}
          /\ fields[i].alias = Enum!NoAlias
      BY <1>2, <2>1 DEF BitsTo
    <3>2. fields'[i] = fields[i]
      BY <1>7, <2>1
    <3>3. 0 .. c - 1 \subseteq 0 .. c
      OBVIOUS
    <3> QED
      BY <3>1, <3>2, <3>3
  <2>2. CASE i = Len(fields')
    <3>1. {c} \in SUBSET (0 .. c) /\ {c} # {}
      OBVIOUS
    <3> QED
      BY <1>7, <2>2, <3>1
  <2> QED
    BY <1>7, <2>1, <2>2
<1>9. ASSUME NEW b \in 0 .. c
      PROVE  \E i \in 1 .. Len(fields') : fields'[i].value = {b}
  <2>1. CASE b \in 0 .. c - 1
    <3>1. PICK i \in 1 .. Len(fields) : fields[i].value = {b}
      BY <1>2, <2>1 DEF BitsTo
    <3> QED
      BY <1>7, <3>1
  <2>2. CASE b = c
    <3>1. Len(fields') \in 1 .. Len(fields')
      BY <1>7
    <3> QED
      BY <1>7, <2>2, <3>1
  <2> QED
    BY <2>1, <2>2
<1>10. BitsTo(c + 1)'
  <2>1. PICK d : d = c + 1
    OBVIOUS
  <2>2. 0 .. d - 1 = 0 .. c
    BY <2>1
  <2>3. Enum!BitCount' = d
    BY <1>6, <2>1
  <2>4. BitsTo(d)'
    BY <1>8, <1>9, <2>2, <2>3 DEF BitsTo
  <2> QED
    BY <2>1, <2>4
<1>11. bitflags' \in BOOLEAN /\ bitflags' /\ c + 1 \in Nat
  BY <1>1 DEF EnumInv
<1> QED
  BY <1>7, <1>10, <1>11 DEF EnumInv

LEMMA AddCompositionStep ==
  ASSUME EnumInv, NEW id \in Ids, NEW W \in SUBSET DOMAIN fields,
         Enum!AddComposition(id, W), bitflags' = bitflags
  PROVE  EnumInv'
<1>1. PICK v : v = UNION {fields[i].value : i \in W}
  OBVIOUS
<1>2. bitflags /\ Enum!Fresh(id) /\ v # {} /\ Enum!Declared(id, v, Enum!NoAlias, FALSE)
  BY <1>1 DEF Enum!AddComposition
<1>3. PICK c \in Nat : BitsTo(c)
  BY <1>2 DEF EnumInv
<1>4. v \in SUBSET (0 .. c - 1)
  <2>1. DOMAIN fields = 1 .. Len(fields)
    BY DEF EnumInv
  <2>2. \A i \in W : fields[i].value \in SUBSET (0 .. c - 1)
    BY <1>3, <2>1 DEF BitsTo
  <2> QED
    BY <1>1, <2>2
<1>5. v \in SUBSET Nat /\ Enum!NoAlias \in Enum!Tokens \cup {Enum!NoAlias}
  BY <1>4
<1>6. Enum!BitCount' = c
  <2>1. Enum!BitCount = c
    BY <1>3 DEF BitsTo
  <2> QED
    BY <1>2, <1>5, <2>1, BitsCounted
<1>7. /\ Len(fields) \in Nat /\ Len(fields') = Len(fields) + 1
      /\ fields' \in Seq(Declarations)
      /\ \A i \in 1 .. Len(fields) : i \in 1 .. Len(fields') /\ fields'[i] = fields[i]
      /\ \A i \in 1 .. Len(fields') : i \in 1 .. Len(fields) \/ i = Len(fields')
      /\ fields'[Len(fields')].value = v /\ fields'[Len(fields')].alias = Enum!NoAlias
      /\ \A i, j \in 1 .. Len(fields') : fields'[i].id = fields'[j].id => i = j
  BY <1>2, <1>5, DeclaredIs
<1>8. ASSUME NEW i \in 1 .. Len(fields')
      PROVE  /\ fields'[i].value \in SUBSET (0 .. c - 1) /\ fields'[i].value # {}
             /\ fields'[i].alias = Enum!NoAlias
  <2>1. CASE i \in 1 .. Len(fields)
    <3>1. /\ fields[i].value \in SUBSET (0 .. c - 1) /\ fields[i].value # {}
          /\ fields[i].alias = Enum!NoAlias
      BY <1>3, <2>1 DEF BitsTo
    <3> QED
      BY <1>7, <2>1, <3>1
  <2>2. CASE i = Len(fields')
    BY <1>2, <1>4, <1>7, <2>2
  <2> QED
    BY <1>7, <2>1, <2>2
<1>9. ASSUME NEW b \in 0 .. c - 1
      PROVE  \E i \in 1 .. Len(fields') : fields'[i].value = {b}
  <2>1. PICK i \in 1 .. Len(fields) : fields[i].value = {b}
    BY <1>3 DEF BitsTo
  <2> QED
    BY <1>7, <2>1
<1>10. BitsTo(c)'
  BY <1>6, <1>8, <1>9 DEF BitsTo
<1>11. bitflags' \in BOOLEAN /\ bitflags'
  BY <1>2 DEF EnumInv
<1> QED
  BY <1>7, <1>10, <1>11 DEF EnumInv

LEMMA AddNumberStep ==
  ASSUME EnumInv, NEW id \in Ids, NEW alias, Enum!AddNumber(id, alias), bitflags' = bitflags,
         alias = Enum!NoAlias \/ \E a \in Ids : alias = [full |-> FALSE, id |-> a]
  PROVE  EnumInv'
<1>1. /\ ~ bitflags /\ Enum!Fresh(id) /\ Enum!Declared(id, {Len(fields)}, alias, FALSE)
      /\ alias.id # 0 => \A i \in DOMAIN fields :
                            fields[i].alias # alias /\ fields[i].id # alias.id
      /\ \A i \in DOMAIN fields : fields[i].alias.id # id
      /\ alias.id # id
  BY DEF Enum!AddNumber
<1>2. Numbered /\ fields \in Seq(Declarations) /\ DOMAIN fields = 1 .. Len(fields)
  BY <1>1 DEF EnumInv
<1>3. alias \in Enum!Tokens \cup {Enum!NoAlias} /\ ~ alias.full /\ (alias.id = 0 \/ alias.id \in Ids)
  <2>1. CASE alias = Enum!NoAlias
    BY <2>1 DEF Enum!NoAlias
  <2>2. CASE \E a \in Ids : alias = [full |-> FALSE, id |-> a]
    <3>1. PICK a \in Ids : alias = [full |-> FALSE, id |-> a]
      BY <2>2
    <3> QED
      BY <3>1 DEF Enum!Tokens
  <2> QED
    BY <2>1, <2>2
<1>4. {Len(fields)} \in SUBSET Nat
  BY <1>2
<1>5. /\ Len(fields) \in Nat /\ Len(fields') = Len(fields) + 1
      /\ fields' \in Seq(Declarations)
      /\ \A i \in 1 .. Len(fields) : i \in 1 .. Len(fields') /\ fields'[i] = fields[i]
      /\ \A i \in 1 .. Len(fields') : i \in 1 .. Len(fields) \/ i = Len(fields')
      /\ fields'[Len(fields')].value = {Len(fields)} /\ fields'[Len(fields')].alias = alias
      /\ fields'[Len(fields')].id = id
      /\ \A i, j \in 1 .. Len(fields') : fields'[i].id = fields'[j].id => i = j
  BY <1>1, <1>3, <1>4, DeclaredIs
<1>6. ASSUME NEW i \in 1 .. Len(fields')
      PROVE  /\ fields'[i].value = {i - 1}
             /\ ~ fields'[i].alias.full /\ fields'[i].alias.id \in Ids \cup {0}
  <2>1. CASE i \in 1 .. Len(fields)
    <3>1. /\ fields[i].value = {i - 1}
          /\ ~ fields[i].alias.full /\ fields[i].alias.id \in Ids \cup {0}
      BY <1>2, <2>1 DEF Numbered
    <3> QED
      BY <1>5, <2>1, <3>1
  <2>2. CASE i = Len(fields')
    BY <1>3, <1>5, <2>2
  <2> QED
    BY <1>5, <2>1, <2>2
<1>7. id # 0
  BY NamesAre
<1>8. ASSUME NEW i \in 1 .. Len(fields'), NEW j \in 1 .. Len(fields')
      PROVE  /\ fields'[i].alias.id # fields'[j].id
             /\ fields'[i].alias = fields'[j].alias /\ fields'[i].alias.id # 0 => i = j
  <2>1. CASE i \in 1 .. Len(fields) /\ j \in 1 .. Len(fields)
    <3>1. fields'[i] = fields[i] /\ fields'[j] = fields[j]
      BY <1>5, <2>1
    <3>2. /\ fields[i].alias.id # fields[j].id
          /\ fields[i].alias = fields[j].alias /\ fields[i].alias.id # 0 => i = j
      BY <1>2, <2>1 DEF Numbered
    <3> QED
      BY <3>1, <3>2
  <2>2. CASE i \in 1 .. Len(fields) /\ j = Len(fields')
    <3>1. fields'[i] = fields[i] /\ fields'[j].id = id /\ fields'[j].alias = alias
      BY <1>5, <2>2
    <3>2. fields[i].alias.id # id /\ (alias.id # 0 => fields[i].alias # alias)
      BY <1>1, <1>2, <2>2
    <3> QED
      BY <3>1, <3>2
  <2>3. CASE i = Len(fields') /\ j \in 1 .. Len(fields)
    <3>1. fields'[j] = fields[j] /\ fields'[i].id = id /\ fields'[i].alias = alias
      BY <1>5, <2>3
    <3>2. fields[j].id # alias.id /\ (alias.id # 0 => fields[j].alias # alias)
      <4>1. fields[j] \in Declarations
        BY <1>2, <2>3
      <4>2. fields[j].id # 0
        BY <4>1, NamesAre DEF Declarations
      <4> QED
        BY <1>1, <1>2, <2>3, <4>2
    <3> QED
      BY <3>1, <3>2
  <2>4. CASE i = Len(fields') /\ j = Len(fields')
    BY <1>1, <1>5, <2>4
  <2> QED
    BY <1>5, <2>1, <2>2, <2>3, <2>4, Zenon
<1>9. Numbered'
  BY <1>6, <1>8 DEF Numbered
<1>10. bitflags' \in BOOLEAN /\ ~ bitflags'
  BY <1>1 DEF EnumInv
<1> QED
  BY <1>5, <1>9, <1>10 DEF EnumInv

LEMMA EnumStep ==
  ASSUME EnumInv, Enum!Next
  PROVE  EnumInv'
<1>1. /\ bitflags' = bitflags
      /\ \E id \in Ids :
           \/ Enum!AddBit(id)
           \/ \E W \in SUBSET DOMAIN fields : Enum!AddComposition(id, W)
           \/ Enum!AddNumber(id, Enum!NoAlias)
           \/ \E a \in Ids : Enum!AddNumber(id, [full |-> FALSE, id |-> a])
  BY DEF Enum!Next
<1>2. PICK id \in Ids :
           \/ Enum!AddBit(id)
           \/ \E W \in SUBSET DOMAIN fields : Enum!AddComposition(id, W)
           \/ Enum!AddNumber(id, Enum!NoAlias)
           \/ \E a \in Ids : Enum!AddNumber(id, [full |-> FALSE, id |-> a])
  BY <1>1
<1>3. CASE Enum!AddBit(id)
  BY <1>1, <1>3, AddBitStep
<1>4. CASE \E W \in SUBSET DOMAIN fields : Enum!AddComposition(id, W)
  BY <1>1, <1>4, AddCompositionStep
<1>5. CASE Enum!AddNumber(id, Enum!NoAlias)
  BY <1>1, <1>5, AddNumberStep
<1>6. CASE \E a \in Ids : Enum!AddNumber(id, [full |-> FALSE, id |-> a])
  BY <1>1, <1>6, AddNumberStep
<1> QED
  BY <1>2, <1>3, <1>4, <1>5, <1>6

LEMMA EnumStays ==
  ASSUME EnumInv, UNCHANGED <<bitflags, fields>>
  PROVE  EnumInv'
<1>1. bitflags' = bitflags /\ fields' = fields
  OBVIOUS
<1>2. Enum!BitCount' = Enum!BitCount
  BY <1>1 DEF Enum!BitCount, Enum!Cardinality
<1>3. \A c : BitsTo(c) => BitsTo(c)'
  BY <1>1, <1>2 DEF BitsTo
<1>4. Numbered => Numbered'
  BY <1>1 DEF Numbered
<1> QED
  BY <1>1, <1>3, <1>4 DEF EnumInv

-----------------------------------------------------------------------------
(* Names of enumerations: their loops over fields and tokens.               *)

LEMMA LeastExists ==
  ASSUME NEW W \in SUBSET Nat, W # {}
  PROVE  \E x \in W : \A y \in W : x <= y
<1> DEFINE R == OpToRel(<, Nat)
<1>1. IsWellFoundedOn(R, Nat)
  BY NatLessThanWellFounded
<1>2. \A x, y \in Nat : x < y => <<x, y>> \in R
  BY DEF OpToRel
<1> HIDE DEF R
<1>3. PICK x \in W : \A y \in W : ~ (<<y, x>> \in R)
  BY <1>1, WFMin
<1>4. \A y \in W : x \in Nat /\ y \in Nat /\ ~ (y < x)
  BY <1>2, <1>3
<1> QED
  BY <1>4

LEMMA LastIsMax ==
  ASSUME NEW m \in Nat, NEW s \in SUBSET (1 .. m), m \in s
  PROVE  Enum!Max(s) = m
<1>1. \A y \in s : m >= y
  OBVIOUS
<1>2. \A x \in s : (\A y \in s : x >= y) => x = m
  OBVIOUS
<1> QED
  BY <1>1, <1>2 DEF Enum!Max

LEMMA MaxIsOne ==
  ASSUME NEW m \in Nat, NEW s \in SUBSET (1 .. m), s # {}
  PROVE  Enum!Max(s) \in s
<1> DEFINE Diff == {m - x : x \in s}
<1>1. Diff \in SUBSET Nat /\ Diff # {}
  <2>1. PICK x : x \in s
    OBVIOUS
  <2>2. m - x \in Diff
    BY <2>1
  <2>3. \A y \in s : m - y \in Nat
    OBVIOUS
  <2> QED
    BY <2>2, <2>3
<1>2. PICK d \in Diff : \A y \in Diff : d <= y
  BY <1>1, LeastExists
<1>3. PICK x \in s : d = m - x
  BY <1>2
<1>4. \A y \in s : x >= y
  <2> TAKE y \in s
  <2>1. d <= m - y
    BY <1>2
  <2> QED
    BY <1>3, <2>1
<1> QED
  BY <1>4 DEF Enum!Max

(* A turn of the loop over the fields in str, or over the tokens in parse.  *)
EnumTurn(spell, s, e) == IF spell THEN Enum!Spelled(s, e) ELSE Enum!ParseToken(s, e)

EnumTurns(g, x, q, len, spell) ==
  g[0] = x /\ \A j \in 1 .. len : g[j] = EnumTurn(spell, g[j - 1], q[j])

LEMMA EnumTurnsUnroll ==
  ASSUME NEW x, NEW len \in Nat, NEW q, DOMAIN q = 1 .. len, NEW spell \in BOOLEAN
  PROVE  \E g : /\ EnumTurns(g, x, q, len, spell)
                /\ spell => Enum!FoldLeft(Enum!Spelled, x, q) = g[len]
                /\ ~ spell => Enum!FoldLeft(Enum!ParseToken, x, q) = g[len]
<1> DEFINE Eq(f, m) == f = [s \in SUBSET (1 .. m) |->
                              IF s = {} THEN x
                              ELSE EnumTurn(spell, f[s \ {Enum!Max(s)}], q[Enum!Max(s)])]
<1>1. \E f : Eq(f, len)
  <2> DEFINE Bad == {m \in Nat : ~ \E f : Eq(f, m)}
  <2>1. SUFFICES ASSUME Bad # {} PROVE FALSE
    OBVIOUS
  <2>2. PICK m \in Bad : \A k \in Bad : m <= k
    BY <2>1, LeastExists
  <2>3. CASE m = 0
    <3> DEFINE f == [s \in SUBSET (1 .. 0) |-> x]
    <3>1. \A s \in SUBSET (1 .. 0) : s = {}
      OBVIOUS
    <3>2. Eq(f, 0)
      BY <3>1
    <3> QED
      BY <2>2, <2>3, <3>2
  <2>4. CASE m # 0
    <3>1. PICK p \in Nat : m = p + 1
      BY <2>4
    <3>2. ~ (m <= p)
      BY <3>1
    <3>3. PICK f : Eq(f, p)
      BY <2>2, <3>2, Zenon
    <3> DEFINE g == [s \in SUBSET (1 .. m) |->
                       IF m \in s THEN EnumTurn(spell, f[s \ {m}], q[m]) ELSE f[s]]
    <3>4. \A s \in SUBSET (1 .. m) : m \notin s => s \in SUBSET (1 .. p)
      BY <3>1
    <3>5. \A s \in SUBSET (1 .. m) : s \ {Enum!Max(s)} \in SUBSET (1 .. m)
      OBVIOUS
    <3>6. \A s \in SUBSET (1 .. m) :
             g[s] = IF s = {} THEN x ELSE EnumTurn(spell, g[s \ {Enum!Max(s)}], q[Enum!Max(s)])
      <4> TAKE s \in SUBSET (1 .. m)
      <4>1. CASE m \in s
        <5>1. Enum!Max(s) = m
          BY <4>1, LastIsMax
        <5>2. g[s \ {m}] = f[s \ {m}]
          OBVIOUS
        <5> QED
          BY <4>1, <5>1, <5>2
      <4>2. CASE m \notin s
        <5>1. s \in SUBSET (1 .. p) /\ g[s] = f[s]
          BY <3>4, <4>2
        <5>2. CASE s = {}
          BY <3>3, <5>1, <5>2
        <5>3. CASE s # {}
          <6>1. Enum!Max(s) \in s
            BY <5>1, <5>3, MaxIsOne
          <6>2. s \ {Enum!Max(s)} \in SUBSET (1 .. p) /\ m \notin s \ {Enum!Max(s)}
            BY <4>2, <5>1
          <6>3. g[s \ {Enum!Max(s)}] = f[s \ {Enum!Max(s)}]
            BY <3>5, <6>2
          <6>4. f[s] = EnumTurn(spell, f[s \ {Enum!Max(s)}], q[Enum!Max(s)])
            BY <3>3, <5>1, <5>3
          <6> QED
            BY <5>1, <5>3, <6>3, <6>4
        <5> QED
          BY <5>2, <5>3
      <4> QED
        BY <4>1, <4>2
    <3>7. Eq(g, m)
      BY <3>6
    <3> QED
      BY <2>2, <3>7
  <2> QED
    BY <2>3, <2>4
<1> DEFINE Fold == CHOOSE f : Eq(f, len)
<1>2. Eq(Fold, len)
  BY <1>1
<1>3. /\ spell => Enum!FoldLeft(Enum!Spelled, x, q) = Fold[1 .. len]
      /\ ~ spell => Enum!FoldLeft(Enum!ParseToken, x, q) = Fold[1 .. len]
  <2>1. CASE spell
    BY <2>1 DEF Enum!FoldLeft, Enum!MapThenFoldSet, EnumTurn
  <2>2. CASE ~ spell
    BY <2>2 DEF Enum!FoldLeft, Enum!MapThenFoldSet, EnumTurn
  <2> QED
    BY <2>1, <2>2
<1> DEFINE g == [j \in 0 .. len |-> Fold[1 .. j]]
<1> HIDE DEF Fold
<1>4. g[0] = x
  <2>1. 1 .. 0 = {} /\ 1 .. 0 \in SUBSET (1 .. len)
    OBVIOUS
  <2> QED
    BY <1>2, <2>1
<1>5. \A j \in 1 .. len : g[j] = EnumTurn(spell, g[j - 1], q[j])
  <2> TAKE j \in 1 .. len
  <2>0. j \in Nat /\ 1 <= j /\ j <= len
    OBVIOUS
  <2>1. 1 .. j \in SUBSET (1 .. len) /\ 1 .. j # {} /\ (1 .. j) \ {j} = 1 .. j - 1
    <3>1. j \in 1 .. j
      BY <2>0
    <3>2. \A y : y \in (1 .. j) \ {j} <=> y \in 1 .. j - 1
      BY <2>0
    <3>3. 1 .. j \in SUBSET (1 .. len)
      BY <2>0
    <3> QED
      BY <3>1, <3>2, <3>3
  <2>2. Enum!Max(1 .. j) = j
    <3>1. j \in 1 .. j /\ 1 .. j \in SUBSET (1 .. j)
      BY <2>0
    <3> QED
      BY <2>0, <3>1, LastIsMax
  <2>3. Fold[1 .. j] = EnumTurn(spell, Fold[1 .. j - 1], q[j])
    BY <1>2, <2>1, <2>2
  <2>4. g[j] = Fold[1 .. j] /\ g[j - 1] = Fold[1 .. j - 1]
    BY <2>0
  <2> QED
    BY <2>3, <2>4
<1>6. g[len] = Fold[1 .. len]
  OBVIOUS
<1> QED
  BY <1>3, <1>4, <1>5, <1>6 DEF EnumTurns

-----------------------------------------------------------------------------
(* Names of enumerations: what a token is read as.                          *)

LEMMA OnlyOneIsLeast ==
  ASSUME NEW i \in Nat
  PROVE  Enum!Min({i}) = i
<1>1. \A x \in {i} : (\A y \in {i} : x <= y) <=> x = i
  OBVIOUS
<1> QED
  BY <1>1 DEF Enum!Min

LEMMA TokensAre ==
  ASSUME NEW t \in Enum!Tokens, NEW id
  PROVE  Enum!TokenEqualsEnumName(t, id) <=> t.id = id
<1>1. t = [full |-> t.full, id |-> t.id] /\ t.full \in BOOLEAN
  BY DEF Enum!Tokens
<1> QED
  BY <1>1 DEF Enum!TokenEqualsEnumName, Enum!TokenEquals, Enum!FullName

LEMMA FieldIs ==
  ASSUME EnumInv, NEW i \in 1 .. Len(fields)
  PROVE  /\ fields[i] \in Declarations /\ i \in Nat /\ i \in DOMAIN fields
         /\ DOMAIN fields = 1 .. Len(fields) /\ Len(fields) \in Nat
         /\ fields[i].id \in Ids /\ fields[i].id \in Nat \ {0}
         /\ fields[i].id # Enum!NoneName /\ fields[i].id # Enum!LastName
         /\ Enum!FullName(fields[i].id) \in Enum!Tokens
         /\ Enum!FullName(fields[i].id).id = fields[i].id
<1>1. fields[i] \in Declarations /\ i \in Nat /\ DOMAIN fields = 1 .. Len(fields) /\ Len(fields) \in Nat
  BY DEF EnumInv
<1>2. fields[i].id \in Ids
  BY <1>1 DEF Declarations
<1>3. fields[i].id \in Nat \ {0} /\ fields[i].id # Enum!NoneName /\ fields[i].id # Enum!LastName
  BY <1>2, NamesAre
<1>4. /\ Enum!FullName(fields[i].id) \in Enum!Tokens
      /\ Enum!FullName(fields[i].id).id = fields[i].id
  BY <1>2 DEF Enum!FullName, Enum!Tokens
<1> QED
  BY <1>1, <1>2, <1>3, <1>4

(* A name of a field, with the prefix or without, is read as that field.    *)
LEMMA NameIsRead ==
  ASSUME EnumInv, NEW i \in 1 .. Len(fields), NEW t \in Enum!Tokens, t.id = fields[i].id, NEW W
  PROVE  Enum!ParseToken([trap |-> FALSE, value |-> W], t)
           = [trap |-> FALSE, value |-> fields[i].value \cup (IF bitflags THEN W ELSE {})]
<1>1. /\ i \in Nat /\ DOMAIN fields = 1 .. Len(fields)
      /\ fields[i].id # Enum!NoneName /\ fields[i].id # Enum!LastName
  BY FieldIs
<1>2. /\ ~ Enum!TokenEqualsEnumName(t, Enum!NoneName)
      /\ ~ Enum!TokenEqualsEnumName(t, Enum!LastName)
  BY <1>1, TokensAre
<1>3. Enum!Matches(t) = {i}
  <2>1. ASSUME NEW j \in 1 .. Len(fields)
        PROVE  Enum!TokenEqualsEnumName(t, fields[j].id) <=> j = i
    <3>1. Enum!TokenEqualsEnumName(t, fields[j].id) <=> fields[i].id = fields[j].id
      BY TokensAre
    <3> QED
      BY <3>1 DEF EnumInv
  <2>2. ASSUME NEW j \in 1 .. Len(fields), ~ bitflags
        PROVE  ~ Enum!TokenEquals(t, fields[j].alias)
    <3>1. fields[j].alias.id # fields[i].id
      BY <2>2 DEF EnumInv, Numbered
    <3> QED
      BY <3>1 DEF Enum!TokenEquals
  <2> QED
    BY <1>1, <2>1, <2>2 DEF Enum!Matches
<1>4. Enum!Min(Enum!Matches(t)) = i /\ Enum!Matches(t) # {}
  BY <1>1, <1>3, OnlyOneIsLeast
<1> DEFINE r == [trap |-> FALSE, value |-> W]
<1>5. r.trap = FALSE /\ r.value = W
  OBVIOUS
<1> HIDE DEF r
<1>6. Enum!ParseToken(r, t)
        = [trap |-> FALSE, value |-> fields[i].value \cup (IF bitflags THEN W ELSE {})]
  BY <1>2, <1>4, <1>5 DEF Enum!ParseToken
<1> QED
  BY <1>6 DEF r

LEMMA AliasIsRead ==
  ASSUME EnumInv, ~ bitflags, NEW i \in 1 .. Len(fields), fields[i].alias # Enum!NoAlias, NEW W
  PROVE  Enum!ParseToken([trap |-> FALSE, value |-> W], fields[i].alias)
           = [trap |-> FALSE, value |-> fields[i].value]
<1>1. PICK t : t = fields[i].alias
  OBVIOUS
<1>2. t \in Enum!Tokens /\ i \in Nat /\ DOMAIN fields = 1 .. Len(fields)
  BY <1>1, FieldIs DEF Declarations
<1>3. Numbered
  BY DEF EnumInv
<1>4. t.id # 0 /\ t.id # Enum!LastName
  <2>1. t.id \in Ids \cup {Enum!NoneName, Enum!LastName}
    BY <1>2 DEF Enum!Tokens
  <2>2. t.id # 0
    BY <2>1, NamesAre
  <2>3. t.id \in Ids \cup {0}
    BY <1>1, <1>3 DEF Numbered
  <2> QED
    BY <2>2, <2>3, NamesAre
<1>5. Enum!Matches(t) = {i}
  <2>1. ASSUME NEW j \in 1 .. Len(fields)
        PROVE  ~ Enum!TokenEqualsEnumName(t, fields[j].id)
    <3>1. fields[i].alias.id # fields[j].id
      BY <1>3 DEF Numbered
    <3> QED
      BY <1>1, <1>2, <3>1, TokensAre
  <2>2. ASSUME NEW j \in 1 .. Len(fields)
        PROVE  Enum!TokenEquals(t, fields[j].alias) <=> j = i
    <3>1. fields[i].alias = fields[j].alias /\ fields[i].alias.id # 0 => i = j
      BY <1>3 DEF Numbered
    <3> QED
      BY <1>1, <1>4, <3>1 DEF Enum!TokenEquals
  <2> QED
    BY <1>2, <2>1, <2>2 DEF Enum!Matches
<1>6. Enum!Min(Enum!Matches(t)) = i /\ Enum!Matches(t) # {}
  BY <1>2, <1>5, OnlyOneIsLeast
<1>7. ~ Enum!TokenEqualsEnumName(t, Enum!LastName)
  BY <1>2, <1>4, TokensAre
<1> DEFINE r == [trap |-> FALSE, value |-> W]
<1>8. r.trap = FALSE /\ r.value = W
  OBVIOUS
<1> HIDE DEF r
<1>9. Enum!ParseToken(r, t) = [trap |-> FALSE, value |-> fields[i].value \cup {}]
  BY <1>6, <1>7, <1>8 DEF Enum!ParseToken
<1> QED
  BY <1>1, <1>9 DEF r

LEMMA LastIsRead ==
  ASSUME ~ bitflags, NEW t \in Enum!Tokens, t.id = Enum!LastName, NEW W
  PROVE  Enum!ParseToken([trap |-> FALSE, value |-> W], t)
           = [trap |-> FALSE, value |-> {Len(fields)}]
<1>1. Enum!TokenEqualsEnumName(t, Enum!LastName)
  BY TokensAre
<1> QED
  BY <1>1 DEF Enum!ParseToken

LEMMA NoneIsRead ==
  ASSUME bitflags, NEW t \in Enum!Tokens, t.id = Enum!NoneName, NEW W
  PROVE  Enum!ParseToken([trap |-> FALSE, value |-> W], t) = [trap |-> FALSE, value |-> W]
<1>1. Enum!TokenEqualsEnumName(t, Enum!NoneName)
  BY TokensAre
<1> QED
  BY <1>1 DEF Enum!ParseToken

LEMMA ParseUnrolls ==
  ASSUME NEW n \in Nat, NEW q, DOMAIN q = 1 .. n
  PROVE  \E g : /\ EnumTurns(g, [trap |-> FALSE, value |-> {}], q, n, FALSE)
                /\ Enum!Parse(q) = g[n]
<1>1. PICK w \in BOOLEAN : w = FALSE
  OBVIOUS
<1>2. PICK x : x = [trap |-> FALSE, value |-> {}]
  OBVIOUS
<1>3. PICK g : EnumTurns(g, x, q, n, w) /\ (~ w => Enum!FoldLeft(Enum!ParseToken, x, q) = g[n])
  BY EnumTurnsUnroll
<1> QED
  BY <1>1, <1>2, <1>3 DEF Enum!Parse

(* Texts of one token and of two.                                           *)
LEMMA ShortTexts ==
  ASSUME NEW t, NEW u
  PROVE  LET r == [trap |-> FALSE, value |-> {}]
         IN /\ Enum!Parse(<<t>>) = Enum!ParseToken(r, t)
            /\ Enum!Parse(<<t, u>>) = Enum!ParseToken(Enum!ParseToken(r, t), u)
<1> DEFINE r == [trap |-> FALSE, value |-> {}]
<1>1. Enum!Parse(<<t>>) = Enum!ParseToken(r, t)
  <2>1. DOMAIN <<t>> = 1 .. 1 /\ <<t>>[1] = t /\ 1 \in Nat
    OBVIOUS
  <2>2. PICK g : EnumTurns(g, r, <<t>>, 1, FALSE) /\ Enum!Parse(<<t>>) = g[1]
    BY <2>1, ParseUnrolls, Zenon
  <2>3. g[0] = r /\ g[1] = Enum!ParseToken(g[0], t)
    BY <2>1, <2>2 DEF EnumTurns, EnumTurn
  <2> QED
    BY <2>2, <2>3
<1>2. Enum!Parse(<<t, u>>) = Enum!ParseToken(Enum!ParseToken(r, t), u)
  <2>1. DOMAIN <<t, u>> = 1 .. 2 /\ <<t, u>>[1] = t /\ <<t, u>>[2] = u /\ 2 \in Nat
    OBVIOUS
  <2>2. PICK g : EnumTurns(g, r, <<t, u>>, 2, FALSE) /\ Enum!Parse(<<t, u>>) = g[2]
    BY <2>1, ParseUnrolls, Zenon
  <2>3. g[0] = r /\ g[1] = Enum!ParseToken(g[0], t) /\ g[2] = Enum!ParseToken(g[1], u)
    BY <2>1, <2>2 DEF EnumTurns, EnumTurn
  <2> QED
    BY <2>2, <2>3
<1> QED
  BY <1>1, <1>2

-----------------------------------------------------------------------------
(* Names of enumerations: numbers.                                          *)

LEMMA NumbersAreRead ==
  ASSUME EnumInv, ~ bitflags, NEW n \in 0 .. Len(fields)
  PROVE  /\ Enum!StrNumber(n) \in Enum!Tokens
         /\ \A W : \A t \in Enum!Tokens : t.id = Enum!StrNumber(n).id =>
              Enum!ParseToken([trap |-> FALSE, value |-> W], t) = [trap |-> FALSE, value |-> {n}]
<1>1. Len(fields) \in Nat /\ Numbered
  BY DEF EnumInv
<1>2. CASE n = Len(fields)
  <2>1. Enum!StrNumber(n) = Enum!FullName(Enum!LastName)
    BY <1>1, <1>2 DEF Enum!StrNumber
  <2>2. Enum!StrNumber(n) \in Enum!Tokens /\ Enum!StrNumber(n).id = Enum!LastName
    BY <2>1 DEF Enum!FullName, Enum!Tokens
  <2>3. ASSUME NEW t \in Enum!Tokens, NEW W, t.id = Enum!StrNumber(n).id
        PROVE  Enum!ParseToken([trap |-> FALSE, value |-> W], t) = [trap |-> FALSE, value |-> {n}]
    BY <1>2, <2>2, <2>3, LastIsRead
  <2> QED
    BY <2>2, <2>3
<1>3. CASE n < Len(fields)
  <2>1. PICK i \in 1 .. Len(fields) : i = n + 1
    BY <1>1, <1>3
  <2>2. Enum!StrNumber(n) = Enum!FullName(fields[i].id)
    BY <1>1, <1>3, <2>1 DEF Enum!StrNumber
  <2>3. Enum!StrNumber(n) \in Enum!Tokens /\ Enum!StrNumber(n).id = fields[i].id
    BY <2>2, FieldIs
  <2>4. fields[i].value = {n}
    <3>1. fields[i].value = {i - 1} /\ i - 1 = n
      BY <1>1, <2>1 DEF Numbered
    <3> QED
      BY <3>1
  <2>5. ASSUME NEW t \in Enum!Tokens, NEW W, t.id = Enum!StrNumber(n).id
        PROVE  Enum!ParseToken([trap |-> FALSE, value |-> W], t) = [trap |-> FALSE, value |-> {n}]
    <3>1. Enum!ParseToken([trap |-> FALSE, value |-> W], t)
            = [trap |-> FALSE, value |-> fields[i].value \cup (IF bitflags THEN W ELSE {})]
      BY <2>3, <2>5, NameIsRead
    <3>2. fields[i].value \cup (IF bitflags THEN W ELSE {}) = {n}
      BY <2>4
    <3> QED
      BY <3>1, <3>2
  <2> QED
    BY <2>3, <2>5
<1>4. n < Len(fields) \/ n = Len(fields)
  BY <1>1
<1> QED
  BY <1>2, <1>3, <1>4, Zenon

LEMMA ShortenedOne ==
  ASSUME NEW t \in Enum!Tokens
  PROVE  \E u \in Enum!Tokens : u.id = t.id /\ Enum!Shortened(<<t>>) = <<u>>
<1>1. PICK u : u = [t EXCEPT !.full = FALSE]
  OBVIOUS
<1>2. u \in Enum!Tokens /\ u.id = t.id
  BY <1>1 DEF Enum!Tokens
<1>3. PICK q : q = <<t>>
  OBVIOUS
<1>4. DOMAIN q = {1} /\ q[1] = t
  BY <1>3
<1>5. Enum!Shortened(q) = [i \in {1} |-> [q[i] EXCEPT !.full = FALSE]]
  BY <1>4 DEF Enum!Shortened
<1>6. \A i \in {1} : [q[i] EXCEPT !.full = FALSE] = u
  BY <1>1, <1>4
<1>7. Enum!Shortened(q) = [i \in {1} |-> u]
  BY <1>5, <1>6
<1>8. [i \in {1} |-> u] = <<u>>
  <2>1. {1} = 1 .. 1
    OBVIOUS
  <2> QED
    BY <2>1
<1> QED
  BY <1>2, <1>3, <1>7, <1>8

LEMMA NumbersAlwaysComeBack ==
  ASSUME EnumInv
  PROVE  Enum!NumbersComeBack
<1> SUFFICES ASSUME ~ bitflags, NEW n \in 0 .. Len(fields)
             PROVE  LET name == Enum!StrNumber(n)
                        read == [trap |-> FALSE, value |-> {n}]
                    IN /\ Enum!Parse(<<name>>) = read
                       /\ Enum!Parse(Enum!Shortened(<<name>>)) = read
                       /\ n < Len(fields) /\ fields[n + 1].alias # Enum!NoAlias
                            => Enum!Parse(<<fields[n + 1].alias>>) = read
                       /\ \A m \in 0 .. Len(fields) :
                            Enum!Parse(<<Enum!StrNumber(m), name>>) = read
  BY DEF Enum!NumbersComeBack
<1> DEFINE name == Enum!StrNumber(n)
<1> DEFINE read == [trap |-> FALSE, value |-> {n}]
<1>1. /\ name \in Enum!Tokens
      /\ \A W : \A t \in Enum!Tokens : t.id = name.id =>
           Enum!ParseToken([trap |-> FALSE, value |-> W], t) = read
  BY NumbersAreRead
<1>2. Enum!Parse(<<name>>) = read
  BY <1>1, ShortTexts
<1>3. Enum!Parse(Enum!Shortened(<<name>>)) = read
  <2>1. PICK u \in Enum!Tokens : u.id = name.id /\ Enum!Shortened(<<name>>) = <<u>>
    BY <1>1, ShortenedOne
  <2>2. Enum!ParseToken([trap |-> FALSE, value |-> {}], u) = read
    BY <1>1, <2>1, Zenon
  <2>3. Enum!Parse(<<u>>) = Enum!ParseToken([trap |-> FALSE, value |-> {}], u)
    BY ShortTexts, Zenon
  <2> QED
    BY <2>1, <2>2, <2>3
<1>4. ASSUME n < Len(fields), fields[n + 1].alias # Enum!NoAlias
      PROVE  Enum!Parse(<<fields[n + 1].alias>>) = read
  <2>1. Len(fields) \in Nat
    BY DEF EnumInv
  <2>2. PICK i \in 1 .. Len(fields) : i = n + 1
    BY <1>4, <2>1
  <2>3. fields[i].value = {n}
    <3>1. fields[i].value = {i - 1} /\ i - 1 = n
      BY <2>1, <2>2 DEF EnumInv, Numbered
    <3> QED
      BY <3>1
  <2>4. fields[i].alias # Enum!NoAlias
    BY <1>4, <2>2
  <2>5. Enum!ParseToken([trap |-> FALSE, value |-> {}], fields[i].alias) = read
    BY <2>3, <2>4, AliasIsRead
  <2> QED
    BY <2>2, <2>5, ShortTexts
<1>5. ASSUME NEW m \in 0 .. Len(fields)
      PROVE  Enum!Parse(<<Enum!StrNumber(m), name>>) = read
  <2>1. PICK t \in Enum!Tokens : t = Enum!StrNumber(m)
    BY NumbersAreRead
  <2>2. Enum!ParseToken([trap |-> FALSE, value |-> {}], t) = [trap |-> FALSE, value |-> {m}]
    BY <2>1, NumbersAreRead
  <2>3. Enum!ParseToken([trap |-> FALSE, value |-> {m}], name) = read
    BY <1>1
  <2> QED
    BY <2>1, <2>2, <2>3, ShortTexts
<1> QED
  BY <1>2, <1>3, <1>4, <1>5

-----------------------------------------------------------------------------
(* Names of enumerations: a text of flags.                                  *)

(* The flags of the first k names, where own says whose name each one is.   *)
ReadOf(own, k) == UNION {fields[own[j]].value : j \in 1 .. k}

LEMMA OneMoreRead ==
  ASSUME NEW own, NEW k \in Nat, k # 0
  PROVE  ReadOf(own, k) = fields[own[k]].value \cup ReadOf(own, k - 1)
<1>1. \A j : j \in 1 .. k <=> j = k \/ j \in 1 .. k - 1
  OBVIOUS
<1> QED
  BY <1>1 DEF ReadOf

LEMMA TextIsRead ==
  ASSUME EnumInv, bitflags, NEW n \in Nat, NEW q, DOMAIN q = 1 .. n, NEW own,
         \A k \in 1 .. n : /\ own[k] \in 1 .. Len(fields) /\ q[k] \in Enum!Tokens
                           /\ q[k].id = fields[own[k]].id
  PROVE  Enum!Parse(q) = [trap |-> FALSE, value |-> ReadOf(own, n)]
<1>1. PICK g : /\ EnumTurns(g, [trap |-> FALSE, value |-> {}], q, n, FALSE)
               /\ Enum!Parse(q) = g[n]
  BY ParseUnrolls
<1>2. g[0] = [trap |-> FALSE, value |-> {}]
  BY <1>1 DEF EnumTurns
<1>3. \A k \in 1 .. n : g[k] = Enum!ParseToken(g[k - 1], q[k])
  BY <1>1 DEF EnumTurns, EnumTurn
<1> DEFINE Wrong == {k \in 0 .. n : g[k] # [trap |-> FALSE, value |-> ReadOf(own, k)]}
<1>4. Wrong = {}
  <2>1. SUFFICES ASSUME Wrong # {} PROVE FALSE
    OBVIOUS
  <2>2. Wrong \in SUBSET Nat
    OBVIOUS
  <2>3. PICK k \in Wrong : \A j \in Wrong : k <= j
    BY <2>1, <2>2, LeastExists
  <2>4. k # 0
    <3>1. ReadOf(own, 0) = {}
      BY DEF ReadOf
    <3> QED
      BY <1>2, <2>3, <3>1
  <2>5. k \in 1 .. n /\ k - 1 \in 0 .. n /\ ~ (k <= k - 1) /\ k \in Nat
    BY <2>3, <2>4
  <2>6. k - 1 \notin Wrong
    BY <2>3, <2>5
  <2>7. g[k - 1] = [trap |-> FALSE, value |-> ReadOf(own, k - 1)]
    BY <2>5, <2>6
  <2>8. PICK i \in 1 .. Len(fields) : i = own[k]
    BY <2>5
  <2>9. PICK t \in Enum!Tokens : t = q[k]
    BY <2>5
  <2>10. t.id = fields[i].id
    BY <2>5, <2>8, <2>9
  <2>11. Enum!ParseToken([trap |-> FALSE, value |-> ReadOf(own, k - 1)], t)
           = [trap |-> FALSE, value |-> fields[i].value \cup (IF bitflags THEN ReadOf(own, k - 1) ELSE {})]
    BY <2>10, NameIsRead
  <2>12. fields[i].value \cup (IF bitflags THEN ReadOf(own, k - 1) ELSE {}) = ReadOf(own, k)
    BY <2>4, <2>5, <2>8, OneMoreRead
  <2>13. g[k] = [trap |-> FALSE, value |-> ReadOf(own, k)]
    BY <1>3, <2>5, <2>7, <2>9, <2>11, <2>12
  <2> QED
    BY <2>3, <2>13
<1>5. n \in 0 .. n
  OBVIOUS
<1>6. g[n] = [trap |-> FALSE, value |-> ReadOf(own, n)]
  BY <1>4, <1>5
<1> QED
  BY <1>1, <1>6

(* Names may be shortened: they are read the same.                          *)
LEMMA ShortenedText ==
  ASSUME NEW q \in Seq(Enum!Tokens)
  PROVE  /\ DOMAIN Enum!Shortened(q) = 1 .. Len(q)
         /\ \A k \in 1 .. Len(q) : /\ Enum!Shortened(q)[k] \in Enum!Tokens
                                   /\ Enum!Shortened(q)[k].id = q[k].id
<1>1. DOMAIN q = 1 .. Len(q)
  OBVIOUS
<1>2. DOMAIN Enum!Shortened(q) = 1 .. Len(q)
  BY <1>1 DEF Enum!Shortened
<1>3. ASSUME NEW k \in 1 .. Len(q)
      PROVE  /\ Enum!Shortened(q)[k] \in Enum!Tokens
             /\ Enum!Shortened(q)[k].id = q[k].id
  <2>1. PICK t \in Enum!Tokens : t = q[k]
    OBVIOUS
  <2>2. Enum!Shortened(q)[k] = [t EXCEPT !.full = FALSE]
    BY <1>1, <2>1 DEF Enum!Shortened
  <2>3. [t EXCEPT !.full = FALSE] \in Enum!Tokens /\ [t EXCEPT !.full = FALSE].id = t.id
    BY DEF Enum!Tokens
  <2> QED
    BY <2>1, <2>2, <2>3
<1> QED
  BY <1>2, <1>3

-----------------------------------------------------------------------------
(* Names of enumerations: what str writes of flags.                         *)

IsNamed(q, j) == \E k \in 1 .. Len(q) : q[k] = Enum!FullName(fields[j].id)

(* What is named is of v and in nothing else that is named, and is not left. *)
NamedOnce(q, rest, v) ==
  \A j \in 1 .. Len(fields) : IsNamed(q, j) =>
    /\ fields[j].value \subseteq v /\ fields[j].value \cap rest = {}
    /\ \A l \in 1 .. Len(fields) :
         IsNamed(q, l) /\ j # l => fields[j].value \cap fields[l].value = {}

(* What is not left is named.                                               *)
NamedAll(q, rest, v) ==
  \A b \in v : b \in rest \/ \E j \in 1 .. Len(fields) : IsNamed(q, j) /\ b \in fields[j].value

(* No field up to i is of what is left.                                     *)
NoneFits(rest, i) == \A j \in 1 .. i : ~ (fields[j].value \subseteq rest)

OnlyNames(q, i) ==
  q \in Seq(Enum!Tokens) /\ \A k \in 1 .. Len(q) : \E j \in 1 .. i : q[k] = Enum!FullName(fields[j].id)

(* The text s of v after i fields.                                          *)
WrittenTo(s, v, i) ==
  /\ s.left \in SUBSET v /\ s.len \in Nat
  /\ OnlyNames(s.names, i) /\ NoneFits(s.left, i)
  /\ NamedOnce(s.names, s.left, v) /\ NamedAll(s.names, s.left, v)
  /\ s.left = v \/ s.cap = s.len + 1

LEMMA SpelledNot ==
  ASSUME EnumInv, bitflags, NEW i \in 1 .. Len(fields), NEW s, NEW v, WrittenTo(s, v, i - 1),
         ~ (s.left # {} /\ s.left \cap fields[i].value = fields[i].value)
  PROVE  WrittenTo(Enum!Spelled(s, fields[i]), v, i)
<1>1. Enum!Spelled(s, fields[i]) = s
  BY DEF Enum!Spelled
<1>2. PICK c \in Nat : BitsTo(c)
  BY DEF EnumInv
<1>3. fields[i].value # {} /\ i \in Nat
  BY <1>2, FieldIs DEF BitsTo
<1>4. ~ (fields[i].value \subseteq s.left)
  BY <1>3
<1>5. \A j : j \in 1 .. i => j \in 1 .. i - 1 \/ j = i
  BY <1>3
<1>6. NoneFits(s.left, i)
  BY <1>4, <1>5 DEF WrittenTo, NoneFits
<1>7. \A j : j \in 1 .. i - 1 => j \in 1 .. i
  BY <1>3
<1>8. OnlyNames(s.names, i)
  BY <1>7 DEF WrittenTo, OnlyNames
<1> QED
  BY <1>1, <1>6, <1>8 DEF WrittenTo

LEMMA NamedMore ==
  ASSUME EnumInv, NEW i \in 1 .. Len(fields), NEW q \in Seq(Enum!Tokens),
         NEW j \in 1 .. Len(fields)
  PROVE  IsNamed(Append(q, Enum!FullName(fields[i].id)), j) <=> IsNamed(q, j) \/ j = i
<1>0. PICK p : p = Append(q, Enum!FullName(fields[i].id))
  OBVIOUS
<1>1. /\ Enum!FullName(fields[i].id) \in Enum!Tokens
      /\ Enum!FullName(fields[i].id).id = fields[i].id
      /\ Enum!FullName(fields[j].id).id = fields[j].id
  BY FieldIs
<1>2. PICK t \in Enum!Tokens : t = Enum!FullName(fields[i].id)
  BY <1>1
<1>3. /\ Len(q) \in Nat /\ Len(p) = Len(q) + 1 /\ p[Len(p)] = t
      /\ \A k \in 1 .. Len(q) : p[k] = q[k]
  BY <1>0, <1>2
<1>4. /\ \A k \in 1 .. Len(p) : k \in 1 .. Len(q) \/ k = Len(p)
      /\ \A k \in 1 .. Len(q) : k \in 1 .. Len(p)
      /\ Len(p) \in 1 .. Len(p)
  BY <1>3
<1>5. t = Enum!FullName(fields[j].id) <=> j = i
  <2>1. t = Enum!FullName(fields[j].id) => fields[i].id = fields[j].id
    BY <1>1, <1>2
  <2>2. fields[i].id = fields[j].id => i = j
    BY DEF EnumInv
  <2> QED
    BY <1>2, <2>1, <2>2
<1>6. IsNamed(p, j) => IsNamed(q, j) \/ j = i
  <2>1. SUFFICES ASSUME NEW k \in 1 .. Len(p), p[k] = Enum!FullName(fields[j].id)
                 PROVE  IsNamed(q, j) \/ j = i
    BY DEF IsNamed
  <2>2. CASE k \in 1 .. Len(q)
    BY <1>3, <2>1, <2>2 DEF IsNamed
  <2>3. CASE k = Len(p)
    BY <1>3, <1>5, <2>1, <2>3
  <2> QED
    BY <1>4, <2>2, <2>3
<1>7. IsNamed(q, j) => IsNamed(p, j)
  BY <1>3, <1>4 DEF IsNamed
<1>8. j = i => IsNamed(p, j)
  BY <1>3, <1>4, <1>5 DEF IsNamed
<1> QED
  BY <1>0, <1>6, <1>7, <1>8

LEMMA SpelledIs ==
  ASSUME EnumInv, bitflags, NEW i \in 1 .. Len(fields), NEW s, NEW v, WrittenTo(s, v, i - 1),
         s.left # {} /\ s.left \cap fields[i].value = fields[i].value
  PROVE  WrittenTo(Enum!Spelled(s, fields[i]), v, i)
<1>1. PICK t : t = Enum!Spelled(s, fields[i])
  OBVIOUS
<1>2. PICK q \in Seq(Enum!Tokens) : q = s.names
  BY DEF WrittenTo, OnlyNames
<1>3. PICK x : x = fields[i].value
  OBVIOUS
<1>4. PICK c \in Nat : BitsTo(c)
  BY DEF EnumInv
<1>5. x # {} /\ x \subseteq s.left /\ s.left \subseteq v /\ i \in Nat
  BY <1>3, <1>4, FieldIs DEF BitsTo, WrittenTo
<1>6. PICK p : p = Append(q, Enum!FullName(fields[i].id))
  OBVIOUS
<1>7. /\ t.left = s.left \ x /\ t.names = p /\ t.cap = t.len + 1
      /\ t.len = s.len + (IF q = <<>> THEN 0 ELSE 1) + PrefixLen + Enum!NameLength(fields[i].id)
  BY <1>1, <1>2, <1>3, <1>6 DEF Enum!Spelled
<1>8. t.len \in Nat
  <2>1. Enum!NameLength(fields[i].id) \in Nat
    BY FieldIs, LengthsAre
  <2>2. s.len \in Nat /\ PrefixLen \in Nat
    BY NamesAre DEF WrittenTo
  <2> QED
    BY <1>7, <2>1, <2>2
<1>9. \A j \in 1 .. Len(fields) : IsNamed(p, j) <=> IsNamed(q, j) \/ j = i
  <2> TAKE j \in 1 .. Len(fields)
  <2>1. IsNamed(Append(q, Enum!FullName(fields[i].id)), j) <=> IsNamed(q, j) \/ j = i
    BY NamedMore
  <2> QED
    BY <1>6, <2>1
<1>10. NamedOnce(q, s.left, v) /\ NamedAll(q, s.left, v)
  BY <1>2 DEF WrittenTo
<1>11. ASSUME NEW j \in 1 .. Len(fields), IsNamed(p, j)
       PROVE  /\ fields[j].value \subseteq v /\ fields[j].value \cap t.left = {}
              /\ \A l \in 1 .. Len(fields) :
                   IsNamed(p, l) /\ j # l => fields[j].value \cap fields[l].value = {}
  <2>1. CASE IsNamed(q, j)
    <3>1. fields[j].value \subseteq v /\ fields[j].value \cap s.left = {}
      BY <1>10, <2>1 DEF NamedOnce
    <3>2. ASSUME NEW l \in 1 .. Len(fields), IsNamed(p, l), j # l
          PROVE  fields[j].value \cap fields[l].value = {}
      <4>1. CASE IsNamed(q, l)
        BY <1>10, <2>1, <3>2, <4>1 DEF NamedOnce
      <4>2. CASE l = i
        BY <1>3, <1>5, <3>1, <4>2
      <4> QED
        BY <1>9, <3>2, <4>1, <4>2
    <3> QED
      BY <1>7, <3>1, <3>2
  <2>2. CASE j = i
    <3>1. fields[j].value \subseteq v /\ fields[j].value \cap t.left = {}
      BY <1>3, <1>5, <1>7, <2>2
    <3>2. ASSUME NEW l \in 1 .. Len(fields), IsNamed(p, l), j # l
          PROVE  fields[j].value \cap fields[l].value = {}
      <4>1. IsNamed(q, l)
        BY <1>9, <2>2, <3>2
      <4>2. fields[l].value \cap s.left = {}
        BY <1>10, <4>1 DEF NamedOnce
      <4> QED
        BY <1>3, <1>5, <2>2, <4>2
    <3> QED
      BY <3>1, <3>2
  <2> QED
    BY <1>9, <1>11, <2>1, <2>2
<1>12. NamedOnce(p, t.left, v)
  BY <1>11 DEF NamedOnce
<1>13. NamedAll(p, t.left, v)
  <2>1. SUFFICES ASSUME NEW b \in v, b \notin t.left
                 PROVE  \E j \in 1 .. Len(fields) : IsNamed(p, j) /\ b \in fields[j].value
    BY DEF NamedAll
  <2>2. CASE b \in x
    BY <1>3, <1>9, <2>2
  <2>3. CASE b \notin x
    <3>1. b \notin s.left
      BY <1>7, <2>1, <2>3
    <3>2. PICK j \in 1 .. Len(fields) : IsNamed(q, j) /\ b \in fields[j].value
      BY <1>10, <3>1 DEF NamedAll
    <3> QED
      BY <1>9, <3>2
  <2> QED
    BY <2>2, <2>3
<1>14. \A j : j \in 1 .. i => j \in 1 .. i - 1 \/ j = i
  BY <1>5
<1>15. NoneFits(t.left, i)
  <2>1. SUFFICES ASSUME NEW j \in 1 .. i PROVE ~ (fields[j].value \subseteq t.left)
    BY DEF NoneFits
  <2>2. CASE j = i
    BY <1>3, <1>5, <1>7, <2>2
  <2>3. CASE j \in 1 .. i - 1
    <3>1. ~ (fields[j].value \subseteq s.left)
      BY <2>3 DEF WrittenTo, NoneFits
    <3> QED
      BY <1>7, <3>1
  <2> QED
    BY <1>14, <2>2, <2>3
<1>16. OnlyNames(p, i)
  <2>1. PICK u \in Enum!Tokens : u = Enum!FullName(fields[i].id)
    BY FieldIs
  <2>2. p \in Seq(Enum!Tokens) /\ Len(p) = Len(q) + 1 /\ p[Len(p)] = u /\ Len(q) \in Nat
    BY <1>6, <2>1
  <2>3. \A k \in 1 .. Len(q) : p[k] = q[k]
    BY <1>6, <2>1
  <2>4. ASSUME NEW k \in 1 .. Len(p)
        PROVE  \E j \in 1 .. i : p[k] = Enum!FullName(fields[j].id)
    <3>1. CASE k \in 1 .. Len(q)
      <4>1. PICK j \in 1 .. i - 1 : q[k] = Enum!FullName(fields[j].id)
        BY <1>2, <3>1 DEF WrittenTo, OnlyNames
      <4>2. j \in 1 .. i
        BY <1>5
      <4> QED
        BY <2>3, <3>1, <4>1, <4>2
    <3>2. CASE k = Len(p)
      <4>1. i \in 1 .. i
        BY <1>5
      <4> QED
        BY <2>1, <2>2, <3>2, <4>1
    <3>3. k \in 1 .. Len(q) \/ k = Len(p)
      BY <2>2
    <3> QED
      BY <3>1, <3>2, <3>3
  <2> QED
    BY <2>2, <2>4 DEF OnlyNames
<1>17. t.left \in SUBSET v
  BY <1>5, <1>7
<1>18. WrittenTo(t, v, i)
  BY <1>7, <1>8, <1>12, <1>13, <1>15, <1>16, <1>17 DEF WrittenTo
<1> QED
  BY <1>1, <1>18

LEMMA StrUnrolls ==
  ASSUME NEW n \in Nat, DOMAIN fields = 1 .. n, NEW x
  PROVE  \E g : /\ EnumTurns(g, x, fields, n, TRUE)
                /\ Enum!FoldLeft(Enum!Spelled, x, fields) = g[n]
<1>1. PICK w \in BOOLEAN : w = TRUE
  OBVIOUS
<1>2. PICK g : EnumTurns(g, x, fields, n, w) /\ (w => Enum!FoldLeft(Enum!Spelled, x, fields) = g[n])
  BY EnumTurnsUnroll
<1> QED
  BY <1>1, <1>2

LEMMA SpelledWhole ==
  ASSUME EnumInv, bitflags, NEW v, NEW x, x = [left |-> v, names |-> <<>>, len |-> 0, cap |-> 0]
  PROVE  WrittenTo(Enum!FoldLeft(Enum!Spelled, x, fields), v, Len(fields))
<1>1. PICK n \in Nat : n = Len(fields)
  BY DEF EnumInv
<1>2. DOMAIN fields = 1 .. n
  BY <1>1 DEF EnumInv
<1>3. PICK g : /\ EnumTurns(g, x, fields, n, TRUE)
               /\ Enum!FoldLeft(Enum!Spelled, x, fields) = g[n]
  BY <1>2, StrUnrolls, Zenon
<1>0. g[0] = x /\ \A i \in 1 .. n : g[i] = Enum!Spelled(g[i - 1], fields[i])
  BY <1>3 DEF EnumTurns, EnumTurn
<1>4. WrittenTo(x, v, 0)
  <2>1. x.left = v /\ x.names = <<>> /\ x.len = 0
    OBVIOUS
  <2>2. PICK q : q = x.names
    OBVIOUS
  <2>3. q \in Seq(Enum!Tokens) /\ 1 .. Len(q) = {} /\ 1 .. 0 = {}
    BY <2>1, <2>2
  <2>4. OnlyNames(q, 0)
    BY <2>3 DEF OnlyNames
  <2>5. \A j : ~ IsNamed(q, j)
    BY <2>3 DEF IsNamed
  <2>6. NamedOnce(q, v, v) /\ NamedAll(q, v, v) /\ NoneFits(v, 0)
    BY <2>3, <2>5 DEF NamedOnce, NamedAll, NoneFits
  <2> QED
    BY <2>1, <2>2, <2>4, <2>6 DEF WrittenTo
<1> DEFINE Wrong == {i \in 0 .. n : ~ WrittenTo(g[i], v, i)}
<1>5. Wrong = {}
  <2>1. SUFFICES ASSUME Wrong # {} PROVE FALSE
    OBVIOUS
  <2>2. Wrong \in SUBSET Nat
    OBVIOUS
  <2>3. PICK i \in Wrong : \A j \in Wrong : i <= j
    BY <2>1, <2>2, LeastExists
  <2>4. i # 0
    BY <1>0, <1>4, <2>3
  <2>5. i \in 1 .. n /\ i - 1 \in 0 .. n /\ ~ (i <= i - 1)
    BY <2>3, <2>4
  <2>6. WrittenTo(g[i - 1], v, i - 1)
    BY <2>3, <2>5
  <2>7. i \in 1 .. Len(fields)
    BY <1>1, <2>5
  <2>8. PICK s : s = g[i - 1]
    OBVIOUS
  <2>9. WrittenTo(s, v, i - 1)
    BY <2>6, <2>8
  <2>10. WrittenTo(Enum!Spelled(s, fields[i]), v, i)
    <3>1. CASE s.left # {} /\ s.left \cap fields[i].value = fields[i].value
      BY <2>7, <2>9, <3>1, SpelledIs, Zenon
    <3>2. CASE ~ (s.left # {} /\ s.left \cap fields[i].value = fields[i].value)
      BY <2>7, <2>9, <3>2, SpelledNot, Zenon
    <3> QED
      BY <3>1, <3>2, Zenon
  <2>11. g[i] = Enum!Spelled(s, fields[i])
    BY <1>0, <2>5, <2>8
  <2> QED
    BY <2>3, <2>10, <2>11
<1>6. n \in 0 .. n
  OBVIOUS
<1>7. WrittenTo(g[n], v, n)
  BY <1>5, <1>6
<1> QED
  BY <1>1, <1>3, <1>7

LEMMA LeastOfSome ==
  ASSUME NEW W \in SUBSET Nat, W # {}
  PROVE  Enum!Min(W) \in W
<1>1. PICK x \in W : \A y \in W : x <= y
  BY LeastExists
<1> QED
  BY <1>1 DEF Enum!Min

LEMMA StrIsWritten ==
  ASSUME EnumInv, bitflags, NEW v, v # {}
  PROVE  WrittenTo(Enum!Str(v), v, Len(fields))
<1> DEFINE exact == {i \in DOMAIN fields : fields[i].value = v}
<1>1. DOMAIN fields = 1 .. Len(fields) /\ Len(fields) \in Nat
  BY DEF EnumInv
<1>2. CASE exact = {}
  <2>1. PICK x : x = [left |-> v, names |-> <<>>, len |-> 0, cap |-> 0]
    OBVIOUS
  <2>2. Enum!Str(v) = Enum!FoldLeft(Enum!Spelled, x, fields)
    BY <1>2, <2>1 DEF Enum!Str
  <2> QED
    BY <2>1, <2>2, SpelledWhole, Zenon
<1>3. CASE exact # {}
  <2>1. exact \in SUBSET Nat
    BY <1>1
  <2>2. PICK e \in exact : e = Enum!Min(exact)
    BY <1>3, <2>1, LeastOfSome
  <2>3. e \in 1 .. Len(fields) /\ fields[e].value = v
    BY <1>1
  <2>4. PICK k \in Nat : k = PrefixLen + Enum!NameLength(fields[e].id)
    <3>1. Enum!NameLength(fields[e].id) \in Nat
      BY <2>3, FieldIs, LengthsAre
    <3> QED
      BY <3>1, NamesAre
  <2>5. PICK p : p = Append(<<>>, Enum!FullName(fields[e].id))
    OBVIOUS
  <2>6. Enum!Str(v) = [left |-> {}, names |-> p, len |-> k, cap |-> k + 1]
    <3>1. Enum!Str(v) = Enum!Duplicate(Enum!FullName(fields[e].id), k)
      BY <1>3, <2>2, <2>4 DEF Enum!Str
    <3>2. p = <<Enum!FullName(fields[e].id)>>
      BY <2>5
    <3> QED
      BY <3>1, <3>2 DEF Enum!Duplicate
  <2>7. <<>> \in Seq(Enum!Tokens) /\ \A j : ~ IsNamed(<<>>, j)
    BY DEF IsNamed
  <2>8. \A j \in 1 .. Len(fields) : IsNamed(p, j) <=> j = e
    <3> TAKE j \in 1 .. Len(fields)
    <3>1. IsNamed(Append(<<>>, Enum!FullName(fields[e].id)), j) <=> IsNamed(<<>>, j) \/ j = e
      BY <2>3, <2>7, NamedMore
    <3> QED
      BY <2>5, <2>7, <3>1
  <2>9. OnlyNames(p, Len(fields))
    <3>1. Enum!FullName(fields[e].id) \in Enum!Tokens
      BY <2>3, FieldIs
    <3>2. p \in Seq(Enum!Tokens) /\ Len(p) = 1 /\ p[1] = Enum!FullName(fields[e].id)
      BY <2>5, <3>1
    <3> QED
      BY <2>3, <3>2 DEF OnlyNames
  <2>10. NamedOnce(p, {}, v) /\ NamedAll(p, {}, v)
    BY <2>3, <2>8 DEF NamedOnce, NamedAll
  <2>11. NoneFits({}, Len(fields))
    <3>1. PICK c \in Nat : BitsTo(c)
      BY DEF EnumInv
    <3> QED
      BY <3>1 DEF NoneFits, BitsTo
  <2>12. PICK s : s = [left |-> {}, names |-> p, len |-> k, cap |-> k + 1]
    OBVIOUS
  <2>13. s.left = {} /\ s.names = p /\ s.len = k /\ s.cap = k + 1
    BY <2>12
  <2>14. WrittenTo(s, v, Len(fields))
    BY <2>9, <2>10, <2>11, <2>13 DEF WrittenTo
  <2> QED
    BY <2>6, <2>12, <2>14
<1> QED
  BY <1>2, <1>3

-----------------------------------------------------------------------------
(* Names of enumerations: what is written is read back.                     *)

LEMMA BitsAre ==
  ASSUME EnumInv, bitflags
  PROVE  \E c \in Nat : /\ BitsTo(c) /\ Enum!BitCount = c
                        /\ Enum!AllBits = 0 .. c - 1
                        /\ Enum!AllBits \cup {Enum!BitCount} = 0 .. c
<1>1. PICK c \in Nat : BitsTo(c)
  BY DEF EnumInv
<1>2. Enum!BitCount = c
  BY <1>1 DEF BitsTo
<1>3. Enum!AllBits = 0 .. c - 1
  BY <1>2 DEF Enum!AllBits
<1>4. (0 .. c - 1) \cup {c} = 0 .. c
  OBVIOUS
<1> QED
  BY <1>1, <1>2, <1>3, <1>4

(* Only a bit that no field has is left.                                    *)
LEMMA FlagsLeft ==
  ASSUME EnumInv, bitflags, NEW c \in Nat, BitsTo(c), NEW v \in SUBSET (0 .. c), NEW s,
         WrittenTo(s, v, Len(fields))
  PROVE  s.left = v \cap {c}
<1>1. ASSUME NEW b \in s.left, b # c
      PROVE  FALSE
  <2>1. b \in 0 .. c - 1
    <3>1. b \in 0 .. c
      BY DEF WrittenTo
    <3> QED
      BY <1>1, <3>1
  <2>2. PICK j \in 1 .. Len(fields) : fields[j].value = {b}
    BY <2>1 DEF BitsTo
  <2> QED
    BY <2>2 DEF WrittenTo, NoneFits
<1>2. ASSUME c \in v
      PROVE  c \in s.left
  <2>1. \A j \in 1 .. Len(fields) : c \notin fields[j].value
    BY DEF BitsTo
  <2> QED
    BY <1>2, <2>1 DEF WrittenTo, NamedAll
<1>3. s.left \subseteq v
  BY DEF WrittenTo
<1> QED
  BY <1>1, <1>2, <1>3

(* Nothing is written of no flags but the name of none.                     *)
LEMMA StrOfNone ==
  \E t \in Enum!Tokens :
    /\ t.id = Enum!NoneName /\ ~ t.full
    /\ Enum!Str({}) = [left |-> {}, names |-> <<t>>, len |-> 4, cap |-> 5]
<1>1. PICK t : t = [full |-> FALSE, id |-> Enum!NoneName]
  OBVIOUS
<1>2. t \in Enum!Tokens /\ t.id = Enum!NoneName /\ ~ t.full
  BY <1>1 DEF Enum!Tokens
<1>3. Enum!NameLength(Enum!NoneName) = 4 /\ 4 + 1 = 5
  BY DEF Enum!NameLength
<1>4. Enum!Str({}) = Enum!Duplicate([full |-> FALSE, id |-> Enum!NoneName], Enum!NameLength(Enum!NoneName))
  BY Zenon DEF Enum!Str
<1>5. Enum!Str({}) = Enum!Duplicate(t, 4)
  BY <1>1, <1>3, <1>4, Zenon
<1>6. Enum!Duplicate(t, 4) = [left |-> {}, names |-> <<t>>, len |-> 4, cap |-> 5]
  BY <1>3 DEF Enum!Duplicate
<1> QED
  BY <1>2, <1>5, <1>6, Zenon

LEMMA OwnersOf ==
  ASSUME EnumInv, NEW q, OnlyNames(q, Len(fields)), NEW v, NEW rest, rest = {},
         NamedOnce(q, rest, v), NamedAll(q, rest, v)
  PROVE  \E own : /\ \A k \in 1 .. Len(q) : /\ own[k] \in 1 .. Len(fields)
                                           /\ q[k].id = fields[own[k]].id
                  /\ ReadOf(own, Len(q)) = v
<1> DEFINE own == [k \in 1 .. Len(q) |->
                     CHOOSE j \in 1 .. Len(fields) : q[k] = Enum!FullName(fields[j].id)]
<1>1. ASSUME NEW k \in 1 .. Len(q)
      PROVE  own[k] \in 1 .. Len(fields) /\ q[k] = Enum!FullName(fields[own[k]].id)
  <2>1. \E j \in 1 .. Len(fields) : q[k] = Enum!FullName(fields[j].id)
    BY DEF OnlyNames
  <2> QED
    BY <2>1
<1> HIDE DEF own
<1>2. ASSUME NEW k \in 1 .. Len(q)
      PROVE  q[k].id = fields[own[k]].id
  BY <1>1, FieldIs
<1>3. ASSUME NEW b \in v
      PROVE  b \in ReadOf(own, Len(q))
  <2>1. PICK j \in 1 .. Len(fields) : IsNamed(q, j) /\ b \in fields[j].value
    BY DEF NamedAll
  <2>2. PICK k \in 1 .. Len(q) : q[k] = Enum!FullName(fields[j].id)
    BY <2>1 DEF IsNamed
  <2>3. q[k].id = fields[j].id
    BY <2>2, FieldIs
  <2>4. own[k] = j
    BY <1>1, <1>2, <2>3 DEF EnumInv
  <2> QED
    BY <2>1, <2>4 DEF ReadOf
<1>4. ASSUME NEW b \in ReadOf(own, Len(q))
      PROVE  b \in v
  <2>1. PICK k \in 1 .. Len(q) : b \in fields[own[k]].value
    BY DEF ReadOf
  <2>2. own[k] \in 1 .. Len(fields) /\ IsNamed(q, own[k])
    BY <1>1 DEF IsNamed
  <2> QED
    BY <2>1, <2>2 DEF NamedOnce
<1>5. ReadOf(own, Len(q)) = v
  BY <1>3, <1>4
<1> QED
  BY <1>1, <1>2, <1>5

LEMMA FlagsAlwaysComeBack ==
  ASSUME EnumInv
  PROVE  Enum!FlagsComeBack
<1> SUFFICES ASSUME bitflags, NEW v \in SUBSET Enum!AllBits
             PROVE  LET s == Enum!Str(v)
                    IN /\ s.left = {}
                       /\ Enum!Parse(s.names) = [trap |-> FALSE, value |-> v]
                       /\ Enum!Parse(Enum!Shortened(s.names)) = [trap |-> FALSE, value |-> v]
  BY DEF Enum!FlagsComeBack
<1>1. PICK s : s = Enum!Str(v)
  OBVIOUS
<1>2. CASE v = {}
  <2>1. PICK t \in Enum!Tokens :
          /\ t.id = Enum!NoneName
          /\ Enum!Str({}) = [left |-> {}, names |-> <<t>>, len |-> 4, cap |-> 5]
    BY StrOfNone
  <2>2. s.left = {} /\ s.names = <<t>>
    BY <1>1, <1>2, <2>1
  <2>3. Enum!Parse(<<t>>) = [trap |-> FALSE, value |-> {}]
    BY <2>1, NoneIsRead, ShortTexts
  <2>4. PICK u \in Enum!Tokens : u.id = t.id /\ Enum!Shortened(<<t>>) = <<u>>
    BY ShortenedOne
  <2>5. Enum!Parse(<<u>>) = [trap |-> FALSE, value |-> {}]
    BY <2>1, <2>4, NoneIsRead, ShortTexts
  <2> QED
    BY <1>1, <1>2, <2>2, <2>3, <2>4, <2>5
<1>3. CASE v # {}
  <2>1. PICK c \in Nat : BitsTo(c) /\ Enum!AllBits = 0 .. c - 1
    BY BitsAre
  <2>2. v \in SUBSET (0 .. c) /\ v \cap {c} = {}
    BY <2>1
  <2>3. WrittenTo(s, v, Len(fields))
    BY <1>1, <1>3, StrIsWritten
  <2>4. s.left = {}
    BY <2>1, <2>2, <2>3, FlagsLeft
  <2>5. PICK q \in Seq(Enum!Tokens) : q = s.names
    BY <2>3 DEF WrittenTo, OnlyNames
  <2>6. OnlyNames(q, Len(fields)) /\ NamedOnce(q, s.left, v) /\ NamedAll(q, s.left, v)
    BY <2>3, <2>5 DEF WrittenTo
  <2>7. PICK own : /\ \A k \in 1 .. Len(q) : /\ own[k] \in 1 .. Len(fields)
                                            /\ q[k].id = fields[own[k]].id
                   /\ ReadOf(own, Len(q)) = v
    BY <2>4, <2>6, OwnersOf
  <2>8. Len(q) \in Nat /\ DOMAIN q = 1 .. Len(q) /\ \A k \in 1 .. Len(q) : q[k] \in Enum!Tokens
    OBVIOUS
  <2>9. Enum!Parse(q) = [trap |-> FALSE, value |-> ReadOf(own, Len(q))]
    BY <2>7, <2>8, TextIsRead
  <2>10. PICK p : p = Enum!Shortened(q)
    OBVIOUS
  <2>11. DOMAIN p = 1 .. Len(q)
    BY <2>10, ShortenedText
  <2>12. \A k \in 1 .. Len(q) : /\ own[k] \in 1 .. Len(fields) /\ p[k] \in Enum!Tokens
                                /\ p[k].id = fields[own[k]].id
    BY <2>7, <2>10, ShortenedText
  <2>13. Enum!Parse(p) = [trap |-> FALSE, value |-> ReadOf(own, Len(q))]
    BY <2>8, <2>11, <2>12, TextIsRead
  <2> QED
    BY <1>1, <2>4, <2>5, <2>7, <2>9, <2>10, <2>13
<1> QED
  BY <1>2, <1>3

LEMMA NamesAlwaysOfTheFlags ==
  ASSUME EnumInv
  PROVE  Enum!NamesAreOfTheFlags
<1> SUFFICES ASSUME bitflags, NEW v \in SUBSET (Enum!AllBits \cup {Enum!BitCount})
             PROVE  LET s == Enum!Str(v)
                        named == {f \in Enum!Range(fields) :
                                    \E i \in DOMAIN s.names : s.names[i] = Enum!FullName(f.id)}
                    IN /\ \A f \in named : f.value \subseteq v
                       /\ \A f, g \in named : f # g => f.value \cap g.value = {}
                       /\ (s.left # {}) = (Enum!BitCount \in v)
  BY DEF Enum!NamesAreOfTheFlags
<1>1. PICK s : s = Enum!Str(v)
  OBVIOUS
<1> DEFINE named == {f \in Enum!Range(fields) :
                       \E i \in DOMAIN s.names : s.names[i] = Enum!FullName(f.id)}
<1>2. PICK c \in Nat : BitsTo(c) /\ Enum!BitCount = c /\ v \in SUBSET (0 .. c)
  BY BitsAre
<1>3. \A f \in Enum!Range(fields) : \E j \in 1 .. Len(fields) : f = fields[j]
  <2>1. DOMAIN fields = 1 .. Len(fields)
    BY DEF EnumInv
  <2> QED
    BY <2>1 DEF Enum!Range
<1>4. CASE v = {}
  <2>1. PICK t \in Enum!Tokens :
          /\ t.id = Enum!NoneName /\ ~ t.full
          /\ Enum!Str({}) = [left |-> {}, names |-> <<t>>, len |-> 4, cap |-> 5]
    BY StrOfNone
  <2>2. s.left = {} /\ s.names = <<t>>
    BY <1>1, <1>4, <2>1
  <2>3. \A i \in DOMAIN s.names : s.names[i] = t
    BY <2>2
  <2>4. \A x : t # Enum!FullName(x)
    BY <2>1 DEF Enum!FullName
  <2>5. named = {}
    BY <2>3, <2>4
  <2> QED
    BY <1>1, <1>4, <2>2, <2>5
<1>5. CASE v # {}
  <2>1. WrittenTo(s, v, Len(fields))
    BY <1>1, <1>5, StrIsWritten
  <2>2. s.left = v \cap {c}
    BY <1>2, <2>1, FlagsLeft
  <2>3. PICK q \in Seq(Enum!Tokens) : q = s.names
    BY <2>1 DEF WrittenTo, OnlyNames
  <2>4. NamedOnce(q, s.left, v) /\ DOMAIN q = 1 .. Len(q)
    BY <2>1, <2>3 DEF WrittenTo
  <2>5. \A f \in named : \E j \in 1 .. Len(fields) : f = fields[j] /\ IsNamed(q, j)
    <3> TAKE f \in named
    <3>1. PICK j \in 1 .. Len(fields) : f = fields[j]
      BY <1>3
    <3>2. PICK i \in 1 .. Len(q) : q[i] = Enum!FullName(f.id)
      BY <2>3, <2>4
    <3>3. IsNamed(q, j)
      BY <3>1, <3>2 DEF IsNamed
    <3> QED
      BY <3>1, <3>3
  <2>6. ASSUME NEW f \in named
        PROVE  f.value \subseteq v
    <3>1. PICK j \in 1 .. Len(fields) : f = fields[j] /\ IsNamed(q, j)
      BY <2>5
    <3> QED
      BY <2>4, <3>1 DEF NamedOnce
  <2>7. ASSUME NEW f \in named, NEW g \in named, f # g
        PROVE  f.value \cap g.value = {}
    <3>1. PICK j \in 1 .. Len(fields) : f = fields[j] /\ IsNamed(q, j)
      BY <2>5
    <3>2. PICK l \in 1 .. Len(fields) : g = fields[l] /\ IsNamed(q, l)
      BY <2>5
    <3>3. j # l
      BY <2>7, <3>1, <3>2
    <3> QED
      BY <2>4, <3>1, <3>2, <3>3 DEF NamedOnce
  <2>8. (s.left # {}) = (Enum!BitCount \in v)
    BY <1>2, <2>2
  <2> QED
    BY <1>1, <2>6, <2>7, <2>8
<1> QED
  BY <1>4, <1>5

LEMMA TextAlwaysFits ==
  ASSUME EnumInv
  PROVE  Enum!TextFitsItsBlock
<1> SUFFICES ASSUME bitflags, NEW v \in SUBSET Enum!AllBits
             PROVE  /\ Enum!Str(v).len < Enum!Str(v).cap
                    /\ Enum!StrFreed(Enum!Str(v)) = Enum!Str(v).cap
  BY DEF Enum!TextFitsItsBlock
<1>1. PICK s : s = Enum!Str(v)
  OBVIOUS
<1>2. s.len \in Nat /\ s.cap = s.len + 1
  <2>1. CASE v = {}
    <3>1. PICK t \in Enum!Tokens :
            Enum!Str({}) = [left |-> {}, names |-> <<t>>, len |-> 4, cap |-> 5]
      BY StrOfNone
    <3> QED
      BY <1>1, <2>1, <3>1
  <2>2. CASE v # {}
    <3>1. PICK c \in Nat : BitsTo(c) /\ Enum!AllBits = 0 .. c - 1
      BY BitsAre
    <3>2. v \in SUBSET (0 .. c) /\ v \cap {c} = {}
      BY <3>1
    <3>3. WrittenTo(s, v, Len(fields))
      BY <1>1, <2>2, StrIsWritten
    <3>4. s.left = {}
      BY <3>1, <3>2, <3>3, FlagsLeft
    <3> QED
      BY <2>2, <3>3, <3>4 DEF WrittenTo
  <2> QED
    BY <2>1, <2>2
<1> QED
  BY <1>1, <1>2 DEF Enum!StrFreed

LEMMA EnumTypes ==
  ASSUME EnumInv
  PROVE  Enum!TypeOK
<1>1. ASSUME NEW i \in DOMAIN fields
      PROVE  /\ fields[i].id \in Ids
             /\ fields[i].value \subseteq IF bitflags THEN Enum!AllBits ELSE Nat
             /\ fields[i].alias \in Enum!Tokens \cup {Enum!NoAlias}
             /\ fields[i].single \in BOOLEAN
  <2>1. fields[i] \in Declarations /\ DOMAIN fields = 1 .. Len(fields)
    BY DEF EnumInv
  <2>2. /\ fields[i].id \in Ids /\ fields[i].value \subseteq Nat
        /\ fields[i].alias \in Enum!Tokens \cup {Enum!NoAlias}
        /\ fields[i].single \in BOOLEAN
    BY <2>1 DEF Declarations
  <2>3. CASE bitflags
    <3>1. PICK c \in Nat : BitsTo(c) /\ Enum!AllBits = 0 .. c - 1
      BY <2>3, BitsAre
    <3>2. fields[i].value \subseteq 0 .. c - 1
      BY <2>1, <3>1 DEF BitsTo
    <3> QED
      BY <2>2, <2>3, <3>1, <3>2
  <2> QED
    BY <2>2, <2>3
<1>2. bitflags \in BOOLEAN
  BY DEF EnumInv
<1> QED
  BY <1>1, <1>2 DEF Enum!TypeOK

LEMMA EnumIsRight ==
  ASSUME EnumInv
  PROVE  EnumNamesComeBack
<1>1. Enum!TypeOK /\ Enum!FlagsComeBack
  BY EnumTypes, FlagsAlwaysComeBack
<1>2. Enum!NamesAreOfTheFlags /\ Enum!TextFitsItsBlock
  BY NamesAlwaysOfTheFlags, TextAlwaysFits
<1>3. Enum!NumbersComeBack
  BY NumbersAlwaysComeBack
<1> QED
  BY <1>1, <1>2, <1>3 DEF EnumNamesComeBack

LEMMA DeclaresInSystem ==
  /\ Init => EnumInv
  /\ EnumInv /\ [Next]_vars => EnumInv'
<1>1. Init => EnumInv
  BY EnumStart DEF Init, EnumRest
<1>2. ASSUME EnumInv, [Next]_vars
      PROVE  EnumInv'
  <2>1. CASE Enum!Next
    BY <1>2, <2>1, EnumStep
  <2>2. CASE UNCHANGED enumVars
    <3>1. UNCHANGED <<bitflags, fields>>
      BY <2>2 DEF enumVars
    <3> QED
      BY <1>2, <3>1, EnumStays
  <2> QED
    BY <1>2, <2>1, <2>2 DEF Next, vars, FilesRun, CopiesRun, TempRuns, PathGrows, DirRuns, TimeRuns, ZoneRuns,
                         FieldsGrow
<1> QED
  BY <1>1, <1>2

(* Of any declaration, with any number of fields of names of any lengths,   *)
(* str and parse undo each other: any flags or number that is written is    *)
(* read back, with the prefix or without it and from an alias, the text     *)
(* names only bits that are set and each one once, TRAP() is reached only   *)
(* for a bit that no field has, and str_free gives back the size of the     *)
(* block.                                                                   *)
THEOREM EnumNamesAlwaysComeBack == Spec => []EnumNamesComeBack
<1>1. EnumInv => EnumNamesComeBack
  BY EnumIsRight
<1> QED
  BY <1>1, DeclaresInSystem, PTL DEF Spec

=============================================================================
