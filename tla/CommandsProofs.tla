--------------------------- MODULE CommandsProofs ----------------------------
(***************************************************************************)
(* The commands of MCCommands, for any sizes of pipes, reads, inputs and   *)
(* outputs and any number of runs: what arrives is what was sent, nothing  *)
(* of a run is left, and the vectors hold the arguments in force.          *)
(***************************************************************************)
EXTENDS MCCommands, SequenceTheorems, FiniteSetTheorems, FunctionTheorems,
        NaturalsInduction, WellFoundedInduction, TLAPS

-----------------------------------------------------------------------------
(* Unix: the invariant.                                                     *)

Sides == {"out", "err"}
Unit == Sides \X Nat
Ops == {"out", "err", "read", "drain", "close"}

UnixTypes ==
  /\ U!TypeOK
  /\ child \in [state : {"none", "forked", "running", "zombie", "reaped"},
                todo : Seq(Ops), code : Int]
  /\ io \in [output : Seq(Unit), stdout : Seq(Unit), stderr : Seq(Unit), offset : 0 .. MaxInput,
             revents : [U!Pipes -> {"none", "in", "out", "hup", "err"}], back : {"idle", "wait"}]
  /\ pipe = [p \in U!Pipes |-> pipe[p]]
  /\ pipe["out"] \in Seq(Unit) /\ pipe["err"] \in Seq(Unit) /\ pipe["in"] \in Seq(Nat)
  /\ result \in [pid : BOOLEAN, status : Int, exited : BOOLEAN,
                 output : Seq(Unit), stdout : Seq(Unit), stderr : Seq(Unit)]
  /\ wrote \in Seq(Unit)
  /\ got \in [units : 0 .. MaxInput, eof : BOOLEAN]

(* The pipe ends that matter. *)
Feeds == <<"in", "w">> \in ends.caller
Fed == <<"in", "r">> \in ends.child
Reads(p) == <<p, "r">> \in ends.caller
Writes(p) == <<p, "w">> \in ends.child
Opens == U!Opened(flags, input)
Merged == flags.merge /\ flags.err

(* Who holds which ends; what nobody reads any more is empty and stays so. *)
UnixEnds ==
  /\ pc = "forked" => ends.caller = Opens
  /\ pc # "forked" => ends.caller \subseteq U!CallerKeeps(Opens)
  /\ child.state = "forked" => ends.child = Opens
  /\ child.state = "running" =>
       /\ ends.child \subseteq U!ChildKeeps(Opens)
       /\ \A p \in Sides : <<p, "w">> \in Opens => Writes(p)
  /\ child.state \in {"none", "zombie", "reaped"} => ends.child = {}
  /\ child.state \in {"none", "reaped"} => ends.caller = {}
  /\ \A p \in Sides : ~Reads(p) => pipe[p] = <<>> /\ ~Writes(p)

(* Which states of the caller and of the child go together. *)
UnixControl ==
  /\ pc # "killed"
  /\ Merged => flags.out
  /\ ~U!Refused(flags, input)
  /\ pc = "idle" /\ child.state \notin {"none", "reaped"} => result.pid
  /\ pc \in {"forked", "io", "poll", "handle", "wait"} => child.state \notin {"none", "reaped"}
  /\ pc \in {"io", "poll", "handle", "wait"} => result.pid
  /\ pc = "wait" => ends.caller = {}
  /\ pc \in {"io", "poll", "handle"} => (io.back = "idle" <=> flags.async)
  /\ pc = "idle" /\ ~flags.async => child.state \in {"none", "reaped"}
  /\ result.pid => child.state # "none"
  /\ result.pid /\ child.state = "reaped" => result.status = child.code

(* SIGPIPE is ignored while input may be written. *)
UnixSignals ==
  /\ pc \notin {"poll", "handle"} => sigpipe = "default"
  /\ pc \in {"poll", "handle"} /\ Feeds => sigpipe = "ignored"

(* What poll saw of an end still holds, whatever the child did since. *)
UnixEvents ==
  pc = "handle" =>
    /\ \A p \in Sides : io.revents[p] # "none" => Reads(p) /\ (pipe[p] # <<>> \/ ~Writes(p))
    /\ io.revents["in"] # "none" => Feeds
    /\ io.revents["in"] = "err" => ~Fed

(* The child has the first units, the pipe the next, the caller the rest. *)
Delivered == got.units + Len(pipe["in"])
UnixInput ==
  /\ Feeds => io.offset = Delivered
  /\ pc \in {"poll", "handle"} /\ Feeds => io.offset < input
  /\ Delivered <= IF input < 0 THEN 0 ELSE input
  /\ \A k \in 1 .. Len(pipe["in"]) : pipe["in"][k] = got.units + k
  /\ ~Feeds /\ Fed => Delivered = input
  /\ got.eof => got.units = input

(* The units of a stream, as they are numbered when they are written; q has *)
(* those of w, and no others.                                              *)
Units(q, s) == {q[i] : i \in U!At(q, s)}
Falling(q, s) == \A i, j \in U!At(q, s) : i < j => q[i][2] > q[j][2]
Ordered(q, w, s) == Units(q, s) = Units(w, s) /\ Falling(q, s)
Pure(q, w, s) == Ordered(q, w, s) /\ U!At(q, s) = DOMAIN q

(* The loop has taken what is not in the pipes. *)
Pending ==
  /\ result.output = <<>> /\ result.stdout = <<>> /\ result.stderr = <<>>
  /\ ~flags.out => io.stdout = <<>>
  /\ ~U!OwnErr(flags) => io.stderr = <<>>
  /\ Merged => wrote = io.stdout \o pipe["out"] /\ io.output = io.stdout
  /\ ~Merged => /\ Pure(io.stdout \o pipe["out"], wrote, "out")
                /\ Pure(io.stderr \o pipe["err"], wrote, "err")
                /\ Units(io.output, "out") = Units(io.stdout, "out")
                /\ Units(io.output, "err") = Units(io.stderr, "err")
                /\ \A s \in Sides : Falling(io.output, s)

(* The result has all of it. *)
Finished ==
  /\ Merged => result.output = wrote /\ result.stdout = wrote
  /\ ~Merged => /\ flags.out => Pure(result.stdout, wrote, "out")
                /\ flags.err => Pure(result.stderr, wrote, "err")
                /\ \A s \in Sides : Ordered(result.output, wrote, s)

UnixOutput ==
  /\ \A i, j \in DOMAIN wrote : i < j => wrote[i][2] > wrote[j][2]
  /\ \A i \in DOMAIN wrote : wrote[i][2] > Len(child.todo)
  /\ pc \notin {"poll", "handle"} =>
       io.output = <<>> /\ io.stdout = <<>> /\ io.stderr = <<>> /\ io.offset = 0
  /\ pc \in {"forked", "io", "poll", "handle"} \/ (pc = "idle" /\ ends.caller # {}) => Pending
  /\ result.pid /\ pc \in {"idle", "wait"} /\ ends.caller = {} => Finished

UnixInv == /\ UnixTypes /\ UnixEnds /\ UnixControl /\ UnixSignals
           /\ UnixEvents /\ UnixInput /\ UnixOutput

-----------------------------------------------------------------------------
(* Ends of pipes, and sequences.                                            *)

LEMMA UnixConstants ==
  /\ \A p \in MCPrograms : p \in Seq(Ops)
  /\ MCFlags \subseteq [out: BOOLEAN, err: BOOLEAN, merge: BOOLEAN,
                        async: BOOLEAN, detached: BOOLEAN, stdin: BOOLEAN]
  /\ MaxInput \in Nat /\ MaxRuns \in Nat
  /\ PipeSize \in Nat \ {0} /\ ReadSize \in Nat \ {0}
BY Instances DEF U!CommandAssumption, Ops

LEMMA OpenedFacts ==
  ASSUME NEW f, NEW in \in Int, NEW x \in {"r", "w"}
  PROVE  /\ U!Opened(f, in) \subseteq U!Ends
         /\ <<"in", x>> \in U!Opened(f, in) <=> in >= 0
         /\ <<"out", x>> \in U!Opened(f, in) <=> f.out
         /\ <<"err", x>> \in U!Opened(f, in) <=> U!OwnErr(f)
<1>1. {p \in {"in"} : in >= 0} \cup {p \in {"out"} : f.out} \cup {p \in {"err"} : U!OwnErr(f)}
        \subseteq U!Pipes
  BY DEF U!Pipes
<1> QED
  BY <1>1 DEF U!Opened, U!Ends

LEMMA KeptFacts ==
  ASSUME NEW E
  PROVE  /\ \A p \in Sides : <<p, "w">> \notin U!CallerKeeps(E) /\ <<p, "r">> \notin U!ChildKeeps(E)
         /\ \A p \in Sides : <<p, "r">> \in U!CallerKeeps(E) <=> <<p, "r">> \in E
         /\ \A p \in Sides : <<p, "w">> \in U!ChildKeeps(E) <=> <<p, "w">> \in E
         /\ <<"in", "r">> \notin U!CallerKeeps(E) /\ <<"in", "w">> \notin U!ChildKeeps(E)
         /\ <<"in", "w">> \in U!CallerKeeps(E) <=> <<"in", "w">> \in E
         /\ <<"in", "r">> \in U!ChildKeeps(E) <=> <<"in", "r">> \in E
BY DEF Sides, U!CallerKeeps, U!ChildKeeps

(* A caller without ends: it has neither of the three. *)
LEMMA NoEnds ==
  ASSUME NEW E, NEW X \in SUBSET U!CallerKeeps(E)
  PROVE  X = {} <=> (\A p \in Sides : <<p, "r">> \notin X) /\ <<"in", "w">> \notin X
BY DEF U!CallerKeeps, Sides

(* What is appended to the second of two sequences is appended to both. *)
LEMMA AppendToSecond ==
  ASSUME NEW S, NEW a \in Seq(S), NEW b \in Seq(S), NEW u \in S
  PROVE  a \o Append(b, u) = Append(a \o b, u)
<1>1. Len(a \o Append(b, u)) = Len(Append(a \o b, u))
  OBVIOUS
<1>2. \A i \in 1 .. Len(Append(a \o b, u)) : (a \o Append(b, u))[i] = Append(a \o b, u)[i]
  OBVIOUS
<1>3. a \o Append(b, u) \in Seq(S) /\ Append(a \o b, u) \in Seq(S)
  OBVIOUS
<1> QED
  BY <1>1, <1>2, <1>3, SeqEqual

(* The front of a text, and the rest. *)
LEMMA MoveFront ==
  ASSUME NEW S, NEW b \in Seq(S), NEW n \in 0 .. Len(b)
  PROVE  /\ SubSeq(b, 1, n) \in Seq(S) /\ SubSeq(b, n + 1, Len(b)) \in Seq(S)
         /\ Len(SubSeq(b, 1, n)) = n /\ Len(SubSeq(b, n + 1, Len(b))) = Len(b) - n
         /\ \A i \in 1 .. n : SubSeq(b, 1, n)[i] = b[i]
         /\ \A i \in 1 .. Len(b) - n : SubSeq(b, n + 1, Len(b))[i] = b[n + i]
         /\ SubSeq(b, 1, n) \o SubSeq(b, n + 1, Len(b)) = b
<1>1. /\ SubSeq(b, 1, n) \in Seq(S) /\ Len(SubSeq(b, 1, n)) = n
      /\ \A i \in 1 .. n : SubSeq(b, 1, n)[i] = b[i]
  BY SubSeqProperties
<1>2. /\ SubSeq(b, n + 1, Len(b)) \in Seq(S) /\ Len(SubSeq(b, n + 1, Len(b))) = Len(b) - n
      /\ \A i \in 1 .. Len(b) - n : SubSeq(b, n + 1, Len(b))[i] = b[n + i]
  OBVIOUS
<1>3. SubSeq(b, 1, n) \o SubSeq(b, n + 1, Len(b)) = b
  <2>1. Len(b) \in Nat /\ 1 \in 1 .. Len(b) + 1 /\ n \in 1 - 1 .. Len(b) /\ Len(b) \in n .. Len(b)
    OBVIOUS
  <2>2. SubSeq(b, 1, n) \o SubSeq(b, n + 1, Len(b)) = SubSeq(b, 1, Len(b))
    BY <2>1, ConcatAdjacentSubSeq, Zenon
  <2> QED
    BY <2>2, SubSeqFull
<1> QED
  BY <1>1, <1>2, <1>3

-----------------------------------------------------------------------------
(* Unix: the steps of the child.                                            *)

(* Everything is closed and empty at first. *)
LEMMA UnixStart == U!Init => UnixInv
<1> SUFFICES ASSUME U!Init PROVE UnixInv
  OBVIOUS
<1>1. /\ \A p \in U!Pipes : pipe[p] = <<>>
      /\ ends = [caller |-> {}, child |-> {}]
      /\ pc = "idle" /\ wrote = <<>> /\ result = U!NoResult /\ io = U!NoIo
      /\ child = [state |-> "none", todo |-> <<>>, code |-> 0]
      /\ sigpipe = "default" /\ input = -1 /\ got = [units |-> 0, eof |-> FALSE] /\ runs = 0
  BY DEF U!Init
<1>2. 0 \in 0 .. MaxInput /\ 0 \in 0 .. MaxRuns /\ -1 \in -1 .. MaxInput /\ 0 \in -1 .. MaxInput
      /\ 0 <= PipeSize
  BY UnixConstants
<1>3. U!TypeOK
  BY <1>1, <1>2 DEF U!Init, U!TypeOK, U!NoIo, U!Quiet, U!Pipes
<1>4. UnixTypes
  BY <1>1, <1>2, <1>3 DEF UnixTypes, U!NoResult, U!NoIo, U!Quiet, U!Init, U!Pipes
<1>5. UnixEnds /\ UnixControl /\ UnixSignals /\ UnixEvents
  BY <1>1 DEF UnixEnds, UnixControl, UnixSignals, UnixEvents, Feeds, Writes, Reads, Sides,
              Merged, U!Refused, U!Capture, U!Pipes, U!NoResult, U!Init
<1>6. UnixInput /\ UnixOutput
  BY <1>1 DEF UnixInput, UnixOutput, Feeds, Fed, Delivered, U!Pipes, U!NoResult, U!NoIo
<1> QED
  BY <1>4, <1>5, <1>6 DEF UnixInv

(* A child that goes on or ends without touching a pipe. *)
LEMMA ChildQuiet ==
  ASSUME UnixInv, UNCHANGED <<pc, flags, input, pipe, io, sigpipe, result, wrote, got, runs>>,
         ends' \in [{"caller", "child"} -> SUBSET U!Ends],
         ends'.caller = ends.caller, ends'.child \subseteq ends.child,
         child.state \in {"forked", "running"}, child'.state \in {"running", "zombie"},
         child' \in [state : {"none", "forked", "running", "zombie", "reaped"},
                     todo : Seq(Ops), code : Int],
         Len(child'.todo) <= Len(child.todo),
         child'.state = "running" =>
           /\ ends'.child \subseteq U!ChildKeeps(Opens)
           /\ \A p \in Sides : <<p, "w">> \in Opens => <<p, "w">> \in ends'.child,
         child'.state = "zombie" => ends'.child = {}
  PROVE  UnixInv'
<1>1. UnixTypes'
  <2>1. U!TypeOK'
    BY SMTT(30) DEF UnixInv, UnixTypes, U!TypeOK
  <2> QED
    BY <2>1 DEF UnixInv, UnixTypes
<1>2. UnixEnds'
  BY DEF UnixInv, UnixEnds, Opens, Reads, Writes
<1>3. UnixControl' /\ UnixSignals'
  BY DEF UnixInv, UnixControl, UnixSignals, Feeds, Merged, U!Refused, U!Capture
<1>4. UnixEvents'
  BY DEF UnixInv, UnixEvents, Feeds, Fed, Reads, Writes
<1>5. UnixInput'
  BY DEF UnixInv, UnixInput, Feeds, Fed, Delivered
<1>6. Pending = Pending' /\ Finished = Finished'
  BY DEF Pending, Finished, Merged
<1>7. UnixOutput'
  <2>1. \A i \in DOMAIN wrote : wrote[i][2] \in Nat
    BY SMTT(30) DEF UnixInv, UnixTypes, Unit
  <2>2. Len(child.todo) \in Nat /\ Len(child'.todo) \in Nat
    BY SMTT(30) DEF UnixInv, UnixTypes
  <2> QED
    BY <1>6, <2>1, <2>2 DEF UnixInv, UnixOutput
<1> QED
  BY <1>1, <1>2, <1>3, <1>4, <1>5, <1>7 DEF UnixInv

(* The child exits, or a signal ends it. *)
LEMMA ChildEnds ==
  ASSUME UnixInv, UNCHANGED <<pc, flags, input, pipe, io, sigpipe, result, wrote, got, runs>>,
         child.state \in {"forked", "running"}, NEW code \in Int, U!Exit(code)
  PROVE  UnixInv'
<1>1. /\ child' = [child EXCEPT !.state = "zombie", !.todo = <<>>, !.code = code]
      /\ ends' = [ends EXCEPT !.child = {}]
  BY DEF U!Exit
<1>2. child \in [state : {"none", "forked", "running", "zombie", "reaped"},
                 todo : Seq(Ops), code : Int] /\ ends \in [{"caller", "child"} -> SUBSET U!Ends]
  BY DEF UnixInv, UnixTypes, U!TypeOK
<1>3. /\ child'.state = "zombie" /\ child'.todo = <<>>
      /\ child' \in [state : {"none", "forked", "running", "zombie", "reaped"},
                     todo : Seq(Ops), code : Int]
  <2>1. <<>> \in Seq(Ops)
    OBVIOUS
  <2> QED
    BY <1>1, <1>2, <2>1
<1>4. /\ ends' \in [{"caller", "child"} -> SUBSET U!Ends]
      /\ ends'.caller = ends.caller /\ ends'.child = {}
  BY <1>1, <1>2
<1>5. Len(child'.todo) <= Len(child.todo)
  BY <1>2, <1>3
<1> QED
  BY <1>3, <1>4, <1>5, ChildQuiet

(* The child begins its program, or a detached one ends. *)
LEMMA ChildExecKeeps ==
  ASSUME UnixInv, U!ChildExec \/ U!ChildFails \/ U!ChildExits
  PROVE  UnixInv'
<1>1. CASE U!ChildFails \/ U!ChildExits \/ (U!ChildExec /\ flags.detached)
  BY <1>1, ChildEnds DEF U!ChildFails, U!ChildExits, U!ChildExec
<1>2. CASE U!ChildExec /\ ~flags.detached
  <2>1. /\ child.state = "forked"
        /\ child' = [child EXCEPT !.state = "running"]
        /\ ends' = [ends EXCEPT !.child = U!ChildKeeps(@)]
        /\ UNCHANGED <<pc, flags, input, pipe, io, sigpipe, result, wrote, got, runs>>
    BY <1>2 DEF U!ChildExec
  <2>2. child \in [state : {"none", "forked", "running", "zombie", "reaped"},
                   todo : Seq(Ops), code : Int] /\ ends \in [{"caller", "child"} -> SUBSET U!Ends]
    BY DEF UnixInv, UnixTypes, U!TypeOK
  <2>3. /\ child'.state = "running" /\ child'.todo = child.todo
        /\ child' \in [state : {"none", "forked", "running", "zombie", "reaped"},
                       todo : Seq(Ops), code : Int]
    BY <2>1, <2>2
  <2>4. U!ChildKeeps(ends.child) \subseteq ends.child
    BY DEF U!ChildKeeps
  <2>5. /\ ends' \in [{"caller", "child"} -> SUBSET U!Ends]
        /\ ends'.caller = ends.caller /\ ends'.child = U!ChildKeeps(ends.child)
    BY <2>1, <2>2, <2>4
  <2>6. ends.child = Opens
    BY <2>1 DEF UnixInv, UnixEnds
  <2>7. \A p \in Sides : <<p, "w">> \in Opens => <<p, "w">> \in ends'.child
    BY <2>5, <2>6, KeptFacts
  <2>8. Len(child'.todo) <= Len(child.todo)
    BY <2>2, <2>3
  <2> QED
    BY <2>1, <2>3, <2>4, <2>5, <2>6, <2>7, <2>8, ChildQuiet
<1> QED
  BY <1>1, <1>2

(* A step of the program was done. *)
LEMMA ProgramGoesOn ==
  ASSUME UnixInv, U!Running
  PROVE  /\ child.state = "running" /\ Head(child.todo) \in Ops
         /\ U!Done1.state = "running" /\ U!Done1.todo = Tail(child.todo)
         /\ U!Done1 \in [state : {"none", "forked", "running", "zombie", "reaped"},
                         todo : Seq(Ops), code : Int]
         /\ Len(child.todo) \in Nat \ {0} /\ Len(U!Done1.todo) = Len(child.todo) - 1
<1>1. child \in [state : {"none", "forked", "running", "zombie", "reaped"},
                 todo : Seq(Ops), code : Int]
  BY DEF UnixInv, UnixTypes
<1>2. child.state = "running" /\ child.todo \in Seq(Ops) /\ child.todo # <<>>
  BY <1>1 DEF U!Running
<1>3. /\ Head(child.todo) \in Ops /\ Tail(child.todo) \in Seq(Ops)
      /\ Len(Tail(child.todo)) = Len(child.todo) - 1 /\ Len(child.todo) \in Nat \ {0}
  BY <1>2, HeadTailProperties
<1>4. U!Done1 = [child EXCEPT !.todo = Tail(child.todo)]
  BY DEF U!Done1
<1> QED
  BY <1>1, <1>2, <1>3, <1>4

(* What the invariant says of the ends. *)
LEMMA EndFacts ==
  ASSUME UnixInv
  PROVE  /\ ends \in [{"caller", "child"} -> SUBSET U!Ends]
         /\ input \in -1 .. MaxInput /\ input \in Int
         /\ pc # "forked" => \A p \in Sides : <<p, "w">> \notin ends.caller
         /\ pc # "forked" => <<"in", "r">> \notin ends.caller
         /\ child.state # "forked" => \A p \in Sides : <<p, "r">> \notin ends.child
         /\ child.state # "forked" => <<"in", "w">> \notin ends.child
         /\ Feeds => input >= 0
         /\ Fed => input >= 0
         /\ Reads("out") => flags.out
         /\ Reads("err") => U!OwnErr(flags)
<1>1. ends \in [{"caller", "child"} -> SUBSET U!Ends] /\ input \in -1 .. MaxInput /\ input \in Int
  <2>1. ends \in [{"caller", "child"} -> SUBSET U!Ends] /\ input \in -1 .. MaxInput
    BY DEF UnixInv, UnixTypes, U!TypeOK
  <2> QED
    BY <2>1, UnixConstants
<1>2. ends.caller \subseteq Opens
  <2>1. U!CallerKeeps(Opens) \subseteq Opens
    BY DEF U!CallerKeeps
  <2> QED
    BY <2>1 DEF UnixInv, UnixEnds
<1>3. ends.child \subseteq Opens
  <2>1. U!ChildKeeps(Opens) \subseteq Opens
    BY DEF U!ChildKeeps
  <2>2. child.state \in {"none", "forked", "running", "zombie", "reaped"}
    BY DEF UnixInv, UnixTypes
  <2> QED
    BY <2>1, <2>2 DEF UnixInv, UnixEnds
<1>4. pc # "forked" => ends.caller \subseteq U!CallerKeeps(Opens)
  BY DEF UnixInv, UnixEnds
<1>5. child.state # "forked" => ends.child \subseteq U!ChildKeeps(Opens)
  <2>1. child.state \in {"none", "forked", "running", "zombie", "reaped"}
    BY DEF UnixInv, UnixTypes
  <2> QED
    BY <2>1 DEF UnixInv, UnixEnds
<1>6. /\ \A x \in {"r", "w"} : <<"in", x>> \in Opens => input >= 0
      /\ <<"out", "r">> \in Opens => flags.out
      /\ <<"err", "r">> \in Opens => U!OwnErr(flags)
  BY <1>1, OpenedFacts DEF Opens
<1> QED
  BY <1>1, <1>2, <1>3, <1>4, <1>5, <1>6, KeptFacts DEF Feeds, Fed, Reads

LEMMA ChildClosesKeeps ==
  ASSUME UnixInv, U!ChildCloses
  PROVE  UnixInv'
<1>1. /\ U!Running
      /\ ends' = [ends EXCEPT !.child = @ \ {<<"in", "r">>}] /\ child' = U!Done1
      /\ UNCHANGED <<pc, flags, input, pipe, io, sigpipe, result, wrote, got, runs>>
  BY DEF U!ChildCloses
<1>2. /\ ends' \in [{"caller", "child"} -> SUBSET U!Ends]
      /\ ends'.caller = ends.caller /\ ends'.child = ends.child \ {<<"in", "r">>}
  BY <1>1, EndFacts
<1>3. /\ ends.child \subseteq U!ChildKeeps(Opens)
      /\ \A p \in Sides : <<p, "w">> \in Opens => <<p, "w">> \in ends.child
  BY <1>1, ProgramGoesOn DEF UnixInv, UnixEnds, Writes
<1>4. \A p \in Sides : <<p, "w">> # <<"in", "r">>
  OBVIOUS
<1>5. /\ child.state = "running" /\ child'.state = "running" /\ Len(child'.todo) <= Len(child.todo)
      /\ child' \in [state : {"none", "forked", "running", "zombie", "reaped"},
                     todo : Seq(Ops), code : Int]
  BY <1>1, ProgramGoesOn
<1> QED
  BY <1>1, <1>2, <1>3, <1>4, <1>5, ChildQuiet

(* A unit of the input, in its turn. *)
LEMMA ChildTakesUnit ==
  ASSUME UnixInv, U!Running, Fed, pipe["in"] # <<>>,
         pipe' = [pipe EXCEPT !["in"] = Tail(@)],
         got' = [got EXCEPT !.units = IF Head(pipe["in"]) = @ + 1 THEN @ + 1 ELSE -1],
         child' = U!Done1 \/ child' = child,
         UNCHANGED <<pc, flags, input, ends, io, sigpipe, result, wrote, runs>>
  PROVE  UnixInv'
<1>1. /\ pipe["in"] \in Seq(Nat) /\ got \in [units : 0 .. MaxInput, eof : BOOLEAN]
      /\ pipe = [p \in U!Pipes |-> pipe[p]]
  BY DEF UnixInv, UnixTypes
<1>2. /\ Len(pipe["in"]) \in Nat \ {0} /\ Tail(pipe["in"]) \in Seq(Nat)
      /\ Len(Tail(pipe["in"])) = Len(pipe["in"]) - 1
      /\ \A i \in 1 .. Len(Tail(pipe["in"])) : Tail(pipe["in"])[i] = pipe["in"][i + 1]
      /\ Head(pipe["in"]) = pipe["in"][1]
  BY <1>1, HeadTailProperties
<1>3. /\ pipe' = [p \in U!Pipes |-> pipe'[p]] /\ pipe'["in"] = Tail(pipe["in"])
      /\ \A p \in Sides : pipe'[p] = pipe[p]
  BY <1>1 DEF U!Pipes, Sides
<1>4. Head(pipe["in"]) = got.units + 1 /\ input >= 0
  <2>1. 1 \in 1 .. Len(pipe["in"])
    BY <1>2
  <2> QED
    BY <1>2, <2>1, EndFacts DEF UnixInv, UnixInput
<1>5. got' = [got EXCEPT !.units = got.units + 1]
  BY <1>4
<1>6. got'.units = got.units + 1 /\ got'.eof = got.eof
  BY <1>1, <1>5
<1>7. Delivered' = Delivered /\ Delivered \in Int /\ got.units + 1 <= Delivered /\ Delivered <= input
  <2>1. Delivered' = (got.units + 1) + (Len(pipe["in"]) - 1)
    BY <1>2, <1>3, <1>6 DEF Delivered
  <2>2. got.units \in Nat
    BY <1>1
  <2>3. Delivered <= IF input < 0 THEN 0 ELSE input
    BY DEF UnixInv, UnixInput
  <2>8. input \in Int /\ ~(input < 0)
    BY <1>4, EndFacts
  <2>4. PICK n \in Nat : n = Len(pipe["in"]) /\ n > 0
    BY <1>2
  <2>5. Delivered = got.units + n /\ Delivered' = (got.units + 1) + (n - 1)
    BY <2>1, <2>4 DEF Delivered
  <2>6. PICK g \in Nat : g = got.units
    BY <2>2
  <2>7. Delivered = g + n /\ Delivered' = (g + 1) + (n - 1)
    BY <2>5, <2>6
  <2> QED
    BY <2>3, <2>4, <2>6, <2>7, <2>8, SMTT(30)
<1>8. got' \in [units : 0 .. MaxInput, eof : BOOLEAN]
  <2>1. input \in -1 .. MaxInput /\ MaxInput \in Nat
    BY EndFacts, UnixConstants
  <2>2. got.units + 1 \in 0 .. MaxInput
    <3>1. got.units \in Nat
      BY <1>1
    <3> QED
      BY <1>7, <2>1, <3>1
  <2> QED
    BY <1>1, <1>5, <2>2
<1>9. /\ child'.state = "running" /\ child.state = "running" /\ Len(child'.todo) <= Len(child.todo)
      /\ child' \in [state : {"none", "forked", "running", "zombie", "reaped"},
                     todo : Seq(Ops), code : Int]
      /\ Len(child'.todo) \in Nat /\ Len(child.todo) \in Nat
  <2>1. child \in [state : {"none", "forked", "running", "zombie", "reaped"},
                   todo : Seq(Ops), code : Int]
    BY DEF UnixInv, UnixTypes
  <2>2. CASE child' = child
    BY <2>1, <2>2, ProgramGoesOn
  <2>3. CASE child' = U!Done1
    BY <2>3, ProgramGoesOn
  <2> QED
    BY <2>2, <2>3
<1>10. UnixTypes'
  <2>1. \A p \in U!Pipes : Len(pipe'[p]) <= PipeSize
    <3>1. \A p \in U!Pipes : Len(pipe[p]) <= PipeSize
      BY DEF UnixInv, UnixTypes, U!TypeOK
    <3>2. U!Pipes = Sides \cup {"in"}
      BY DEF U!Pipes, Sides
    <3>3. Len(pipe'["in"]) <= PipeSize
      BY <1>2, <1>3, <3>1, <3>2, UnixConstants
    <3> QED
      BY <1>3, <3>1, <3>2, <3>3
  <2>2. got'.units \in -1 .. MaxInput
    BY <1>8
  <2>3. child'.state \in {"none", "forked", "running", "zombie", "reaped"}
    BY <1>9
  <2>4. U!TypeOK
    BY DEF UnixInv, UnixTypes
  <2>5. U!TypeOK'
    BY <2>1, <2>2, <2>3, <2>4 DEF U!TypeOK
  <2> QED
    BY <1>2, <1>3, <1>8, <1>9, <2>5 DEF UnixInv, UnixTypes, Sides
<1>11. UnixEnds' /\ UnixControl' /\ UnixSignals'
  BY <1>3, <1>9 DEF UnixInv, UnixEnds, UnixControl, UnixSignals, Feeds, Reads, Writes, Opens, Merged,
            U!Refused, U!Capture
<1>12. UnixEvents'
  BY <1>3 DEF UnixInv, UnixEvents, Feeds, Fed, Reads, Writes
<1>13. UnixInput'
  <2>1. \A k \in 1 .. Len(pipe'["in"]) : pipe'["in"][k] = got'.units + k
    <3> TAKE k \in 1 .. Len(pipe'["in"])
    <3>0. PICK n \in Nat : n = Len(pipe["in"]) /\ Len(pipe'["in"]) = n - 1
      BY <1>2, <1>3
    <3>1. k + 1 \in 1 .. Len(pipe["in"]) /\ pipe'["in"][k] = pipe["in"][k + 1]
      <4>1. k \in 1 .. n - 1 /\ k + 1 \in 1 .. n
        BY <3>0
      <4> QED
        BY <1>2, <1>3, <3>0, <4>1
    <3>2. pipe["in"][k + 1] = got.units + (k + 1)
      BY <3>1 DEF UnixInv, UnixInput
    <3> QED
      BY <1>1, <1>6, <3>1, <3>2
  <2>2. got.eof => got.units = input
    BY DEF UnixInv, UnixInput
  <2>3. ~got'.eof
    BY <1>1, <1>6, <1>7, <2>2
  <2> QED
    BY <1>7, <2>1, <2>3 DEF UnixInv, UnixInput, Feeds, Fed
<1>14. UnixOutput'
  <2>0. pipe'["out"] = pipe["out"] /\ pipe'["err"] = pipe["err"]
    BY <1>3 DEF Sides
  <2>1. Pending = Pending' /\ Finished = Finished'
    BY <2>0 DEF Pending, Finished, Merged
  <2>2. \A i \in DOMAIN wrote : wrote[i][2] \in Nat
    BY DEF UnixInv, UnixTypes, Unit
  <2>3. Len(child.todo) \in Nat /\ Len(child'.todo) \in Nat
    BY <1>9
  <2> QED
    BY <1>9, <2>1, <2>2, <2>3 DEF UnixInv, UnixOutput
<1> QED
  BY <1>10, <1>11, <1>12, <1>13, <1>14 DEF UnixInv

LEMMA ChildReadsKeeps ==
  ASSUME UnixInv, U!ChildReads
  PROVE  UnixInv'
<1>1. /\ U!Running
      /\ UNCHANGED <<pc, flags, input, ends, io, sigpipe, result, wrote, runs>>
  BY DEF U!ChildReads
<1>2. /\ child.state = "running" /\ U!Done1.state = "running"
      /\ Len(U!Done1.todo) <= Len(child.todo)
      /\ U!Done1 \in [state : {"none", "forked", "running", "zombie", "reaped"},
                      todo : Seq(Ops), code : Int]
  BY <1>1, ProgramGoesOn
<1>3. /\ ends.child \subseteq U!ChildKeeps(Opens)
      /\ \A p \in Sides : <<p, "w">> \in Opens => <<p, "w">> \in ends.child
  BY <1>2 DEF UnixInv, UnixEnds, Writes
<1>4. CASE child' = U!Done1 /\ UNCHANGED <<pipe, got>>
  BY <1>1, <1>2, <1>3, <1>4, EndFacts, ChildQuiet
<1>5. CASE /\ Fed /\ pipe["in"] # <<>>
           /\ pipe' = [pipe EXCEPT !["in"] = Tail(@)]
           /\ got' = [got EXCEPT !.units = IF Head(pipe["in"]) = @ + 1 THEN @ + 1 ELSE -1]
           /\ child' = IF Head(child.todo) = "read" THEN U!Done1 ELSE child
  BY <1>1, <1>5, ChildTakesUnit
<1>6. CASE /\ Fed /\ pipe["in"] = <<>> /\ U!Writers("in") = {}
           /\ got' = [got EXCEPT !.eof = TRUE] /\ child' = U!Done1 /\ UNCHANGED pipe
  <2>1. ~Feeds
    <3>1. "caller" \in DOMAIN ends
      BY EndFacts
    <3> QED
      BY <1>6, <3>1 DEF U!Writers, Feeds
  <2>2. got \in [units : 0 .. MaxInput, eof : BOOLEAN]
    BY DEF UnixInv, UnixTypes
  <2>3. got'.units = got.units /\ got' \in [units : 0 .. MaxInput, eof : BOOLEAN]
    BY <1>6, <2>2
  <2>4. got.units = input
    BY <1>6, <2>1, <2>2 DEF UnixInv, UnixInput, Delivered
  <2>5. UnixTypes'
    <3>1. U!TypeOK'
      BY <1>1, <1>2, <1>6, <2>3, SMTT(30) DEF UnixInv, UnixTypes, U!TypeOK
    <3> QED
      BY <1>1, <1>2, <1>6, <2>3, <3>1 DEF UnixInv, UnixTypes
  <2>6. UnixEnds' /\ UnixControl' /\ UnixSignals' /\ UnixEvents'
    BY <1>1, <1>2, <1>6
       DEF UnixInv, UnixEnds, UnixControl, UnixSignals, UnixEvents, Feeds, Fed, Reads, Writes, Opens,
           Merged, U!Refused, U!Capture
  <2>7. UnixInput'
    BY <1>1, <1>6, <2>3, <2>4 DEF UnixInv, UnixInput, Feeds, Fed, Delivered
  <2>8. UnixOutput'
    <3>1. Pending = Pending' /\ Finished = Finished'
      BY <1>1, <1>6 DEF Pending, Finished, Merged
    <3>2. \A i \in DOMAIN wrote : wrote[i][2] \in Nat
      BY DEF UnixInv, UnixTypes, Unit
    <3>3. Len(child.todo) \in Nat /\ Len(child'.todo) \in Nat
      BY <1>1, <1>6, ProgramGoesOn
    <3> QED
      BY <1>1, <1>2, <1>6, <3>1, <3>2, <3>3 DEF UnixInv, UnixOutput
  <2> QED
    BY <2>5, <2>6, <2>7, <2>8 DEF UnixInv
<1> QED
  BY <1>4, <1>5, <1>6 DEF U!ChildReads, Fed

(* A unit more: it is the last of its stream. *)
LEMMA UnitsAppended ==
  ASSUME NEW q \in Seq(Unit), NEW u \in Unit, NEW s \in Sides
  PROVE  /\ u[1] = s => /\ U!At(Append(q, u), s) = U!At(q, s) \cup {Len(q) + 1}
                        /\ Units(Append(q, u), s) = Units(q, s) \cup {u}
         /\ u[1] # s => /\ U!At(Append(q, u), s) = U!At(q, s)
                        /\ Units(Append(q, u), s) = Units(q, s)
<1>1. PICK n \in Nat : n = Len(q)
  OBVIOUS
<1>2. PICK a : a = Append(q, u)
  OBVIOUS
<1>3. /\ DOMAIN q = 1 .. n /\ DOMAIN a = 1 .. n + 1
      /\ \A i \in 1 .. n : a[i] = q[i] /\ a[n + 1] = u
      /\ a[n + 1] = u
  BY <1>1, <1>2, AppendProperties
<1>4. U!At(q, s) = {i \in 1 .. n : q[i][1] = s} /\ U!At(a, s) = {i \in 1 .. n + 1 : a[i][1] = s}
  BY <1>3 DEF U!At
<1>5. 1 .. n + 1 = (1 .. n) \cup {n + 1}
  BY <1>1
<1>6. CASE u[1] = s
  <2>1. U!At(a, s) = U!At(q, s) \cup {n + 1}
    BY <1>3, <1>4, <1>5, <1>6
  <2>2. Units(a, s) = Units(q, s) \cup {u}
    BY <1>3, <1>4, <2>1 DEF Units
  <2> QED
    BY <1>1, <1>2, <1>6, <2>1, <2>2
<1>7. CASE u[1] # s
  <2>1. U!At(a, s) = U!At(q, s)
    BY <1>3, <1>4, <1>5, <1>7
  <2>2. Units(a, s) = Units(q, s)
    BY <1>3, <1>4, <2>1 DEF Units
  <2> QED
    BY <1>1, <1>2, <1>7, <2>1, <2>2
<1> QED
  BY <1>6, <1>7

(* A stream goes on to be what was written. *)
LEMMA UnitAdded ==
  ASSUME NEW q \in Seq(Unit), NEW w \in Seq(Unit), NEW u \in Unit, NEW s \in Sides,
         Pure(q, w, s), \A i \in DOMAIN w : w[i][2] > u[2]
  PROVE  /\ u[1] = s => Pure(Append(q, u), Append(w, u), s)
         /\ u[1] # s => Pure(q, Append(w, u), s)
<1>3. \A x \in {q, w} : u[1] = s => Units(Append(x, u), s) = Units(x, s) \cup {u}
  BY UnitsAppended
<1>1. CASE u[1] # s
  BY <1>1, UnitsAppended DEF Pure, Ordered
<1>2. CASE u[1] = s
  <2>0. PICK n \in Nat : n = Len(q)
    OBVIOUS
  <2>1. PICK a : n = Len(q) /\ a = Append(q, u)
    BY <2>0
  <2>2. /\ DOMAIN q = 1 .. n /\ DOMAIN a = 1 .. n + 1
        /\ \A i \in 1 .. n : a[i] = q[i]
        /\ a[n + 1] = u
    BY <2>1, AppendProperties
  <2>3. U!At(a, s) = 1 .. n + 1 /\ U!At(q, s) = 1 .. n
    <3>1. U!At(a, s) = (1 .. n) \cup {n + 1}
      BY <1>2, <2>1, <2>2, UnitsAppended DEF Pure
    <3> QED
      BY <2>1, <2>2, <3>1 DEF Pure
  <2>4. Units(a, s) = Units(Append(w, u), s)
    <3>1. Units(Append(q, u), s) = Units(q, s) \cup {u}
      BY <1>2, <1>3, Zenon
    <3>2. Units(Append(w, u), s) = Units(w, s) \cup {u}
      BY <1>2, <1>3, Zenon
    <3> QED
      BY <2>1, <3>1, <3>2, Zenon DEF Pure, Ordered
  <2>5. \A i \in 1 .. n : q[i][2] > u[2]
    <3> TAKE i \in 1 .. n
    <3>1. q[i] \in Units(q, s)
      BY <2>3 DEF Units
    <3>2. PICK j \in U!At(w, s) : q[i] = w[j]
      BY <3>1 DEF Pure, Ordered, Units
    <3>3. j \in DOMAIN w
      BY DEF U!At
    <3> QED
      BY <3>2, <3>3
  <2>6. Falling(a, s)
    <3>1. SUFFICES ASSUME NEW i \in 1 .. n + 1, NEW j \in 1 .. n + 1, i < j PROVE a[i][2] > a[j][2]
      BY <2>3 DEF Falling
    <3>2. i \in 1 .. n
      BY <2>1, <3>1
    <3>3. CASE j = n + 1
      BY <2>2, <2>5, <3>2, <3>3
    <3>4. CASE j # n + 1
      <4>1. j \in 1 .. n
        BY <2>1, <3>4
      <4>2. q[i][2] > q[j][2]
        BY <2>3, <3>1, <3>2, <4>1 DEF Pure, Ordered, Falling
      <4> QED
        BY <2>2, <3>2, <4>1, <4>2
    <3> QED
      BY <3>3, <3>4
  <2> QED
    BY <1>2, <2>1, <2>2, <2>3, <2>4, <2>6 DEF Pure, Ordered
<1> QED
  BY <1>1, <1>2

(* A write goes to the pipe that the caller reads. *)
LEMMA ChildWritesKeeps ==
  ASSUME UnixInv, U!ChildWrites
  PROVE  UnixInv'
<1>1. PICK s, p, u : /\ s = Head(child.todo) /\ p = U!Sink(flags, s) /\ u = <<s, Len(child.todo)>>
  OBVIOUS
<1>2. /\ U!Running /\ s \in Sides /\ child' = U!Done1
      /\ UNCHANGED <<pc, flags, input, ends, io, sigpipe, result, got, runs>>
  BY <1>1 DEF U!ChildWrites, Sides
<1>3. /\ child.state = "running" /\ child'.state = "running"
      /\ Len(child.todo) \in Nat /\ Len(child'.todo) = Len(child.todo) - 1
      /\ child' \in [state : {"none", "forked", "running", "zombie", "reaped"},
                     todo : Seq(Ops), code : Int]
  BY <1>2, ProgramGoesOn
<1>4. /\ ends.child \subseteq U!ChildKeeps(Opens)
      /\ \A q \in Sides : <<q, "w">> \in Opens => <<q, "w">> \in ends.child
  BY <1>3 DEF UnixInv, UnixEnds, Writes
<1>5. CASE p = "none"
  <2>1. UNCHANGED <<pipe, wrote>>
    BY <1>1, <1>5 DEF U!ChildWrites
  <2>2. Len(child'.todo) <= Len(child.todo)
    BY <1>3
  <2> QED
    BY <1>2, <1>3, <1>4, <2>1, <2>2, EndFacts, ChildQuiet
<1>6. CASE p # "none"
  <2>1. /\ Len(pipe[p]) < PipeSize /\ pipe' = [pipe EXCEPT ![p] = Append(@, u)]
        /\ wrote' = Append(wrote, u)
    BY <1>1, <1>6 DEF U!ChildWrites
  <2>2. /\ p \in Sides /\ <<p, "w">> \in Opens
        /\ Merged => p = "out"
        /\ ~Merged => p = s
    <3>1. Merged => flags.out
      BY DEF UnixInv, UnixControl
    <3>2. /\ <<"out", "w">> \in Opens <=> flags.out
          /\ <<"err", "w">> \in Opens <=> U!OwnErr(flags)
      BY EndFacts, OpenedFacts DEF Opens
    <3>3. CASE s = "out"
      BY <1>1, <1>6, <3>2, <3>3 DEF U!Sink, Sides
    <3>4. CASE s = "err"
      BY <1>1, <1>6, <3>1, <3>2, <3>4 DEF U!Sink, Sides, U!OwnErr, Merged
    <3> QED
      BY <1>2, <3>3, <3>4 DEF Sides
  <2>3. Reads(p)
    BY <1>4, <2>2 DEF UnixInv, UnixEnds, Writes
  <2>4. /\ pipe = [x \in U!Pipes |-> pipe[x]] /\ wrote \in Seq(Unit)
        /\ \A x \in Sides : pipe[x] \in Seq(Unit)
        /\ io.stdout \in Seq(Unit) /\ io.stderr \in Seq(Unit)
        /\ pipe["in"] \in Seq(Nat)
    BY DEF UnixInv, UnixTypes, Sides
  <2>5. u \in Unit /\ u[1] = s /\ u[2] = Len(child.todo)
    BY <1>1, <1>2, <1>3 DEF Unit
  <2>6. /\ pipe' = [x \in U!Pipes |-> pipe'[x]] /\ pipe'[p] = Append(pipe[p], u)
        /\ \A x \in Sides \ {p} : pipe'[x] = pipe[x]
        /\ pipe'["in"] = pipe["in"]
    <3>1. p \in U!Pipes /\ p # "in" /\ Sides \subseteq U!Pipes /\ "in" \in U!Pipes
      BY <2>2 DEF Sides, U!Pipes
    <3> QED
      BY <2>1, <2>4, <3>1
  <2>7. /\ Append(pipe[p], u) \in Seq(Unit) /\ Len(Append(pipe[p], u)) = Len(pipe[p]) + 1
        /\ Append(pipe[p], u) # <<>> /\ Append(wrote, u) \in Seq(Unit)
    <3>1. pipe[p] \in Seq(Unit)
      BY <2>2, <2>4
    <3>2. PICK q \in Seq(Unit) : q = pipe[p]
      BY <3>1
    <3>3. Append(q, u) \in Seq(Unit) /\ Len(Append(q, u)) = Len(q) + 1 /\ Len(q) \in Nat
      BY <2>5, AppendProperties
    <3>4. Append(q, u) # <<>>
      BY <3>3
    <3> QED
      BY <2>4, <2>5, <3>2, <3>3, <3>4
  <2>8. UnixTypes'
    <3>1. \A x \in U!Pipes : Len(pipe'[x]) <= PipeSize
      <4>1. \A x \in U!Pipes : Len(pipe[x]) <= PipeSize
        BY DEF UnixInv, UnixTypes, U!TypeOK
      <4>2. U!Pipes = Sides \cup {"in"}
        BY DEF U!Pipes, Sides
      <4>3. Len(pipe'[p]) <= PipeSize
        <5>1. Len(pipe[p]) \in Nat
          BY <2>2, <2>4
        <5> QED
          BY <2>1, <2>6, <2>7, <5>1, UnixConstants
      <4> QED
        BY <2>6, <4>1, <4>2, <4>3
    <3>2. child'.state \in {"none", "forked", "running", "zombie", "reaped"}
      BY <1>3
    <3>3. U!TypeOK'
      BY <1>2, <3>1, <3>2, SMTT(30) DEF UnixInv, UnixTypes, U!TypeOK
    <3>4. \A x \in Sides : pipe'[x] \in Seq(Unit)
      BY <2>4, <2>6, <2>7
    <3> QED
      BY <1>2, <1>3, <2>1, <2>6, <2>7, <3>3, <3>4 DEF UnixInv, UnixTypes, Sides
  <2>9. UnixEnds' /\ UnixControl' /\ UnixSignals'
    <3>1. \A x \in Sides : ~Reads(x)' => pipe'[x] = <<>> /\ ~Writes(x)'
      BY <1>2, <2>3, <2>6 DEF UnixInv, UnixEnds, Reads, Writes
    <3> QED
      BY <1>2, <1>3, <3>1 DEF UnixInv, UnixEnds, UnixControl, UnixSignals, Feeds, Reads, Writes,
                              Opens, Merged, U!Refused, U!Capture
  <2>10. UnixEvents'
    BY <1>2, <2>6, <2>7 DEF UnixInv, UnixEvents, Feeds, Fed, Reads, Writes
  <2>11. UnixInput'
    BY <1>2, <2>6 DEF UnixInv, UnixInput, Feeds, Fed, Delivered
  <2>12. \A i \in DOMAIN wrote : wrote[i][2] > u[2]
    BY <2>5 DEF UnixInv, UnixOutput
  <2>15. \A a, b \in Seq(Unit) : a \o Append(b, u) = Append(a \o b, u)
    BY <2>5, AppendToSecond
  <2>13. Pending => Pending'
    <3>1. CASE Merged
      <4>1. p = "out" /\ Merged'
        BY <1>2, <2>2, <3>1 DEF Merged
      <4>2. io.stdout \o pipe'["out"] = Append(io.stdout \o pipe["out"], u)
        <5>1. pipe["out"] \in Seq(Unit) /\ pipe'["out"] = Append(pipe["out"], u)
          BY <2>2, <2>4, <2>6, <4>1
        <5>2. io.stdout \o Append(pipe["out"], u) = Append(io.stdout \o pipe["out"], u)
          BY <2>4, <2>15, <5>1, Zenon
        <5> QED
          BY <5>1, <5>2
      <4> QED
        BY <1>2, <2>1, <3>1, <4>1, <4>2 DEF Pending
    <3>2. CASE ~Merged
      <4>1. p = s /\ ~Merged'
        BY <1>2, <2>2, <3>2 DEF Merged
      <4>0. U!OwnErr(flags)' = U!OwnErr(flags)
        BY <1>2 DEF U!OwnErr
      <4>2. SUFFICES ASSUME Pending
                     PROVE  /\ Pure(io.stdout \o pipe'["out"], wrote', "out")
                            /\ Pure(io.stderr \o pipe'["err"], wrote', "err")
        <5> SUFFICES ASSUME Pending, Pure(io.stdout \o pipe'["out"], wrote', "out"),
                            Pure(io.stderr \o pipe'["err"], wrote', "err")
                     PROVE  Pending'
          OBVIOUS
        <5>1. io' = io /\ flags' = flags /\ result' = result
          BY <1>2
        <5>2. /\ result'.output = <<>> /\ result'.stdout = <<>> /\ result'.stderr = <<>>
              /\ ~flags'.out => io'.stdout = <<>>
              /\ ~U!OwnErr(flags)' => io'.stderr = <<>>
          BY <4>0, <5>1, Zenon DEF Pending
        <5>3. /\ Units(io'.output, "out") = Units(io'.stdout, "out")
              /\ Units(io'.output, "err") = Units(io'.stderr, "err")
              /\ \A x \in Sides : Falling(io'.output, x)
          BY <3>2, <5>1, Zenon DEF Pending
        <5>4. /\ Pure(io'.stdout \o pipe'["out"], wrote', "out")
              /\ Pure(io'.stderr \o pipe'["err"], wrote', "err")
          BY <5>1, Zenon
        <5> QED
          BY <4>1, <5>2, <5>3, <5>4, Zenon DEF Pending
      <4>3. /\ Pure(io.stdout \o pipe["out"], wrote, "out")
            /\ Pure(io.stderr \o pipe["err"], wrote, "err")
        BY <3>2, <4>2 DEF Pending
      <4>4. /\ io.stdout \o pipe["out"] \in Seq(Unit) /\ io.stderr \o pipe["err"] \in Seq(Unit)
        BY <2>4 DEF Sides
      <4>5. "out" \in Sides /\ "err" \in Sides /\ "out" # "err"
        BY DEF Sides
      <4>6. CASE s = "out"
        <5>1. io.stdout \o pipe'["out"] = Append(io.stdout \o pipe["out"], u)
          <6>1. pipe["out"] \in Seq(Unit) /\ pipe'["out"] = Append(pipe["out"], u)
            BY <2>4, <2>6, <4>1, <4>5, <4>6
          <6>2. io.stdout \o Append(pipe["out"], u) = Append(io.stdout \o pipe["out"], u)
            BY <2>4, <2>15, <6>1, Zenon
          <6> QED
            BY <6>1, <6>2
        <5>2. pipe'["err"] = pipe["err"]
          BY <2>6, <4>1, <4>5, <4>6
        <5> QED
          <6>1. Pure(Append(io.stdout \o pipe["out"], u), Append(wrote, u), "out")
            BY <2>4, <2>5, <2>12, <4>3, <4>4, <4>5, <4>6, UnitAdded, Zenon
          <6>2. Pure(io.stderr \o pipe["err"], Append(wrote, u), "err")
            BY <2>4, <2>5, <2>12, <4>3, <4>4, <4>5, <4>6, UnitAdded, Zenon
          <6> QED
            BY <2>1, <5>1, <5>2, <6>1, <6>2, Zenon
      <4>7. CASE s = "err"
        <5>1. io.stderr \o pipe'["err"] = Append(io.stderr \o pipe["err"], u)
          <6>1. pipe["err"] \in Seq(Unit) /\ pipe'["err"] = Append(pipe["err"], u)
            BY <2>4, <2>6, <4>1, <4>5, <4>7
          <6>2. io.stderr \o Append(pipe["err"], u) = Append(io.stderr \o pipe["err"], u)
            BY <2>4, <2>15, <6>1, Zenon
          <6> QED
            BY <6>1, <6>2
        <5>2. pipe'["out"] = pipe["out"]
          BY <2>6, <4>1, <4>5, <4>7
        <5> QED
          <6>1. Pure(Append(io.stderr \o pipe["err"], u), Append(wrote, u), "err")
            BY <2>4, <2>5, <2>12, <4>3, <4>4, <4>5, <4>7, UnitAdded, Zenon
          <6>2. Pure(io.stdout \o pipe["out"], Append(wrote, u), "out")
            BY <2>4, <2>5, <2>12, <4>3, <4>4, <4>5, <4>7, UnitAdded, Zenon
          <6> QED
            BY <2>1, <5>1, <5>2, <6>1, <6>2, Zenon
      <4> QED
        BY <1>2, <4>6, <4>7 DEF Sides
    <3> QED
      BY <3>1, <3>2
  <2>14. UnixOutput'
    <3>0. PICK n \in Nat : n = Len(wrote)
      BY <2>4
    <3>1. PICK w : n = Len(wrote) /\ w = Append(wrote, u)
      BY <3>0
    <3>2. /\ DOMAIN wrote = 1 .. n /\ DOMAIN w = 1 .. n + 1
          /\ \A i \in 1 .. n : w[i] = wrote[i]
          /\ w[n + 1] = u
      BY <2>4, <2>5, <3>1, AppendProperties
    <3>3. \A i \in 1 .. n : w[i][2] > Len(child.todo)
      BY <2>5, <2>12, <3>2
    <3>4. \A i \in 1 .. n : w[i][2] \in Nat
      BY <2>4, <3>1, <3>2 DEF Unit
    <3>5. \A i \in 1 .. n + 1 : w[i][2] > Len(child'.todo)
      <4> TAKE i \in 1 .. n + 1
      <4>1. CASE i = n + 1
        BY <1>3, <2>5, <3>2, <4>1
      <4>2. CASE i # n + 1
        <5>1. i \in 1 .. n
          BY <3>1, <4>2
        <5> QED
          BY <1>3, <3>3, <3>4, <5>1
      <4> QED
        BY <4>1, <4>2
    <3>6. \A i, j \in 1 .. n + 1 : i < j => w[i][2] > w[j][2]
      <4> SUFFICES ASSUME NEW i \in 1 .. n + 1, NEW j \in 1 .. n + 1, i < j PROVE w[i][2] > w[j][2]
        OBVIOUS
      <4>1. i \in 1 .. n
        BY <3>1
      <4>2. CASE j = n + 1
        BY <2>5, <3>2, <3>3, <4>1, <4>2
      <4>3. CASE j # n + 1
        <5>1. j \in 1 .. n
          BY <3>1, <4>3
        <5> QED
          BY <3>2, <4>1, <5>1 DEF UnixInv, UnixOutput
      <4> QED
        BY <4>2, <4>3
    <3>7. ends.caller # {}
      BY <2>3 DEF Reads
    <3> QED
      BY <1>2, <2>1, <2>13, <3>1, <3>2, <3>5, <3>6, <3>7 DEF UnixInv, UnixOutput
  <2> QED
    BY <2>8, <2>9, <2>10, <2>11, <2>14 DEF UnixInv
<1> QED
  BY <1>5, <1>6

LEMMA ChildKeeps == UnixInv /\ U!Child => UnixInv'
BY ChildExecKeeps, ChildWritesKeeps, ChildReadsKeeps, ChildClosesKeeps DEF U!Child

-----------------------------------------------------------------------------
(* Unix: a run begins.                                                      *)

LEMMA UnixStays == UnixInv /\ UNCHANGED unixVars => UnixInv'
<1> SUFFICES ASSUME UnixInv, UNCHANGED unixVars PROVE UnixInv'
  OBVIOUS
<1>1. /\ UNCHANGED <<pc, flags, input, pipe, io, sigpipe, result, wrote, got, runs>>
      /\ ends' = ends /\ child' = child
  BY DEF unixVars
<1>2. UnixTypes'
  <2>1. U!TypeOK'
    BY <1>1, SMTT(30) DEF UnixInv, UnixTypes, U!TypeOK
  <2> QED
    BY <1>1, <2>1 DEF UnixInv, UnixTypes
<1>3. UnixEnds' /\ UnixControl' /\ UnixSignals' /\ UnixEvents'
  BY <1>1 DEF UnixInv, UnixEnds, UnixControl, UnixSignals, UnixEvents, Feeds, Fed, Reads, Writes,
              Opens, Merged, U!Refused, U!Capture
<1>4. UnixInput'
  BY <1>1 DEF UnixInv, UnixInput, Feeds, Fed, Delivered
<1>5. UnixOutput'
  <2>1. Pending = Pending' /\ Finished = Finished'
    BY <1>1 DEF Pending, Finished, Merged
  <2> QED
    BY <1>1, <2>1 DEF UnixInv, UnixOutput
<1> QED
  BY <1>2, <1>3, <1>4, <1>5 DEF UnixInv

(* The result of an earlier run is dropped: everything of it was closed. *)
LEMMA ResultDropped ==
  ASSUME UnixInv, pc = "idle", child.state \in {"none", "reaped"}, pc' \in {"idle", "fatal"},
         ends' = [ends EXCEPT !.caller = {}], result' = U!NoResult, runs' \in 0 .. MaxRuns,
         UNCHANGED <<flags, input, pipe, child, io, sigpipe, wrote, got>>
  PROVE  UnixInv'
<1>1. ends.caller = {} /\ ends' = ends
  <2>1. ends.caller = {}
    BY DEF UnixInv, UnixEnds
  <2> QED
    BY <2>1, EndFacts
<1>2. /\ ~result'.pid /\ result'.output = <<>> /\ result'.stdout = <<>> /\ result'.stderr = <<>>
      /\ result' \in [pid : BOOLEAN, status : Int, exited : BOOLEAN,
                      output : Seq(Unit), stdout : Seq(Unit), stderr : Seq(Unit)]
  <2>1. <<>> \in Seq(Unit)
    OBVIOUS
  <2> QED
    BY <2>1 DEF U!NoResult
<1>3. UnixTypes'
  <2>1. U!TypeOK'
    BY <1>1 DEF UnixInv, UnixTypes, U!TypeOK
  <2> QED
    BY <1>1, <1>2, <2>1 DEF UnixInv, UnixTypes
<1>4. UnixEnds' /\ UnixControl' /\ UnixSignals' /\ UnixEvents'
  BY <1>1, <1>2 DEF UnixInv, UnixEnds, UnixControl, UnixSignals, UnixEvents, Feeds, Fed, Reads,
                    Writes, Opens, Merged, U!Refused, U!Capture
<1>5. UnixInput'
  BY <1>1 DEF UnixInv, UnixInput, Feeds, Fed, Delivered
<1>6. UnixOutput'
  BY <1>1, <1>2 DEF UnixInv, UnixOutput
<1> QED
  BY <1>3, <1>4, <1>5, <1>6 DEF UnixInv

LEMMA ResetKeeps ==
  ASSUME UnixInv, \/ U!Free
                  \/ \E f \in MCFlags, in \in -1 .. MaxInput : U!Refuse(f, in) \/ U!ForkFails(f, in)
  PROVE  UnixInv'
<1>1. CASE U!Free
  <2>1. runs \in 0 .. MaxRuns
    BY DEF UnixInv, UnixTypes, U!TypeOK
  <2> QED
    BY <1>1, <2>1, ResultDropped DEF U!Free
<1>2. ASSUME NEW f \in MCFlags, NEW in \in -1 .. MaxInput, U!Refuse(f, in) \/ U!ForkFails(f, in)
      PROVE  UnixInv'
  <2>1. runs \in 0 .. MaxRuns /\ runs < MaxRuns => runs + 1 \in 0 .. MaxRuns
    BY UnixConstants
  <2>2. runs \in 0 .. MaxRuns
    BY DEF UnixInv, UnixTypes, U!TypeOK
  <2>3. CASE U!Refuse(f, in)
    BY <2>1, <2>2, <2>3, ResultDropped DEF U!Refuse
  <2>4. CASE U!ForkFails(f, in)
    <3>1. ends.caller = {}
      BY <2>4 DEF U!ForkFails, UnixInv, UnixEnds
    <3> QED
      BY <2>2, <2>4, ResultDropped DEF U!ForkFails
  <2> QED
    BY <1>2, <2>3, <2>4
<1> QED
  BY <1>1, <1>2

(* Nothing has the units of nothing. *)
LEMMA NoUnits ==
  /\ \A s \in Sides : Pure(<<>>, <<>>, s) /\ Ordered(<<>>, <<>>, s) /\ Falling(<<>>, s)
  /\ \A s \in Sides : U!At(<<>>, s) = {} /\ Units(<<>>, s) = {}
  /\ <<>> \o <<>> = <<>> /\ <<>> \in Seq(Unit) /\ Len(<<>>) = 0
<1>1. DOMAIN <<>> = {}
  OBVIOUS
<1>2. \A s \in Sides : U!At(<<>>, s) = {}
  BY <1>1 DEF U!At
<1>3. <<>> \o <<>> = <<>> /\ <<>> \in Seq(Unit) /\ Len(<<>>) = 0
  BY ConcatEmptySeq
<1> QED
  BY <1>1, <1>2, <1>3 DEF Pure, Ordered, Falling, Units

(* Both sides have every end; nothing was written yet. *)
LEMMA StartKeeps ==
  ASSUME UnixInv, NEW f \in MCFlags, NEW in \in -1 .. MaxInput, NEW prog \in MCPrograms,
         U!Start(f, in, prog)
  PROVE  UnixInv'
<1>1. PICK g : g = U!Normalized(f)
  OBVIOUS
<1>2. /\ g \in [out: BOOLEAN, err: BOOLEAN, merge: BOOLEAN, async: BOOLEAN, detached: BOOLEAN,
                stdin: BOOLEAN]
      /\ g.merge /\ g.err => g.out
  <2>1. f \in [out: BOOLEAN, err: BOOLEAN, merge: BOOLEAN, async: BOOLEAN, detached: BOOLEAN,
               stdin: BOOLEAN]
    BY UnixConstants
  <2>2. g = [f EXCEPT !.out = f.out \/ (f.merge /\ f.err)]
    BY <1>1 DEF U!Normalized
  <2>3. g.out \in BOOLEAN /\ (g.out <=> f.out \/ (f.merge /\ f.err)) /\ g.merge = f.merge /\ g.err = f.err
    BY <2>1, <2>2
  <2> QED
    BY <2>1, <2>2, <2>3
<1>3. /\ pc = "idle" /\ runs < MaxRuns
      /\ ~U!Refused(g, in)
      /\ pc' = "forked" /\ flags' = g /\ input' = in
      /\ ends' = [p \in DOMAIN ends |-> U!Opened(g, in)]
      /\ pipe' = [p \in U!Pipes |-> <<>>]
      /\ child' = [state |-> "forked", todo |-> prog, code |-> 0]
      /\ result' = U!NoResult /\ wrote' = <<>> /\ got' = [units |-> 0, eof |-> FALSE]
      /\ runs' = runs + 1 /\ io' = io /\ sigpipe' = sigpipe
  BY <1>1 DEF U!Start
<1>4. /\ io.output = <<>> /\ io.stdout = <<>> /\ io.stderr = <<>> /\ io.offset = 0
      /\ sigpipe = "default"
  BY <1>3 DEF UnixInv, UnixOutput, UnixSignals
<1>5. in \in Int /\ Opens' = U!Opened(g, in)
  BY <1>3, UnixConstants DEF Opens
<1>6. /\ ends' \in [{"caller", "child"} -> SUBSET U!Ends]
      /\ ends'.caller = Opens' /\ ends'.child = Opens'
  <2>1. DOMAIN ends = {"caller", "child"}
    BY EndFacts
  <2>2. U!Opened(g, in) \subseteq U!Ends
    BY <1>5, OpenedFacts
  <2> QED
    BY <1>3, <1>5, <2>1, <2>2
<1>7. /\ \A x \in {"r", "w"} : <<"in", x>> \in Opens' <=> in >= 0
      /\ \A p \in Sides : <<p, "r">> \in Opens' <=> <<p, "w">> \in Opens'
  BY <1>5, OpenedFacts DEF Sides
<1>8. /\ result'.output = <<>> /\ result'.stdout = <<>> /\ result'.stderr = <<>> /\ ~result'.pid
      /\ result' \in [pid : BOOLEAN, status : Int, exited : BOOLEAN,
                      output : Seq(Unit), stdout : Seq(Unit), stderr : Seq(Unit)]
  BY <1>3, NoUnits DEF U!NoResult
<1>9. /\ \A p \in U!Pipes : pipe'[p] = <<>>
      /\ pipe'["out"] = <<>> /\ pipe'["err"] = <<>> /\ pipe'["in"] = <<>>
      /\ pipe' = [p \in U!Pipes |-> pipe'[p]]
  BY <1>3 DEF U!Pipes
<1>10. UnixTypes'
  <2>1. /\ runs' \in 0 .. MaxRuns /\ 0 \in 0 .. MaxInput /\ 0 \in -1 .. MaxInput /\ 0 <= PipeSize
    <3>1. runs \in 0 .. MaxRuns
      BY DEF UnixInv, UnixTypes, U!TypeOK
    <3> QED
      BY <1>3, <3>1, UnixConstants
  <2>2. \A p \in U!Pipes : Len(pipe'[p]) <= PipeSize
    BY <1>9, <2>1, NoUnits
  <2>3. child' \in [state : {"none", "forked", "running", "zombie", "reaped"},
                    todo : Seq(Ops), code : Int]
    BY <1>3, UnixConstants
  <2>4. got' \in [units : 0 .. MaxInput, eof : BOOLEAN] /\ got'.units = 0
    BY <1>3, <2>1
  <2>5. U!TypeOK'
    <3>1. /\ io.revents \in [U!Pipes -> {"none", "in", "out", "hup", "err"}]
          /\ io.offset \in 0 .. MaxInput
      BY DEF UnixInv, UnixTypes, U!TypeOK
    <3> QED
      BY <1>2, <1>3, <1>4, <1>6, <2>1, <2>2, <2>4, <3>1 DEF U!TypeOK
  <2>6. <<>> \in Seq(Nat)
    OBVIOUS
  <2> QED
    BY <1>3, <1>8, <1>9, <2>3, <2>4, <2>5, <2>6, NoUnits DEF UnixInv, UnixTypes
<1>11. UnixEnds'
  BY <1>3, <1>6, <1>7, <1>9 DEF UnixEnds, Reads, Writes, Sides, U!Pipes
<1>12. UnixControl' /\ UnixSignals' /\ UnixEvents'
  BY <1>2, <1>3, <1>4, <1>8 DEF UnixControl, UnixSignals, UnixEvents, Merged
<1>13. UnixInput'
  <2>1. Delivered' = 0
    BY <1>3, <1>9, NoUnits DEF Delivered
  <2>2. \A k \in 1 .. Len(pipe'["in"]) : pipe'["in"][k] = got'.units + k
    BY <1>9, NoUnits
  <2>3. (Feeds <=> in >= 0)' /\ (Fed <=> in >= 0)'
    BY <1>3, <1>6, <1>7 DEF Feeds, Fed
  <2> QED
    BY <1>3, <1>4, <1>5, <2>1, <2>2, <2>3 DEF UnixInput
<1>14. UnixOutput'
  <2>1. Pending'
    BY <1>3, <1>4, <1>8, <1>9, NoUnits DEF Pending, Sides
  <2>2. DOMAIN wrote' = {}
    BY <1>3
  <2> QED
    BY <1>3, <1>4, <1>8, <2>1, <2>2 DEF UnixOutput
<1> QED
  BY <1>10, <1>11, <1>12, <1>13, <1>14 DEF UnixInv

(* What is in no pipe any more is with the loop. *)
LEMMA Drained ==
  ASSUME UnixInv, Pending, ends.caller = {}
  PROVE  /\ Merged => wrote = io.stdout /\ io.output = io.stdout
         /\ ~Merged => /\ Pure(io.stdout, wrote, "out") /\ Pure(io.stderr, wrote, "err")
                       /\ \A s \in Sides : Ordered(io.output, wrote, s)
<1>1. pipe["out"] = <<>> /\ pipe["err"] = <<>>
  BY DEF UnixInv, UnixEnds, Reads, Sides
<1>2. io.stdout \in Seq(Unit) /\ io.stderr \in Seq(Unit)
  BY DEF UnixInv, UnixTypes
<1>3. io.stdout \o pipe["out"] = io.stdout /\ io.stderr \o pipe["err"] = io.stderr
  BY <1>1, <1>2, ConcatEmptySeq
<1> QED
  BY <1>3 DEF Pending, Pure, Ordered, Sides

(* The caller keeps its ends; without any it has all of nothing. *)
LEMMA StartedKeeps ==
  ASSUME UnixInv, U!Started
  PROVE  UnixInv'
<1>1. /\ pc = "forked" /\ ends' = [ends EXCEPT !.caller = U!CallerKeeps(@)]
      /\ result' = [result EXCEPT !.pid = TRUE]
      /\ pc' \in {"wait", "idle", "io"}
      /\ pc' = "idle" => flags.async /\ ~flags.detached
      /\ pc' = "io" => ~flags.async
      /\ pc' = "wait" => flags.detached \/ (~U!Capture(flags) /\ ~(input >= 0))
      /\ io' = [U!NoIo EXCEPT !.back = "wait"]
      /\ UNCHANGED <<flags, input, pipe, child, sigpipe, wrote, got, runs>>
  BY DEF U!Started
<1>2. /\ ends.caller = Opens /\ ends' \in [{"caller", "child"} -> SUBSET U!Ends]
      /\ ends'.caller = U!CallerKeeps(Opens) /\ ends'.child = ends.child
  <2>1. ends.caller = Opens
    BY <1>1 DEF UnixInv, UnixEnds
  <2>2. U!CallerKeeps(Opens) \subseteq Opens
    BY DEF U!CallerKeeps
  <2> QED
    BY <1>1, <2>1, <2>2, EndFacts
<1>3. Opens' = Opens
  BY <1>1 DEF Opens
<1>4. /\ io'.output = <<>> /\ io'.stdout = <<>> /\ io'.stderr = <<>> /\ io'.offset = 0
      /\ io'.back = "wait"
      /\ io' \in [output : Seq(Unit), stdout : Seq(Unit), stderr : Seq(Unit), offset : 0 .. MaxInput,
                  revents : [U!Pipes -> {"none", "in", "out", "hup", "err"}], back : {"idle", "wait"}]
  <2>1. 0 \in 0 .. MaxInput /\ <<>> \in Seq(Unit)
    BY UnixConstants, NoUnits
  <2> QED
    BY <1>1, <2>1 DEF U!NoIo, U!Quiet
<1>5. io.output = <<>> /\ io.stdout = <<>> /\ io.stderr = <<>> /\ io.offset = 0 /\ sigpipe = "default"
  BY <1>1 DEF UnixInv, UnixOutput, UnixSignals
<1>6. /\ result'.pid /\ result'.output = result.output /\ result'.stdout = result.stdout
      /\ result'.stderr = result.stderr /\ result'.status = result.status
      /\ result' \in [pid : BOOLEAN, status : Int, exited : BOOLEAN,
                      output : Seq(Unit), stdout : Seq(Unit), stderr : Seq(Unit)]
  <2>1. result \in [pid : BOOLEAN, status : Int, exited : BOOLEAN,
                    output : Seq(Unit), stdout : Seq(Unit), stderr : Seq(Unit)]
    BY DEF UnixInv, UnixTypes
  <2> QED
    BY <1>1, <2>1
<1>7. /\ \A p \in Sides : Reads(p)' <=> Reads(p)
      /\ Feeds' <=> Feeds
      /\ pc' = "wait" => ends'.caller = {}
  <2>1. /\ \A p \in Sides : Reads(p)' <=> Reads(p)
        /\ Feeds' <=> Feeds
    BY <1>2, KeptFacts DEF Reads, Feeds
  <2>2. ASSUME pc' = "wait" PROVE ends'.caller = {}
    <3>1. ~U!Capture(flags) /\ ~(input >= 0)
      BY <1>1, <2>2 DEF UnixInv, UnixControl, U!Refused
    <3>2. ~Feeds /\ \A p \in Sides : ~Reads(p)
      BY <3>1, EndFacts DEF U!Capture, U!OwnErr, Sides
    <3> QED
      BY <1>2, <2>1, <3>2, NoEnds DEF Reads, Feeds
  <2> QED
    BY <2>1, <2>2
<1>8. child.state \in {"forked", "running", "zombie"}
  BY <1>1 DEF UnixInv, UnixTypes, UnixControl
<1>9. UnixTypes'
  <2>1. U!TypeOK'
    <3>1. /\ io'.revents \in [U!Pipes -> {"none", "in", "out", "hup", "err"}]
          /\ io'.offset \in 0 .. MaxInput
      BY <1>4
    <3> QED
      BY <1>1, <1>2, <3>1, ZenonT(40) DEF UnixInv, UnixTypes, U!TypeOK
  <2> QED
    BY <1>1, <1>4, <1>6, <2>1 DEF UnixInv, UnixTypes
<1>10. UnixEnds'
  BY <1>1, <1>2, <1>3, <1>7, <1>8 DEF UnixInv, UnixEnds, Writes
<1>11. UnixControl' /\ UnixSignals' /\ UnixEvents'
  BY <1>1, <1>4, <1>5, <1>6, <1>7, <1>8
     DEF UnixInv, UnixControl, UnixSignals, UnixEvents, Merged, U!Refused, U!Capture
<1>12. UnixInput'
  BY <1>1, <1>2, <1>4, <1>5, <1>7 DEF UnixInv, UnixInput, Fed, Delivered
<1>13. Pending
  BY <1>1 DEF UnixInv, UnixOutput
<1>14. Pending'
  <2>1. /\ U!OwnErr(flags)' = U!OwnErr(flags) /\ Merged' = Merged
        /\ flags' = flags /\ pipe' = pipe /\ wrote' = wrote
        /\ io'.output = io.output /\ io'.stdout = io.stdout /\ io'.stderr = io.stderr
    BY <1>1, <1>4, <1>5 DEF U!OwnErr, Merged
  <2> QED
    BY <1>6, <1>13, <2>1, Zenon DEF Pending
<1>15. UnixOutput'
  <2>1. ASSUME ends'.caller = {} PROVE Finished'
    <3>1. \A p \in Sides : ~Reads(p)
      BY <1>2, <1>7, <2>1 DEF Reads
    <3>2. pipe["out"] = <<>> /\ pipe["err"] = <<>>
      BY <3>1 DEF UnixInv, UnixEnds, Sides
    <3>3. Merged => wrote = <<>>
      BY <1>5, <1>13, <3>2, NoUnits DEF Pending
    <3>4. ~Merged => /\ Pure(<<>>, wrote, "out") /\ Pure(<<>>, wrote, "err")
      BY <1>5, <1>13, <3>2, NoUnits DEF Pending
    <3>5. result'.output = <<>> /\ result'.stdout = <<>> /\ result'.stderr = <<>>
      BY <1>6, <1>13 DEF Pending
    <3>6. Merged' = Merged /\ wrote' = wrote
      BY <1>1 DEF Merged
    <3> QED
      BY <3>3, <3>4, <3>5, <3>6 DEF Finished, Pure, Sides
  <2> QED
    BY <1>1, <1>4, <1>14, <2>1 DEF UnixInv, UnixOutput
<1> QED
  BY <1>9, <1>10, <1>11, <1>12, <1>15 DEF UnixInv

-----------------------------------------------------------------------------
(* Unix: the poll loop.                                                     *)

LEMMA EnterIoKeeps ==
  ASSUME UnixInv, U!EnterIo
  PROVE  UnixInv'
<1>1. /\ pc = "io" /\ pc' = "poll"
      /\ IF Feeds /\ input = 0
         THEN ends' = [ends EXCEPT !.caller = @ \ {<<"in", "w">>}] ELSE ends' = ends
      /\ sigpipe' = IF Feeds /\ input > 0 THEN "ignored" ELSE sigpipe
      /\ UNCHANGED <<flags, input, pipe, child, io, result, wrote, got, runs>>
  BY DEF U!EnterIo, Feeds
<1>2. /\ ends' \in [{"caller", "child"} -> SUBSET U!Ends]
      /\ ends'.child = ends.child /\ ends'.caller \subseteq ends.caller
      /\ \A p \in Sides : Reads(p)' <=> Reads(p)
      /\ Feeds' <=> Feeds /\ input # 0
  <2>1. \A p \in Sides : <<p, "r">> # <<"in", "w">>
    OBVIOUS
  <2> QED
    BY <1>1, <2>1, EndFacts DEF Reads, Feeds
<1>3. Feeds => input \in Int /\ input >= 0
  BY EndFacts
<1>4. UnixTypes'
  <2>1. sigpipe' \in {"default", "ignored"}
    BY <1>1 DEF UnixInv, UnixTypes, U!TypeOK
  <2>2. U!TypeOK'
    BY <1>1, <1>2, <2>1 DEF UnixInv, UnixTypes, U!TypeOK
  <2> QED
    BY <1>1, <2>2 DEF UnixInv, UnixTypes
<1>5. UnixEnds'
  BY <1>1, <1>2 DEF UnixInv, UnixEnds, Writes, Opens
<1>6. UnixControl' /\ UnixSignals' /\ UnixEvents'
  BY <1>1, <1>2, <1>3
     DEF UnixInv, UnixControl, UnixSignals, UnixEvents, Merged, U!Refused, U!Capture
<1>7. UnixInput'
  <2>1. io.offset = 0
    BY <1>1 DEF UnixInv, UnixOutput
  <2>2. Delivered' = Delivered /\ (Fed' <=> Fed)
    BY <1>1, <1>2 DEF Delivered, Fed
  <2>3. Feeds /\ input = 0 => Delivered = input
    BY <2>1 DEF UnixInv, UnixInput
  <2>4. Feeds' => io.offset < input
    BY <1>2, <1>3, <2>1
  <2> QED
    BY <1>1, <1>2, <2>2, <2>3, <2>4 DEF UnixInv, UnixInput
<1>8. Pending' = Pending
  BY <1>1 DEF Pending, Merged
<1>9. UnixOutput'
  BY <1>1, <1>8 DEF UnixInv, UnixOutput
<1> QED
  BY <1>4, <1>5, <1>6, <1>7, <1>9 DEF UnixInv

(* The snapshot is what the invariant says of it. *)
LEMMA PollKeeps ==
  ASSUME UnixInv, U!Poll
  PROVE  UnixInv'
<1>1. /\ pc = "poll" /\ pc' = "handle"
      /\ io' = [io EXCEPT !.revents = [p \in U!Pipes |-> U!Ready(p)]]
      /\ UNCHANGED <<flags, input, ends, pipe, child, sigpipe, result, wrote, got, runs>>
  BY DEF U!Poll
<1>2. /\ io \in [output : Seq(Unit), stdout : Seq(Unit), stderr : Seq(Unit), offset : 0 .. MaxInput,
                 revents : [U!Pipes -> {"none", "in", "out", "hup", "err"}], back : {"idle", "wait"}]
      /\ \A p \in U!Pipes : U!Ready(p) \in {"none", "in", "out", "hup", "err"}
  BY DEF UnixInv, UnixTypes, U!Ready
<1>3. /\ io' \in [output : Seq(Unit), stdout : Seq(Unit), stderr : Seq(Unit), offset : 0 .. MaxInput,
                  revents : [U!Pipes -> {"none", "in", "out", "hup", "err"}], back : {"idle", "wait"}]
      /\ \A p \in U!Pipes : io'.revents[p] = U!Ready(p)
      /\ io'.output = io.output /\ io'.stdout = io.stdout /\ io'.stderr = io.stderr
      /\ io'.offset = io.offset /\ io'.back = io.back
  BY <1>1, <1>2
<1>4. UnixTypes'
  <2>1. io'.revents \in [U!Pipes -> {"none", "in", "out", "hup", "err"}] /\ io'.offset \in 0 .. MaxInput
    BY <1>3
  <2>2. U!TypeOK'
    BY <1>1, <2>1 DEF UnixInv, UnixTypes, U!TypeOK
  <2> QED
    BY <1>1, <1>3, <2>2 DEF UnixInv, UnixTypes
<1>5. UnixEnds' /\ UnixControl' /\ UnixSignals'
  BY <1>1, <1>3 DEF UnixInv, UnixEnds, UnixControl, UnixSignals, Feeds, Reads, Writes, Opens,
                    Merged, U!Refused, U!Capture
<1>6. UnixEvents'
  <2>1. "child" \in DOMAIN ends
    BY EndFacts
  <2>2. \A p \in U!Pipes : U!Writers(p) = {} => <<p, "w">> \notin ends.child
    BY <2>1 DEF U!Writers
  <2>3. U!Readers("in") = {} => ~Fed
    BY <2>1 DEF U!Readers, Fed
  <2>4. \A p \in Sides : U!Ready(p) # "none" => Reads(p) /\ (pipe[p] # <<>> \/ ~Writes(p))
    BY <2>2 DEF U!Ready, Reads, Writes, Sides, U!Pipes
  <2>5. /\ U!Ready("in") # "none" => Feeds
        /\ U!Ready("in") = "err" => ~Fed
    BY <2>3 DEF U!Ready, Feeds
  <2>6. Sides \subseteq U!Pipes /\ "in" \in U!Pipes
    BY DEF Sides, U!Pipes
  <2> QED
    BY <1>1, <1>3, <2>4, <2>5, <2>6 DEF UnixEvents, Feeds, Fed, Reads, Writes
<1>7. UnixInput'
  BY <1>1, <1>3 DEF UnixInv, UnixInput, Feeds, Fed, Delivered
<1>8. Pending' = Pending
  BY <1>1, <1>3 DEF Pending, Merged
<1>9. UnixOutput'
  BY <1>1, <1>8 DEF UnixInv, UnixOutput
<1> QED
  BY <1>4, <1>5, <1>6, <1>7, <1>9 DEF UnixInv

(* The units of two texts, one after the other. *)
LEMMA UnitsJoined ==
  ASSUME NEW a \in Seq(Unit), NEW d \in Seq(Unit), NEW s \in Sides
  PROVE  /\ U!At(a \o d, s) = U!At(a, s) \cup {Len(a) + i : i \in U!At(d, s)}
         /\ Units(a \o d, s) = Units(a, s) \cup Units(d, s)
         /\ \A i \in U!At(a, s) : i \in 1 .. Len(a) /\ (a \o d)[i] = a[i] /\ a[i] \in Units(a, s)
         /\ \A i \in U!At(d, s) : (a \o d)[Len(a) + i] = d[i] /\ d[i] \in Units(d, s)
<1>1. PICK m \in Nat : m = Len(a)
  OBVIOUS
<1>2. PICK n \in Nat : n = Len(d)
  OBVIOUS
<1>3. PICK c : c = a \o d
  OBVIOUS
<1>4. /\ DOMAIN a = 1 .. m /\ DOMAIN d = 1 .. n /\ DOMAIN c = 1 .. m + n
      /\ \A i \in 1 .. m : c[i] = a[i]
      /\ \A i \in 1 .. n : c[m + i] = d[i]
  BY <1>1, <1>2, <1>3
<1>5. /\ U!At(a, s) = {i \in 1 .. m : a[i][1] = s} /\ U!At(d, s) = {i \in 1 .. n : d[i][1] = s}
      /\ U!At(c, s) = {i \in 1 .. m + n : c[i][1] = s}
  BY <1>4 DEF U!At
<1>6. U!At(c, s) = U!At(a, s) \cup {m + i : i \in U!At(d, s)}
  <2>1. ASSUME NEW k \in U!At(c, s) PROVE k \in U!At(a, s) \cup {m + i : i \in U!At(d, s)}
    <3>1. k \in 1 .. m + n /\ c[k][1] = s
      BY <1>5
    <3>2. CASE k \in 1 .. m
      BY <1>4, <1>5, <3>1, <3>2
    <3>3. CASE k \notin 1 .. m
      <4>1. PICK i \in 1 .. n : k = m + i
        <5>1. k - m \in 1 .. n /\ k = m + (k - m)
          BY <3>1, <3>3
        <5> QED
          BY <5>1
      <4>2. i \in U!At(d, s)
        BY <1>4, <1>5, <3>1, <4>1
      <4> QED
        BY <4>1, <4>2
    <3> QED
      BY <3>2, <3>3
  <2>2. ASSUME NEW i \in U!At(d, s) PROVE m + i \in U!At(c, s)
    <3>1. i \in 1 .. n /\ m + i \in 1 .. m + n
      BY <1>5
    <3> QED
      BY <1>4, <1>5, <3>1
  <2>3. ASSUME NEW i \in U!At(a, s) PROVE i \in U!At(c, s)
    <3>1. i \in 1 .. m /\ i \in 1 .. m + n
      BY <1>5
    <3> QED
      BY <1>4, <1>5, <3>1
  <2> QED
    BY <2>1, <2>2, <2>3
<1>7. /\ \A i \in U!At(a, s) : i \in 1 .. m /\ c[i] = a[i]
      /\ \A i \in U!At(d, s) : c[m + i] = d[i]
  BY <1>4, <1>5
<1>8. Units(c, s) = Units(a, s) \cup Units(d, s)
  BY <1>6, <1>7 DEF Units
<1>9. /\ \A i \in U!At(a, s) : a[i] \in Units(a, s)
      /\ \A i \in U!At(d, s) : d[i] \in Units(d, s)
  BY DEF Units
<1> QED
  BY <1>1, <1>3, <1>6, <1>7, <1>8, <1>9

(* A text grows by the next units of stream s: it stays in order. *)
LEMMA NextUnits ==
  ASSUME NEW t \in Seq(Unit), NEW o \in Seq(Unit), NEW d \in Seq(Unit), NEW s \in Sides,
         Falling(t \o d, s), Units(o, s) = Units(t, s), Falling(o, s)
  PROVE  Units(o \o d, s) = Units(t \o d, s) /\ Falling(o \o d, s)
<1>1. Units(o \o d, s) = Units(t \o d, s)
  <2>1. Units(o \o d, s) = Units(o, s) \cup Units(d, s)
    BY UnitsJoined
  <2>2. Units(t \o d, s) = Units(t, s) \cup Units(d, s)
    BY UnitsJoined
  <2> QED
    BY <2>1, <2>2
<1>2. PICK m \in Nat : m = Len(o)
  OBVIOUS
<1>3. PICK k \in Nat : k = Len(t)
  OBVIOUS
<1>4. \A i \in U!At(d, s) : i \in Nat /\ i >= 1
  BY DEF U!At
<1>5. ASSUME NEW i \in U!At(o, s), NEW j \in U!At(d, s) PROVE o[i][2] > d[j][2]
  <2>1. o[i] \in Units(t, s)
    BY DEF Units
  <2>2. PICK l \in U!At(t, s) : t[l] = o[i]
    BY <2>1 DEF Units
  <2>3. /\ l \in U!At(t \o d, s) /\ k + j \in U!At(t \o d, s) /\ l \in 1 .. k
        /\ (t \o d)[l] = t[l] /\ (t \o d)[k + j] = d[j]
    BY <1>3, UnitsJoined
  <2>4. l < k + j
    BY <1>4, <2>3
  <2> QED
    BY <2>2, <2>3, <2>4 DEF Falling
<1>6. ASSUME NEW i \in U!At(d, s), NEW j \in U!At(d, s), i < j PROVE d[i][2] > d[j][2]
  <2>1. /\ k + i \in U!At(t \o d, s) /\ k + j \in U!At(t \o d, s)
        /\ (t \o d)[k + i] = d[i] /\ (t \o d)[k + j] = d[j]
    BY <1>3, UnitsJoined, SMTT(30)
  <2>2. k + i < k + j
    BY <1>4, <1>6
  <2> QED
    BY <2>1, <2>2 DEF Falling
<1>7. Falling(o \o d, s)
  <2> SUFFICES ASSUME NEW x \in U!At(o \o d, s), NEW y \in U!At(o \o d, s), x < y
               PROVE  (o \o d)[x][2] > (o \o d)[y][2]
    BY DEF Falling
  <2>1. /\ x \in U!At(o, s) \/ \E i \in U!At(d, s) : x = m + i
        /\ y \in U!At(o, s) \/ \E i \in U!At(d, s) : y = m + i
    BY <1>2, UnitsJoined
  <2>2. /\ \A i \in U!At(o, s) : i \in 1 .. m /\ (o \o d)[i] = o[i]
        /\ \A i \in U!At(d, s) : (o \o d)[m + i] = d[i]
    BY <1>2, UnitsJoined
  <2>3. CASE x \in U!At(o, s) /\ y \in U!At(o, s)
    BY <2>2, <2>3 DEF Falling
  <2>4. CASE x \in U!At(o, s) /\ \E i \in U!At(d, s) : y = m + i
    BY <1>5, <2>2, <2>4, ZenonT(40)
  <2>5. ASSUME NEW i \in U!At(d, s), x = m + i PROVE (o \o d)[x][2] > (o \o d)[y][2]
    <3>1. y \notin U!At(o, s)
      BY <1>4, <2>2, <2>5
    <3>2. PICK j \in U!At(d, s) : y = m + j
      BY <2>1, <3>1
    <3>3. i < j
      BY <1>4, <2>5, <3>2
    <3> QED
      BY <1>6, <2>2, <2>5, <3>2, <3>3
  <2> QED
    BY <2>1, <2>3, <2>4, <2>5
<1> QED
  BY <1>1, <1>7

(* The units of the other stream stay as they are. *)
LEMMA OtherUnits ==
  ASSUME NEW o \in Seq(Unit), NEW d \in Seq(Unit), NEW s \in Sides, U!At(d, s) = {}, Falling(o, s)
  PROVE  Units(o \o d, s) = Units(o, s) /\ Falling(o \o d, s)
<1>1. U!At(o \o d, s) = U!At(o, s) /\ \A i \in U!At(o, s) : (o \o d)[i] = o[i]
  <2>1. U!At(o \o d, s) = U!At(o, s) \cup {Len(o) + i : i \in U!At(d, s)}
    BY UnitsJoined
  <2>2. \A i \in U!At(o, s) : (o \o d)[i] = o[i]
    BY UnitsJoined
  <2>3. {Len(o) + i : i \in U!At(d, s)} = {}
    OBVIOUS
  <2> QED
    BY <2>1, <2>2, <2>3
<1>2. Units(o \o d, s) = Units(o, s)
  BY <1>1 DEF Units
<1> QED
  BY <1>1, <1>2 DEF Falling

LEMMA LeastOfTwo ==
  ASSUME NEW x \in Int, NEW y \in Int
  PROVE  U!Min({x, y}) = IF x <= y THEN x ELSE y
BY DEF U!Min

(* The next units of stream p go to the text o, which has all before them. *)
LEMMA StreamMoves ==
  ASSUME NEW w, NEW t \in Seq(Unit), NEW d \in Seq(Unit), NEW r \in Seq(Unit),
         NEW o \in Seq(Unit), NEW p \in Sides, NEW x \in Sides \ {p},
         Pure((t \o d) \o r, w, p), Units(o, p) = Units(t, p), Falling(o, p), Falling(o, x)
  PROVE  /\ Units(o \o d, p) = Units(t \o d, p) /\ Units(o \o d, x) = Units(o, x)
         /\ Falling(o \o d, p) /\ Falling(o \o d, x)
<1>2. t \o d \in Seq(Unit)
  OBVIOUS
<1>3. PICK a \in Seq(Unit) : a = t \o d
  BY <1>2
<1>4. Pure(a \o r, w, p)
  BY <1>3
<1>5. /\ \A i \in U!At(a, p) : i \in U!At(a \o r, p) /\ (a \o r)[i] = a[i]
  <2>1. U!At(a \o r, p) = U!At(a, p) \cup {Len(a) + i : i \in U!At(r, p)}
    BY UnitsJoined
  <2>2. \A i \in U!At(a, p) : (a \o r)[i] = a[i]
    BY UnitsJoined
  <2> QED
    BY <2>1, <2>2
<1>6. Falling(a, p) /\ Falling(t \o d, p)
  BY <1>3, <1>4, <1>5 DEF Pure, Ordered, Falling
<1>7. /\ Units(o \o d, p) = Units(t \o d, p)
      /\ Falling(o \o d, p)
  BY <1>6, NextUnits
<1>8. U!At(d, x) = {}
  <2>1. U!At(a \o r, p) = DOMAIN (a \o r)
    BY <1>4 DEF Pure
  <2>2. PICK m \in Nat : m = Len(t)
    OBVIOUS
  <2>3. PICK k \in Nat : k = Len(d)
    OBVIOUS
  <2>4. DOMAIN d = 1 .. k /\ Len(a) = m + k /\ \A i \in 1 .. k : a[m + i] = d[i]
    BY <1>3, <2>2, <2>3
  <2>5. \A i \in 1 .. k : m + i \in 1 .. Len(a)
    BY <2>2, <2>3, <2>4
  <2>6. \A i \in 1 .. Len(a) : i \in DOMAIN (a \o r) /\ (a \o r)[i] = a[i]
    OBVIOUS
  <2>7. \A i \in 1 .. k : d[i][1] = p
    <3> TAKE i \in 1 .. k
    <3>1. m + i \in U!At(a \o r, p) /\ (a \o r)[m + i] = a[m + i] /\ a[m + i] = d[i]
      BY <2>1, <2>4, <2>5, <2>6
    <3>2. (a \o r)[m + i][1] = p
      BY <3>1 DEF U!At
    <3> QED
      BY <3>1, <3>2
  <2> QED
    BY <2>4, <2>7 DEF U!At
<1>9. /\ Units(o \o d, x) = Units(o, x)
      /\ Falling(o \o d, x)
  BY <1>8, OtherUnits
<1> QED
  BY <1>7, <1>9

LEMMA JoinedTwice == \A a, x, y \in Seq(Unit) : (a \o x) \o y = a \o (x \o y)
BY ConcatAssociative, SMTT(30)

(* A read moves the front of the pipe to the builders. *)
LEMMA FrontTaken ==
  ASSUME UnixInv, Pending, NEW p \in Sides, Reads(p),
         NEW d \in Seq(Unit), NEW r \in Seq(Unit), d \o r = pipe[p]
  PROVE  /\ p = "out" => flags.out
         /\ p = "err" => U!OwnErr(flags)
         /\ Merged => p = "out" /\ wrote = (io.stdout \o d) \o r /\ io.output \o d = io.stdout \o d
         /\ ~Merged /\ p = "out" =>
              /\ Pure((io.stdout \o d) \o r, wrote, "out")
              /\ Units(io.output \o d, "out") = Units(io.stdout \o d, "out")
              /\ Units(io.output \o d, "err") = Units(io.stderr, "err")
              /\ \A s \in Sides : Falling(io.output \o d, s)
         /\ ~Merged /\ p = "err" =>
              /\ Pure((io.stderr \o d) \o r, wrote, "err")
              /\ Units(io.output \o d, "err") = Units(io.stderr \o d, "err")
              /\ Units(io.output \o d, "out") = Units(io.stdout, "out")
              /\ \A s \in Sides : Falling(io.output \o d, s)
<1>1. /\ io.stdout \in Seq(Unit) /\ io.stderr \in Seq(Unit) /\ io.output \in Seq(Unit)
      /\ pipe[p] \in Seq(Unit)
  BY DEF UnixInv, UnixTypes, Sides
<1>3. /\ (io.stdout \o d) \o r = io.stdout \o pipe[p]
      /\ (io.stderr \o d) \o r = io.stderr \o pipe[p]
  <2>1. \A a \in Seq(Unit) : (a \o d) \o r = a \o (d \o r)
    BY JoinedTwice, Zenon
  <2> QED
    BY <1>1, <2>1, Zenon
<1>4. /\ p = "out" => flags.out
      /\ p = "err" => U!OwnErr(flags)
      /\ Merged => p = "out"
  BY EndFacts DEF Merged, U!OwnErr, Sides
<1>5. "out" \in Sides /\ "err" \in Sides
  BY DEF Sides
<1>6. CASE Merged
  BY <1>3, <1>4, <1>6 DEF Pending
<1>8. CASE ~Merged
  <2>1. /\ Pure(io.stdout \o pipe["out"], wrote, "out")
        /\ Pure(io.stderr \o pipe["err"], wrote, "err")
        /\ Units(io.output, "out") = Units(io.stdout, "out")
        /\ Units(io.output, "err") = Units(io.stderr, "err")
        /\ Falling(io.output, "out") /\ Falling(io.output, "err")
    BY <1>5, <1>8 DEF Pending
  <2>2. CASE p = "out"
    <3>1. "err" \in Sides \ {p}
      BY <1>5, <2>2
    <3>2. /\ Pure((io.stdout \o d) \o r, wrote, p)
          /\ Units(io.output \o d, p) = Units(io.stdout \o d, p)
          /\ Units(io.output \o d, "err") = Units(io.output, "err")
          /\ Falling(io.output \o d, p) /\ Falling(io.output \o d, "err")
      <4>1. /\ Pure((io.stdout \o d) \o r, wrote, p) /\ Units(io.output, p) = Units(io.stdout, p)
            /\ Falling(io.output, p) /\ Falling(io.output, "err")
        BY <1>3, <2>1, <2>2
      <4>2. PICK t \in Seq(Unit) : t = io.stdout
        BY <1>1
      <4>3. PICK o \in Seq(Unit) : o = io.output
        BY <1>1
      <4>4. /\ Units(o \o d, p) = Units(t \o d, p) /\ Units(o \o d, "err") = Units(o, "err")
            /\ Falling(o \o d, p) /\ Falling(o \o d, "err")
        <5>1. Pure((t \o d) \o r, wrote, p)
          BY <4>1, <4>2
        <5>2. Units(o, p) = Units(t, p) /\ Falling(o, p) /\ Falling(o, "err")
          BY <4>1, <4>2, <4>3
        <5> QED
          BY <3>1, <5>1, <5>2, StreamMoves
      <4> QED
        BY <4>1, <4>2, <4>3, <4>4
    <3> QED
      BY <1>4, <1>8, <2>1, <2>2, <3>2 DEF Sides
  <2>3. CASE p = "err"
    <3>1. "out" \in Sides \ {p}
      BY <1>5, <2>3
    <3>2. /\ Pure((io.stderr \o d) \o r, wrote, p)
          /\ Units(io.output \o d, p) = Units(io.stderr \o d, p)
          /\ Units(io.output \o d, "out") = Units(io.output, "out")
          /\ Falling(io.output \o d, p) /\ Falling(io.output \o d, "out")
      <4>1. /\ Pure((io.stderr \o d) \o r, wrote, p) /\ Units(io.output, p) = Units(io.stderr, p)
            /\ Falling(io.output, p) /\ Falling(io.output, "out")
        BY <1>3, <2>1, <2>3
      <4>2. PICK t \in Seq(Unit) : t = io.stderr
        BY <1>1
      <4>3. PICK o \in Seq(Unit) : o = io.output
        BY <1>1
      <4>4. /\ Units(o \o d, p) = Units(t \o d, p) /\ Units(o \o d, "out") = Units(o, "out")
            /\ Falling(o \o d, p) /\ Falling(o \o d, "out")
        <5>1. Pure((t \o d) \o r, wrote, p)
          BY <4>1, <4>2
        <5>2. Units(o, p) = Units(t, p) /\ Falling(o, p) /\ Falling(o, "out")
          BY <4>1, <4>2, <4>3
        <5> QED
          BY <3>1, <5>1, <5>2, StreamMoves
      <4> QED
        BY <4>1, <4>2, <4>3, <4>4
    <3> QED
      BY <1>4, <1>8, <2>1, <2>3, <3>2 DEF Sides
  <2> QED
    BY <2>2, <2>3 DEF Sides
<1> QED
  BY <1>4, <1>6, <1>8

LEMMA FrontAndRest ==
  \A q \in Seq(Unit) : \A n \in 0 .. Len(q) :
    /\ SubSeq(q, 1, n) \in Seq(Unit) /\ SubSeq(q, n + 1, Len(q)) \in Seq(Unit)
    /\ Len(SubSeq(q, n + 1, Len(q))) = Len(q) - n
    /\ SubSeq(q, 1, n) \o SubSeq(q, n + 1, Len(q)) = q
BY MoveFront, Zenon

LEMMA OutputEventKeeps ==
  ASSUME UnixInv, NEW p \in U!Pipes, U!OutputEvent(p)
  PROVE  UnixInv'
<1>1. PICK n : n = U!Min({ReadSize, Len(pipe[p])})
  OBVIOUS
<1>2. PICK d : d = SubSeq(pipe[p], 1, n)
  OBVIOUS
<1>3. /\ p # "in" /\ pc = "handle" /\ io.revents[p] # "none"
      /\ n > 0 \/ U!Writers(p) = {}
      /\ pipe' = [pipe EXCEPT ![p] = SubSeq(@, n + 1, Len(@))]
      /\ IF n > 0 THEN UNCHANGED ends ELSE ends' = [ends EXCEPT !.caller = @ \ {<<p, "r">>}]
      /\ io' = [io EXCEPT !.revents[p] = "none", !.output = @ \o d,
                          !.stdout = IF p = "out" THEN @ \o d ELSE @,
                          !.stderr = IF p = "err" THEN @ \o d ELSE @]
      /\ pc' \in {"handle", "poll"}
      /\ UNCHANGED <<flags, input, child, sigpipe, result, wrote, got, runs>>
  BY <1>1, <1>2 DEF U!OutputEvent, U!Turn, U!Next1, U!ClosePoll
<1>4. p \in Sides
  BY <1>3 DEF U!Pipes, Sides
<1>5. PICK q \in Seq(Unit) : q = pipe[p]
  BY <1>4 DEF UnixInv, UnixTypes, Sides
<1>6. /\ n \in 0 .. Len(q)
      /\ n = 0 => q = <<>>
  <2>1. ReadSize \in Int /\ ReadSize > 0 /\ Len(q) \in Nat
    BY UnixConstants
  <2>2. n = IF ReadSize <= Len(q) THEN ReadSize ELSE Len(q)
    BY <1>1, <1>5, <2>1, LeastOfTwo
  <2>3. n \in 0 .. Len(q) /\ (n = 0 => Len(q) = 0)
    BY <2>1, <2>2
  <2> QED
    BY <2>3
<1>7. PICK r : r = SubSeq(q, n + 1, Len(q))
  OBVIOUS
<1>8. d \in Seq(Unit) /\ r \in Seq(Unit) /\ Len(r) <= Len(q) /\ d \o r = q /\ (q = <<>> => r = <<>>)
  <2>1. /\ SubSeq(q, 1, n) \in Seq(Unit) /\ SubSeq(q, n + 1, Len(q)) \in Seq(Unit)
        /\ Len(SubSeq(q, n + 1, Len(q))) = Len(q) - n
        /\ SubSeq(q, 1, n) \o SubSeq(q, n + 1, Len(q)) = q
    BY <1>6, FrontAndRest, Zenon
  <2>2. d = SubSeq(q, 1, n)
    BY <1>2, <1>5
  <2>3. d \in Seq(Unit) /\ r \in Seq(Unit) /\ Len(r) = Len(q) - n /\ d \o r = q
    BY <1>7, <2>1, <2>2, Zenon
  <2>4. Len(q) \in Nat /\ Len(r) \in Nat
    BY <2>3
  <2> QED
    BY <1>6, <2>3, <2>4
<1>9. /\ pipe' = [x \in U!Pipes |-> pipe'[x]] /\ pipe'[p] = r
      /\ \A x \in U!Pipes \ {p} : pipe'[x] = pipe[x]
  <2>1. pipe = [x \in U!Pipes |-> pipe[x]]
    BY DEF UnixInv, UnixTypes
  <2>2. pipe' = [pipe EXCEPT ![p] = r]
    BY <1>3, <1>5, <1>7
  <2> QED
    BY <2>1, <2>2
<1>10. /\ io' \in [output : Seq(Unit), stdout : Seq(Unit), stderr : Seq(Unit), offset : 0 .. MaxInput,
                   revents : [U!Pipes -> {"none", "in", "out", "hup", "err"}], back : {"idle", "wait"}]
       /\ io'.revents[p] = "none" /\ \A x \in U!Pipes \ {p} : io'.revents[x] = io.revents[x]
       /\ io'.output = io.output \o d /\ io'.offset = io.offset /\ io'.back = io.back
       /\ p = "out" => io'.stdout = io.stdout \o d /\ io'.stderr = io.stderr
       /\ p = "err" => io'.stderr = io.stderr \o d /\ io'.stdout = io.stdout
  <2>1. io \in [output : Seq(Unit), stdout : Seq(Unit), stderr : Seq(Unit), offset : 0 .. MaxInput,
                revents : [U!Pipes -> {"none", "in", "out", "hup", "err"}], back : {"idle", "wait"}]
    BY DEF UnixInv, UnixTypes
  <2>2. io.output \o d \in Seq(Unit) /\ io.stdout \o d \in Seq(Unit) /\ io.stderr \o d \in Seq(Unit)
    BY <1>8, <2>1
  <2>3. PICK o, a, e : o = io.output \o d /\ a = io.stdout \o d /\ e = io.stderr \o d
    OBVIOUS
  <2>4. io' = [io EXCEPT !.revents[p] = "none", !.output = o,
                         !.stdout = IF p = "out" THEN a ELSE @,
                         !.stderr = IF p = "err" THEN e ELSE @]
    BY <1>3, <2>3
  <2>5. o \in Seq(Unit) /\ a \in Seq(Unit) /\ e \in Seq(Unit)
    BY <2>2, <2>3
  <2> QED
    BY <2>1, <2>3, <2>4, <2>5, ZenonT(40)
<1>11. Reads(p) /\ (n = 0 => ~Writes(p))
  <2>1. "child" \in DOMAIN ends
    BY EndFacts
  <2>2. n = 0 => ~Writes(p)
    BY <1>3, <1>6, <2>1 DEF U!Writers, Writes
  <2> QED
    BY <1>3, <1>4, <2>2 DEF UnixInv, UnixEvents
<1>12. /\ ends' \in [{"caller", "child"} -> SUBSET U!Ends] /\ ends'.child = ends.child
       /\ ends'.caller \subseteq ends.caller
       /\ (Feeds' <=> Feeds) /\ (Fed' <=> Fed)
       /\ \A x \in Sides \ {p} : Reads(x)' <=> Reads(x)
       /\ n > 0 => Reads(p)'
  <2>1. \A x \in Sides \ {p} : <<x, "r">> # <<p, "r">>
    OBVIOUS
  <2>2. <<"in", "w">> # <<p, "r">>
    OBVIOUS
  <2>3. ends \in [{"caller", "child"} -> SUBSET U!Ends]
    BY EndFacts
  <2>4. CASE n > 0
    BY <1>3, <1>11, <2>3, <2>4 DEF Reads, Feeds, Fed
  <2>5. CASE ~(n > 0)
    <3>1. ends' = [ends EXCEPT !.caller = @ \ {<<p, "r">>}]
      BY <1>3, <2>5
    <3>2. /\ ends' \in [{"caller", "child"} -> SUBSET U!Ends] /\ ends'.child = ends.child
          /\ ends'.caller = ends.caller \ {<<p, "r">>}
      BY <2>3, <3>1
    <3> QED
      BY <2>1, <2>2, <2>5, <3>2 DEF Reads, Feeds, Fed
  <2> QED
    BY <2>4, <2>5
<1>13. Sides \subseteq U!Pipes /\ "in" \in U!Pipes \ {p}
  BY <1>3 DEF Sides, U!Pipes
<1>14. UnixTypes'
  <2>1. \A x \in U!Pipes : Len(pipe'[x]) <= PipeSize
    <3>1. \A x \in U!Pipes : Len(pipe[x]) <= PipeSize
      BY DEF UnixInv, UnixTypes, U!TypeOK
    <3>2. Len(r) \in Nat /\ Len(q) \in Nat
      BY <1>8
    <3>3. Len(r) <= PipeSize
      BY <1>5, <1>8, <3>1, <3>2, UnixConstants
    <3> QED
      BY <1>9, <3>1, <3>3
  <2>2. io'.revents \in [U!Pipes -> {"none", "in", "out", "hup", "err"}] /\ io'.offset \in 0 .. MaxInput
    BY <1>10
  <2>3. pc' \in {"idle", "forked", "io", "poll", "handle", "wait", "fatal", "killed"}
    BY <1>3
  <2>4. U!TypeOK'
    BY <1>3, <1>12, <2>1, <2>2, <2>3 DEF UnixInv, UnixTypes, U!TypeOK
  <2>5. pipe'["out"] \in Seq(Unit) /\ pipe'["err"] \in Seq(Unit) /\ pipe'["in"] \in Seq(Nat)
    <3>1. pipe["out"] \in Seq(Unit) /\ pipe["err"] \in Seq(Unit) /\ pipe["in"] \in Seq(Nat)
      BY DEF UnixInv, UnixTypes
    <3> QED
      BY <1>4, <1>8, <1>9, <1>13, <3>1 DEF Sides
  <2> QED
    BY <1>3, <1>9, <1>10, <2>4, <2>5 DEF UnixInv, UnixTypes
<1>15. UnixEnds'
  <2>1. \A x \in Sides : ~Reads(x)' => pipe'[x] = <<>> /\ ~Writes(x)'
    <3>1. n > 0 \/ (n = 0 /\ r = <<>>)
      BY <1>6, <1>8
    <3> QED
      BY <1>9, <1>11, <1>12, <1>13, <3>1 DEF UnixInv, UnixEnds, Writes
  <2> QED
    BY <1>3, <1>12, <2>1 DEF UnixInv, UnixEnds, Writes, Opens
<1>16. UnixControl' /\ UnixSignals'
  BY <1>3, <1>10, <1>12 DEF UnixInv, UnixControl, UnixSignals, Merged, U!Refused, U!Capture
<1>17. UnixEvents'
  <2>1. pc = "handle" /\ UnixEvents
    BY <1>3 DEF UnixInv
  <2>2. ASSUME NEW x \in Sides, io'.revents[x] # "none"
        PROVE  Reads(x)' /\ (pipe'[x] # <<>> \/ ~Writes(x)')
    <3>1. x # p /\ x \in U!Pipes \ {p}
      BY <1>10, <1>13, <2>2
    <3>2. io.revents[x] # "none" /\ pipe'[x] = pipe[x]
      BY <1>9, <1>10, <2>2, <3>1
    <3> QED
      BY <1>12, <2>1, <3>1, <3>2 DEF UnixEvents, Writes
  <2>3. io'.revents["in"] = io.revents["in"]
    BY <1>10, <1>13
  <2> QED
    BY <1>12, <2>1, <2>2, <2>3 DEF UnixEvents
<1>18. UnixInput'
  BY <1>3, <1>9, <1>10, <1>12, <1>13 DEF UnixInv, UnixInput, Delivered
<1>19. Pending
  BY <1>3 DEF UnixInv, UnixOutput
<1>20. Pending'
  <2>1. /\ p = "out" => flags.out
        /\ p = "err" => U!OwnErr(flags)
        /\ Merged => p = "out" /\ wrote = (io.stdout \o d) \o r /\ io.output \o d = io.stdout \o d
        /\ ~Merged /\ p = "out" =>
             /\ Pure((io.stdout \o d) \o r, wrote, "out")
             /\ Units(io.output \o d, "out") = Units(io.stdout \o d, "out")
             /\ Units(io.output \o d, "err") = Units(io.stderr, "err")
             /\ \A s \in Sides : Falling(io.output \o d, s)
        /\ ~Merged /\ p = "err" =>
             /\ Pure((io.stderr \o d) \o r, wrote, "err")
             /\ Units(io.output \o d, "err") = Units(io.stderr \o d, "err")
             /\ Units(io.output \o d, "out") = Units(io.stdout, "out")
             /\ \A s \in Sides : Falling(io.output \o d, s)
    <3>1. d \o r = pipe[p]
      BY <1>5, <1>8
    <3> QED
      BY <1>4, <1>8, <1>11, <1>19, <3>1, FrontTaken, Zenon
  <2>2. /\ Merged' = Merged /\ U!OwnErr(flags)' = U!OwnErr(flags)
        /\ flags' = flags /\ result' = result /\ wrote' = wrote
    BY <1>3 DEF Merged, U!OwnErr
  <2>3. "out" \in U!Pipes /\ "err" \in U!Pipes /\ "out" # "err"
    BY DEF U!Pipes
  <2>4. CASE p = "out"
    <3>1. /\ io'.stdout = io.stdout \o d /\ io'.stderr = io.stderr /\ io'.output = io.output \o d
          /\ pipe'["out"] = r /\ pipe'["err"] = pipe["err"]
      BY <1>9, <1>10, <2>3, <2>4
    <3>2. /\ flags.out
          /\ Merged => wrote = (io.stdout \o d) \o r /\ io.output \o d = io.stdout \o d
          /\ ~Merged => /\ Pure((io.stdout \o d) \o r, wrote, "out")
                        /\ Units(io.output \o d, "out") = Units(io.stdout \o d, "out")
                        /\ Units(io.output \o d, "err") = Units(io.stderr, "err")
                        /\ \A s \in Sides : Falling(io.output \o d, s)
      BY <2>1, <2>4
    <3> QED
      BY <1>19, <2>2, <3>1, <3>2, Zenon DEF Pending
  <2>5. CASE p = "err"
    <3>1. /\ io'.stderr = io.stderr \o d /\ io'.stdout = io.stdout /\ io'.output = io.output \o d
          /\ pipe'["err"] = r /\ pipe'["out"] = pipe["out"]
      BY <1>9, <1>10, <2>3, <2>5
    <3>2. /\ U!OwnErr(flags) /\ ~Merged
          /\ Pure((io.stderr \o d) \o r, wrote, "err")
          /\ Units(io.output \o d, "err") = Units(io.stderr \o d, "err")
          /\ Units(io.output \o d, "out") = Units(io.stdout, "out")
          /\ \A s \in Sides : Falling(io.output \o d, s)
      BY <2>1, <2>3, <2>5
    <3> QED
      BY <1>19, <2>2, <3>1, <3>2, Zenon DEF Pending
  <2> QED
    BY <1>4, <2>4, <2>5 DEF Sides
<1>21. UnixOutput'
  BY <1>3, <1>20 DEF UnixInv, UnixOutput
<1> QED
  BY <1>14, <1>15, <1>16, <1>17, <1>18, <1>21 DEF UnixInv

(* The input goes on where it was, or ends for a child that is gone. *)
LEMMA StdinEventKeeps ==
  ASSUME UnixInv, U!StdinEvent
  PROVE  UnixInv'
<1>1. /\ pc = "handle" /\ io.revents["in"] # "none"
      /\ UNCHANGED <<flags, input, child, sigpipe, result, wrote, got, runs>>
  BY DEF U!StdinEvent, U!Turn
<1>2. /\ Feeds /\ sigpipe = "ignored"
      /\ io.revents["in"] = "err" => ~Fed
  BY <1>1 DEF UnixInv, UnixEvents, UnixSignals
<1>3. U!Readers("in") = {} => ~Fed
  <2>1. "child" \in DOMAIN ends
    BY EndFacts
  <2> QED
    BY <2>1 DEF U!Readers, Fed
<1>4. /\ io \in [output : Seq(Unit), stdout : Seq(Unit), stderr : Seq(Unit), offset : 0 .. MaxInput,
                 revents : [U!Pipes -> {"none", "in", "out", "hup", "err"}], back : {"idle", "wait"}]
      /\ ends \in [{"caller", "child"} -> SUBSET U!Ends]
  BY EndFacts DEF UnixInv, UnixTypes
<1>5. "in" \in U!Pipes /\ Sides \subseteq U!Pipes \ {"in"} /\ \A p \in Sides : <<p, "r">> # <<"in", "w">>
  BY DEF U!Pipes, Sides
<1>6. U!Next1("in") \in {"handle", "poll"}
  BY DEF U!Next1
<1>7. ASSUME NEW off \in 0 .. MaxInput,
             io' = [io EXCEPT !.revents["in"] = "none", !.offset = off]
      PROVE  /\ io' \in [output : Seq(Unit), stdout : Seq(Unit), stderr : Seq(Unit),
                         offset : 0 .. MaxInput,
                         revents : [U!Pipes -> {"none", "in", "out", "hup", "err"}],
                         back : {"idle", "wait"}]
             /\ io'.revents["in"] = "none" /\ \A p \in Sides : io'.revents[p] = io.revents[p]
             /\ io'.output = io.output /\ io'.stdout = io.stdout /\ io'.stderr = io.stderr
             /\ io'.offset = off /\ io'.back = io.back
  BY <1>4, <1>5, <1>7
<1>8. ASSUME NEW E \in SUBSET U!Ends,
             E = ends.caller \/ E = ends.caller \ {<<"in", "w">>},
             ends' = [ends EXCEPT !.caller = E]
      PROVE  /\ ends' \in [{"caller", "child"} -> SUBSET U!Ends] /\ ends'.child = ends.child
             /\ ends'.caller = E /\ ends'.caller \subseteq ends.caller
             /\ \A p \in Sides : Reads(p)' <=> Reads(p)
  BY <1>4, <1>5, <1>8 DEF Reads
<1>9. ASSUME NEW off \in 0 .. MaxInput, NEW q \in Seq(Nat), Len(q) <= PipeSize,
             io' = [io EXCEPT !.revents["in"] = "none", !.offset = off],
             pipe' = [pipe EXCEPT !["in"] = q],
             NEW E \in SUBSET U!Ends,
             E = ends.caller \/ E = ends.caller \ {<<"in", "w">>},
             ends' = [ends EXCEPT !.caller = E], pc' = U!Next1("in"),
             UnixInput'
      PROVE  UnixInv'
  <2>1. /\ io' \in [output : Seq(Unit), stdout : Seq(Unit), stderr : Seq(Unit),
                    offset : 0 .. MaxInput,
                    revents : [U!Pipes -> {"none", "in", "out", "hup", "err"}],
                    back : {"idle", "wait"}]
        /\ io'.revents["in"] = "none" /\ \A p \in Sides : io'.revents[p] = io.revents[p]
        /\ io'.output = io.output /\ io'.stdout = io.stdout /\ io'.stderr = io.stderr
        /\ io'.offset = off /\ io'.back = io.back
    BY <1>7, <1>9
  <2>2. /\ ends' \in [{"caller", "child"} -> SUBSET U!Ends] /\ ends'.child = ends.child
        /\ ends'.caller = E /\ ends'.caller \subseteq ends.caller
        /\ \A p \in Sides : Reads(p)' <=> Reads(p)
    BY <1>8, <1>9
  <2>3. /\ pipe' = [p \in U!Pipes |-> pipe'[p]] /\ pipe'["in"] = q
        /\ \A p \in Sides : pipe'[p] = pipe[p]
    <3>1. pipe = [p \in U!Pipes |-> pipe[p]]
      BY DEF UnixInv, UnixTypes
    <3> QED
      BY <1>5, <1>9, <3>1
  <2>4. pc' \in {"handle", "poll"}
    BY <1>6, <1>9
  <2>5. UnixTypes'
    <3>1. \A p \in U!Pipes : Len(pipe'[p]) <= PipeSize
      <4>1. \A p \in U!Pipes : Len(pipe[p]) <= PipeSize
        BY DEF UnixInv, UnixTypes, U!TypeOK
      <4>2. U!Pipes = Sides \cup {"in"}
        BY DEF U!Pipes, Sides
      <4> QED
        BY <1>9, <2>3, <4>1, <4>2
    <3>2. io'.revents \in [U!Pipes -> {"none", "in", "out", "hup", "err"}] /\ io'.offset \in 0 .. MaxInput
      BY <2>1
    <3>3. pc' \in {"idle", "forked", "io", "poll", "handle", "wait", "fatal", "killed"}
      BY <2>4
    <3>4. U!TypeOK'
      BY <1>1, <2>2, <3>1, <3>2, <3>3 DEF UnixInv, UnixTypes, U!TypeOK
    <3> QED
      BY <1>1, <1>9, <2>1, <2>3, <3>4 DEF UnixInv, UnixTypes, Sides
  <2>6. UnixEnds'
    BY <1>1, <2>2, <2>3, <2>4 DEF UnixInv, UnixEnds, Writes, Opens
  <2>7. UnixControl' /\ UnixSignals'
    BY <1>1, <1>2, <2>1, <2>2, <2>4 DEF UnixInv, UnixControl, UnixSignals, Merged, U!Refused,
                                        U!Capture
  <2>8. UnixEvents'
    BY <1>1, <2>1, <2>2, <2>3, <2>4 DEF UnixInv, UnixEvents, Writes
  <2>9. UnixOutput'
    <3>1. pipe'["out"] = pipe["out"] /\ pipe'["err"] = pipe["err"]
      BY <2>3 DEF Sides
    <3>2. Pending' = Pending
      BY <1>1, <2>1, <3>1 DEF Pending, Merged
    <3> QED
      BY <1>1, <2>4, <3>2 DEF UnixInv, UnixOutput
  <2> QED
    BY <1>9, <2>5, <2>6, <2>7, <2>8, <2>9 DEF UnixInv
<1>10. /\ pipe = [p \in U!Pipes |-> pipe[p]] /\ pipe["in"] \in Seq(Nat)
       /\ Len(pipe["in"]) <= PipeSize
       /\ got.units \in Nat /\ io.offset \in 0 .. MaxInput
       /\ io.offset = Delivered /\ io.offset < input /\ input \in -1 .. MaxInput
  BY <1>1, <1>2, <1>4, <1>5, EndFacts DEF UnixInv, UnixTypes, UnixInput, U!TypeOK
<1>11. CASE /\ io.revents["in"] = "err" \/ U!Readers("in") = {}
            /\ IF io.revents["in"] = "out" /\ sigpipe = "default"
               THEN pc' = "killed" /\ UNCHANGED <<ends, io>>
               ELSE /\ U!ClosePoll("in", "w")
                    /\ io' = [io EXCEPT !.revents["in"] = "none"]
                    /\ pc' = U!Next1("in")
            /\ UNCHANGED pipe
  <2>1. /\ ends' = [ends EXCEPT !.caller = ends.caller \ {<<"in", "w">>}]
        /\ io' = [io EXCEPT !.revents["in"] = "none", !.offset = io.offset]
        /\ pc' = U!Next1("in") /\ pipe' = pipe
    BY <1>2, <1>4, <1>11, ZenonT(40) DEF U!ClosePoll
  <2>2. ~Fed
    BY <1>2, <1>3, <1>11
  <2>3. ~Feeds' /\ ~Fed'
    BY <1>4, <2>1, <2>2 DEF Feeds, Fed
  <2>4. UnixInput'
    BY <1>1, <2>1, <2>3 DEF UnixInv, UnixInput, Delivered
  <2>5. pipe' = [pipe EXCEPT !["in"] = pipe["in"]]
    BY <1>5, <1>10, <2>1
  <2>6. ends.caller \ {<<"in", "w">>} \in SUBSET U!Ends
    BY <1>4
  <2> QED
    BY <1>9, <1>10, <2>1, <2>4, <2>5, <2>6
<1>12. ASSUME NEW n \in 1 .. U!Fits,
              pipe' = [pipe EXCEPT !["in"] = @ \o [i \in 1 .. n |-> io.offset + i]],
              io' = [io EXCEPT !.revents["in"] = "none", !.offset = @ + n],
              IF io.offset + n >= input THEN U!ClosePoll("in", "w") ELSE UNCHANGED ends,
              pc' = U!Next1("in")
       PROVE  UnixInv'
  <2>1. PICK o \in Nat : o = io.offset
    BY <1>10
  <2>2. PICK a \in Seq(Nat) : a = pipe["in"]
    BY <1>10
  <2>3. PICK l \in Nat : l = Len(a)
    BY <2>2
  <2>4. /\ n \in Nat /\ n >= 1 /\ o + n <= input /\ l + n <= PipeSize
    <3>1. /\ input - o \in Int /\ PipeSize - l \in Int /\ PipeSize \in Nat
      BY <1>10, <2>1, <2>3, UnixConstants
    <3>2. U!Fits = IF input - o <= PipeSize - l THEN input - o ELSE PipeSize - l
      BY <2>1, <2>2, <2>3, <3>1, LeastOfTwo DEF U!Fits
    <3>3. n \in Int /\ 1 <= n /\ n <= input - o /\ n <= PipeSize - l
      BY <3>1, <3>2
    <3> QED
      BY <1>10, <2>1, <2>3, <3>1, <3>3
  <2>5. [i \in 1 .. n |-> o + i] \in Seq(Nat)
    BY <2>4
  <2>6. PICK b \in Seq(Nat) : b = [i \in 1 .. n |-> o + i]
    BY <2>5
  <2>20. Len(b) = n /\ \A i \in 1 .. n : b[i] = o + i
    BY <2>4, <2>6
  <2>7. PICK q : q = a \o b
    OBVIOUS
  <2>8. /\ q \in Seq(Nat) /\ Len(q) = l + n
        /\ \A i \in 1 .. l : q[i] = a[i]
        /\ \A i \in 1 .. n : q[l + i] = o + i
    <3>1. /\ a \o b \in Seq(Nat) /\ Len(a \o b) = Len(a) + Len(b)
          /\ \A i \in 1 .. Len(a) : (a \o b)[i] = a[i]
          /\ \A i \in 1 .. Len(b) : (a \o b)[Len(a) + i] = b[i]
      OBVIOUS
    <3> QED
      BY <2>3, <2>7, <2>20, <3>1, Zenon
  <2>9. /\ io' = [io EXCEPT !.revents["in"] = "none", !.offset = o + n]
        /\ pipe' = [pipe EXCEPT !["in"] = q]
        /\ o + n \in 0 .. MaxInput
    <3>1. io' = [io EXCEPT !.revents["in"] = "none", !.offset = io.offset + n]
      BY <1>4, <1>12
    <3>2. pipe' = [pipe EXCEPT !["in"] = pipe["in"] \o [i \in 1 .. n |-> io.offset + i]]
      BY <1>12
    <3>3. [i \in 1 .. n |-> io.offset + i] = b
      BY <2>1, <2>6
    <3>4. o + n \in 0 .. MaxInput
      BY <1>10, <2>4, UnixConstants, SMTT(30)
    <3> QED
      BY <2>1, <2>2, <2>7, <3>1, <3>2, <3>3, <3>4, Zenon
  <2>10. PICK E : E = IF o + n >= input THEN ends.caller \ {<<"in", "w">>} ELSE ends.caller
    OBVIOUS
  <2>11. /\ E \in SUBSET U!Ends /\ ends' = [ends EXCEPT !.caller = E]
         /\ E = ends.caller \/ E = ends.caller \ {<<"in", "w">>}
    BY <1>4, <1>12, <2>1, <2>10 DEF U!ClosePoll
  <2>12. /\ Feeds' <=> ~(o + n >= input)
         /\ Fed' <=> Fed
    BY <1>2, <1>4, <2>10, <2>11 DEF Feeds, Fed
  <2>13. pipe'["in"] = q /\ io'.offset = o + n
    BY <1>4, <1>5, <1>10, <2>9
  <2>14. PICK g \in Nat : g = got.units
    BY <1>10
  <2>15. o = g + l /\ Delivered' = g + (l + n)
    BY <1>1, <1>10, <2>1, <2>2, <2>3, <2>8, <2>13, <2>14 DEF Delivered
  <2>16. \A k \in 1 .. l + n : q[k] = g + k
    <3> TAKE k \in 1 .. l + n
    <3>1. CASE k \in 1 .. l
      BY <2>2, <2>3, <2>8, <2>14, <3>1 DEF UnixInv, UnixInput
    <3>2. CASE k \notin 1 .. l
      <4>1. k - l \in 1 .. n /\ k = l + (k - l)
        BY <2>3, <2>4, <3>2
      <4>2. PICK i \in 1 .. n : k = l + i
        BY <4>1
      <4>3. q[k] = o + i
        BY <2>8, <4>2
      <4> QED
        BY <2>15, <4>2, <4>3
    <3> QED
      BY <3>1, <3>2
  <2>17. UnixInput'
    <3>1. input \in Int /\ ~(input < 0)
      BY <1>10, <2>1
    <3>2. Delivered' = o + n /\ (Feeds' => o + n < input) /\ (~Feeds' => o + n = input)
      BY <2>4, <2>12, <2>15, <3>1
    <3>3. got.eof => got.units = input
      BY DEF UnixInv, UnixInput
    <3> QED
      BY <1>1, <2>4, <2>8, <2>13, <2>14, <2>16, <3>1, <3>2, <3>3 DEF UnixInput
  <2>18. Len(q) <= PipeSize
    BY <2>4, <2>8
  <2> QED
    BY <1>9, <1>12, <2>8, <2>9, <2>11, <2>17, <2>18
<1> QED
  BY <1>11, <1>12 DEF U!StdinEvent

-----------------------------------------------------------------------------
(* Unix: a run ends.                                                        *)

(* What the loop has goes to the result. *)
LEMMA EndIoKeeps ==
  ASSUME UnixInv, U!EndIo
  PROVE  UnixInv'
<1>1. PICK f : f = IF io.back = "idle" THEN [flags EXCEPT !.out = TRUE, !.err = TRUE] ELSE flags
  OBVIOUS
<1>2. /\ pc = "poll" /\ ends.caller = {} /\ sigpipe' = "default"
      /\ result' = U!Taken(f) /\ pc' = io.back /\ io' = U!NoIo
      /\ UNCHANGED <<flags, input, ends, pipe, child, wrote, got, runs>>
  BY <1>1 DEF U!EndIo
<1>3. /\ io \in [output : Seq(Unit), stdout : Seq(Unit), stderr : Seq(Unit), offset : 0 .. MaxInput,
                 revents : [U!Pipes -> {"none", "in", "out", "hup", "err"}], back : {"idle", "wait"}]
      /\ result \in [pid : BOOLEAN, status : Int, exited : BOOLEAN,
                     output : Seq(Unit), stdout : Seq(Unit), stderr : Seq(Unit)]
      /\ flags \in [out: BOOLEAN, err: BOOLEAN, merge: BOOLEAN,
                    async: BOOLEAN, detached: BOOLEAN, stdin: BOOLEAN]
  BY DEF UnixInv, UnixTypes, U!TypeOK
<1>4. /\ result'.output = IF U!Capture(f) THEN io.output ELSE result.output
      /\ result'.stdout = IF f.out THEN io.stdout ELSE result.stdout
      /\ result'.stderr = IF f.err THEN io.stderr ELSE result.stderr
      /\ result'.pid = result.pid /\ result'.status = result.status
      /\ result' \in [pid : BOOLEAN, status : Int, exited : BOOLEAN,
                      output : Seq(Unit), stdout : Seq(Unit), stderr : Seq(Unit)]
  BY <1>2, <1>3 DEF U!Taken
<1>5. /\ (f.out <=> flags.out) \/ (f.out /\ f.err)
      /\ (f.err <=> flags.err) \/ (f.out /\ f.err)
      /\ flags.out => f.out
      /\ flags.err => f.err
  BY <1>1, <1>3
<1>6. /\ io'.output = <<>> /\ io'.stdout = <<>> /\ io'.stderr = <<>> /\ io'.offset = 0
      /\ io' \in [output : Seq(Unit), stdout : Seq(Unit), stderr : Seq(Unit), offset : 0 .. MaxInput,
                  revents : [U!Pipes -> {"none", "in", "out", "hup", "err"}], back : {"idle", "wait"}]
  <2>1. 0 \in 0 .. MaxInput /\ <<>> \in Seq(Unit)
    BY UnixConstants, NoUnits
  <2> QED
    BY <1>2, <2>1 DEF U!NoIo, U!Quiet
<1>7. Pending
  BY <1>2 DEF UnixInv, UnixOutput
<1>8. /\ Merged => wrote = io.stdout /\ io.output = io.stdout
      /\ ~Merged => /\ Pure(io.stdout, wrote, "out") /\ Pure(io.stderr, wrote, "err")
                    /\ \A s \in Sides : Ordered(io.output, wrote, s)
  BY <1>2, <1>7, Drained
<1>9. /\ pc' \in {"idle", "wait"} /\ result.pid
      /\ pc' = "idle" => flags.async
      /\ child.state \notin {"none", "reaped"}
  BY <1>2, <1>3 DEF UnixInv, UnixControl
<1>10. Finished'
  <2>1. Merged' = Merged /\ wrote' = wrote /\ flags' = flags
    BY <1>2 DEF Merged
  <2>2. CASE Merged
    <3>1. flags.out /\ flags.err
      BY <2>2 DEF UnixInv, UnixControl, Merged
    <3> QED
      BY <1>4, <1>5, <1>8, <2>1, <2>2, <3>1 DEF Finished, U!Capture
  <2>3. CASE ~Merged
    <3>1. /\ flags.out => Pure(result'.stdout, wrote, "out")
          /\ flags.err => Pure(result'.stderr, wrote, "err")
      BY <1>4, <1>5, <1>8, <2>3
    <3>2. \A s \in Sides : Ordered(result'.output, wrote, s)
      <4>1. CASE U!Capture(f)
        BY <1>4, <1>8, <2>3, <4>1
      <4>2. CASE ~U!Capture(f)
        <5>1. ~flags.out /\ ~flags.err
          BY <1>5, <4>2 DEF U!Capture
        <5>2. io.stdout = <<>> /\ io.stderr = <<>> /\ result.output = <<>>
          BY <1>7, <5>1 DEF Pending, U!OwnErr
        <5>3. Pure(<<>>, wrote, "out") /\ Pure(<<>>, wrote, "err")
          BY <1>8, <2>3, <5>2
        <5> QED
          BY <1>4, <4>2, <5>2, <5>3 DEF Pure, Sides
      <4> QED
        BY <4>1, <4>2
    <3> QED
      BY <2>1, <2>3, <3>1, <3>2 DEF Finished
  <2> QED
    BY <2>2, <2>3
<1>11. UnixTypes'
  <2>1. io'.revents \in [U!Pipes -> {"none", "in", "out", "hup", "err"}] /\ io'.offset \in 0 .. MaxInput
    BY <1>6
  <2>2. U!TypeOK'
    BY <1>2, <1>9, <2>1 DEF UnixInv, UnixTypes, U!TypeOK
  <2> QED
    BY <1>2, <1>4, <1>6, <2>2 DEF UnixInv, UnixTypes
<1>12. UnixEnds'
  BY <1>2, <1>9 DEF UnixInv, UnixEnds, Reads, Writes, Opens
<1>13. UnixControl' /\ UnixSignals' /\ UnixEvents'
  BY <1>2, <1>4, <1>9 DEF UnixInv, UnixControl, UnixSignals, UnixEvents, Merged, U!Refused, U!Capture
<1>14. UnixInput'
  <2>1. ~Feeds /\ ~Feeds'
    BY <1>2 DEF Feeds
  <2> QED
    BY <1>2, <1>9, <2>1 DEF UnixInv, UnixInput, Fed, Delivered
<1>15. UnixOutput'
  BY <1>2, <1>6, <1>9, <1>10 DEF UnixInv, UnixOutput
<1> QED
  BY <1>11, <1>12, <1>13, <1>14, <1>15 DEF UnixInv

(* An asynchronous run goes on with the loop, or with the wait. *)
LEMMA GoesOnKeeps ==
  ASSUME UnixInv, U!ReadCaptured \/ U!CallWait
  PROVE  UnixInv'
<1>1. /\ pc = "idle" /\ UNCHANGED <<flags, input, ends, pipe, child, sigpipe, result, wrote, got, runs>>
      /\ \/ pc' = "io" /\ io' = U!NoIo /\ ends.caller # {}
         \/ pc' = "wait" /\ io' = io /\ ends.caller = {} /\ result.pid /\ child.state # "reaped"
  BY DEF U!ReadCaptured, U!CallWait
<1>2. io.output = <<>> /\ io.stdout = <<>> /\ io.stderr = <<>> /\ io.offset = 0
  BY <1>1 DEF UnixInv, UnixOutput
<1>3. /\ io'.output = <<>> /\ io'.stdout = <<>> /\ io'.stderr = <<>> /\ io'.offset = 0
      /\ io' \in [output : Seq(Unit), stdout : Seq(Unit), stderr : Seq(Unit), offset : 0 .. MaxInput,
                  revents : [U!Pipes -> {"none", "in", "out", "hup", "err"}], back : {"idle", "wait"}]
      /\ pc' = "io" => io'.back = "idle"
  <2>1. 0 \in 0 .. MaxInput /\ <<>> \in Seq(Unit)
    BY UnixConstants, NoUnits
  <2>2. io \in [output : Seq(Unit), stdout : Seq(Unit), stderr : Seq(Unit), offset : 0 .. MaxInput,
                revents : [U!Pipes -> {"none", "in", "out", "hup", "err"}], back : {"idle", "wait"}]
    BY DEF UnixInv, UnixTypes
  <2>3. CASE io' = U!NoIo
    BY <2>1, <2>3 DEF U!NoIo, U!Quiet
  <2>4. CASE io' = io /\ pc' = "wait"
    BY <1>2, <2>2, <2>4
  <2> QED
    BY <1>1, <2>3, <2>4
<1>4. UnixTypes'
  <2>1. io'.revents \in [U!Pipes -> {"none", "in", "out", "hup", "err"}] /\ io'.offset \in 0 .. MaxInput
    BY <1>3
  <2>2. pc' \in {"idle", "forked", "io", "poll", "handle", "wait", "fatal", "killed"}
    BY <1>1
  <2>3. U!TypeOK'
    BY <1>1, <2>1, <2>2 DEF UnixInv, UnixTypes, U!TypeOK
  <2> QED
    BY <1>1, <1>3, <2>3 DEF UnixInv, UnixTypes
<1>5. UnixEnds' /\ UnixSignals' /\ UnixEvents'
  BY <1>1 DEF UnixInv, UnixEnds, UnixSignals, UnixEvents, Reads, Writes, Opens
<1>6. UnixControl'
  <2>1. ends.caller # {} => child.state \notin {"none", "reaped"}
    BY DEF UnixInv, UnixEnds
  <2> QED
    BY <1>1, <1>3, <2>1 DEF UnixInv, UnixControl, Merged, U!Refused, U!Capture
<1>7. UnixInput'
  BY <1>1, <1>2, <1>3 DEF UnixInv, UnixInput, Feeds, Fed, Delivered
<1>8. UnixOutput'
  <2>1. /\ U!OwnErr(flags)' = U!OwnErr(flags) /\ Merged' = Merged
        /\ flags' = flags /\ pipe' = pipe /\ wrote' = wrote /\ result' = result
        /\ io'.output = io.output /\ io'.stdout = io.stdout /\ io'.stderr = io.stderr
    BY <1>1, <1>2, <1>3 DEF U!OwnErr, Merged
  <2>2. Pending' <=> Pending
    BY <2>1, Zenon DEF Pending
  <2>3. Finished' <=> Finished
    BY <2>1, Zenon DEF Finished
  <2> QED
    BY <1>1, <1>3, <2>2, <2>3 DEF UnixInv, UnixOutput
<1> QED
  BY <1>4, <1>5, <1>6, <1>7, <1>8 DEF UnixInv

(* waitpid takes the zombie, and the status is the child's. *)
LEMMA WaitKeeps ==
  ASSUME UnixInv, U!Wait
  PROVE  UnixInv'
<1>1. /\ pc = "wait" /\ child.state = "zombie" /\ pc' = "idle"
      /\ child' = [child EXCEPT !.state = "reaped"]
      /\ result' = [result EXCEPT !.status = child.code, !.exited = child.code < 128]
      /\ UNCHANGED <<flags, input, ends, pipe, io, sigpipe, wrote, got, runs>>
  BY DEF U!Wait, U!Status
<1>2. /\ child' \in [state : {"none", "forked", "running", "zombie", "reaped"},
                     todo : Seq(Ops), code : Int]
      /\ child'.state = "reaped" /\ child'.todo = child.todo /\ child'.code = child.code
      /\ child.code \in Int
  <2>1. child \in [state : {"none", "forked", "running", "zombie", "reaped"},
                   todo : Seq(Ops), code : Int]
    BY DEF UnixInv, UnixTypes
  <2> QED
    BY <1>1, <2>1
<1>3. /\ result' \in [pid : BOOLEAN, status : Int, exited : BOOLEAN,
                      output : Seq(Unit), stdout : Seq(Unit), stderr : Seq(Unit)]
      /\ result'.status = child.code /\ result'.pid = result.pid
      /\ result'.output = result.output /\ result'.stdout = result.stdout
      /\ result'.stderr = result.stderr
  <2>1. result \in [pid : BOOLEAN, status : Int, exited : BOOLEAN,
                    output : Seq(Unit), stdout : Seq(Unit), stderr : Seq(Unit)]
    BY DEF UnixInv, UnixTypes
  <2>2. CASE child.code < 128
    <3>1. result' = [result EXCEPT !.status = child.code, !.exited = TRUE]
      BY <1>1, <2>2
    <3> QED
      BY <1>2, <2>1, <3>1
  <2>3. CASE ~(child.code < 128)
    <3>1. result' = [result EXCEPT !.status = child.code, !.exited = FALSE]
      <4>1. (child.code < 128) = FALSE
        BY <1>2, <2>3
      <4> QED
        BY <1>1, <4>1
    <3> QED
      BY <1>2, <2>1, <3>1
  <2> QED
    BY <2>2, <2>3
<1>4. ends.caller = {} /\ ends.child = {} /\ result.pid
  BY <1>1 DEF UnixInv, UnixEnds, UnixControl
<1>5. UnixTypes'
  <2>1. U!TypeOK'
    BY <1>1, <1>2 DEF UnixInv, UnixTypes, U!TypeOK
  <2> QED
    BY <1>1, <1>2, <1>3, <2>1 DEF UnixInv, UnixTypes
<1>6. UnixEnds' /\ UnixControl' /\ UnixSignals' /\ UnixEvents'
  BY <1>1, <1>2, <1>3, <1>4 DEF UnixInv, UnixEnds, UnixControl, UnixSignals, UnixEvents, Reads, Writes,
                                Opens, Merged, U!Refused, U!Capture
<1>7. UnixInput'
  BY <1>1 DEF UnixInv, UnixInput, Feeds, Fed, Delivered
<1>8. UnixOutput'
  <2>1. Merged' = Merged /\ flags' = flags /\ wrote' = wrote
    BY <1>1 DEF Merged
  <2>2. Finished' <=> Finished
    BY <1>3, <2>1, Zenon DEF Finished
  <2> QED
    BY <1>1, <1>2, <1>3, <1>4, <2>2 DEF UnixInv, UnixOutput
<1> QED
  BY <1>5, <1>6, <1>7, <1>8 DEF UnixInv

LEMMA UnixKeeps == UnixInv /\ U!Next => UnixInv'
<1> SUFFICES ASSUME UnixInv, U!Next PROVE UnixInv'
  OBVIOUS
<1>1. CASE U!Caller
  BY <1>1, StartedKeeps, EnterIoKeeps, PollKeeps, StdinEventKeeps, EndIoKeeps, WaitKeeps,
     OutputEventKeeps DEF U!Caller
<1>2. CASE U!Child
  BY <1>2, ChildKeeps
<1>3. CASE U!Over
  BY <1>3, UnixStays DEF U!Over, U!vars, unixVars
<1>4. CASE \E f \in MCFlags, in \in -1 .. MaxInput :
             \/ U!Refuse(f, in) \/ U!ForkFails(f, in)
             \/ \E prog \in MCPrograms : U!Start(f, in, prog)
  BY <1>4, ResetKeeps, StartKeeps
<1>5. CASE U!ReadCaptured \/ U!CallWait
  BY <1>5, GoesOnKeeps
<1>6. CASE U!Signal
  BY <1>6, ChildEnds DEF U!Signal
<1>7. CASE U!Free
  BY <1>7, ResetKeeps
<1> QED
  BY <1>1, <1>2, <1>3, <1>4, <1>5, <1>6, <1>7 DEF U!Next

-----------------------------------------------------------------------------
(* Unix: what the invariant says of a run.                                  *)

(* Numbers that fall are an order: what has them in turn has it from wrote. *)
LEMMA OrderedHasAll ==
  ASSUME UnixInv, NEW q, NEW s \in Sides, Ordered(q, wrote, s),
         \A i \in U!At(q, s) : i \in Nat
  PROVE  U!HasAll(q, s)
<1>1. {q[i] : i \in U!At(q, s)} = {wrote[i] : i \in U!At(wrote, s)}
  BY DEF Ordered, Units
<1>2. ASSUME NEW i \in U!At(q, s), NEW j \in U!At(q, s), i < j
      PROVE  \E k, l \in U!At(wrote, s) : k < l /\ q[i] = wrote[k] /\ q[j] = wrote[l]
  <2>1. PICK k \in U!At(wrote, s) : q[i] = wrote[k]
    BY <1>1
  <2>2. PICK l \in U!At(wrote, s) : q[j] = wrote[l]
    BY <1>1
  <2>3. q[i][2] > q[j][2]
    BY <1>2 DEF Ordered, Falling
  <2>4. /\ k \in DOMAIN wrote /\ l \in DOMAIN wrote
        /\ k \in Nat /\ l \in Nat /\ wrote[k][2] \in Nat /\ wrote[l][2] \in Nat
    <3>1. k \in DOMAIN wrote /\ l \in DOMAIN wrote
      BY DEF U!At
    <3>2. wrote \in Seq(Unit)
      BY DEF UnixInv, UnixTypes
    <3>3. wrote[k] \in Unit /\ wrote[l] \in Unit /\ k \in Nat /\ l \in Nat
      BY <3>1, <3>2
    <3> QED
      BY <3>1, <3>3 DEF Unit
  <2>5. l < k => wrote[l][2] > wrote[k][2]
    BY <2>4 DEF UnixInv, UnixOutput
  <2>6. k < l
    BY <2>1, <2>2, <2>3, <2>4, <2>5
  <2> QED
    BY <2>1, <2>2, <2>6
<1> QED
  BY <1>1, <1>2 DEF U!HasAll

LEMMA CaptureComplete == UnixInv => U!CaptureIsComplete
<1> SUFFICES ASSUME UnixInv, pc = "idle", result.pid, ends.caller = {}
             PROVE  /\ flags.merge /\ flags.err => result.output = wrote /\ result.stdout = wrote
                    /\ U!OwnErr(flags) => U!IsStream(result.stderr, "err")
                    /\ flags.out /\ ~(flags.merge /\ flags.err) => U!IsStream(result.stdout, "out")
                    /\ \A s \in {"out", "err"} : U!HasAll(result.output, s)
  BY DEF U!CaptureIsComplete
<1>1. Finished
  BY DEF UnixInv, UnixOutput
<1>2. /\ result.output \in Seq(Unit) /\ result.stdout \in Seq(Unit) /\ result.stderr \in Seq(Unit)
      /\ wrote \in Seq(Unit)
  BY DEF UnixInv, UnixTypes
<1>3. \A q \in Seq(Unit), s \in Sides : \A i \in U!At(q, s) : i \in Nat
  BY DEF U!At
<1>4. \A s \in Sides : Ordered(result.output, wrote, s)
  <2>1. CASE Merged
    <3>1. result.output = wrote
      BY <1>1, <2>1 DEF Finished
    <3>2. \A s \in Sides : Falling(wrote, s)
      BY DEF UnixInv, UnixOutput, Falling, U!At
    <3> QED
      BY <3>1, <3>2 DEF Ordered
  <2>2. CASE ~Merged
    BY <1>1, <2>2 DEF Finished
  <2> QED
    BY <2>1, <2>2
<1>5. \A s \in Sides : U!HasAll(result.output, s)
  BY <1>2, <1>3, <1>4, OrderedHasAll
<1>6. ASSUME U!OwnErr(flags) PROVE U!IsStream(result.stderr, "err")
  <2>1. Pure(result.stderr, wrote, "err")
    BY <1>1, <1>6 DEF Finished, Merged, U!OwnErr
  <2>2. "err" \in Sides
    BY DEF Sides
  <2> QED
    BY <1>2, <1>3, <2>1, <2>2, OrderedHasAll DEF Pure, U!IsStream
<1>7. ASSUME flags.out, ~Merged PROVE U!IsStream(result.stdout, "out")
  <2>1. Pure(result.stdout, wrote, "out")
    BY <1>1, <1>7 DEF Finished
  <2>2. "out" \in Sides
    BY DEF Sides
  <2> QED
    BY <1>2, <1>3, <2>1, <2>2, OrderedHasAll DEF Pure, U!IsStream
<1>8. Merged => result.output = wrote /\ result.stdout = wrote
  BY <1>1 DEF Finished
<1> QED
  BY <1>5, <1>6, <1>7, <1>8 DEF Merged, Sides

LEMMA UnixPromises ==
  UnixInv => /\ U!TypeOK /\ U!CaptureIsComplete /\ U!InputIsIntact /\ U!ReadNeverBlocks
             /\ U!NothingIsLeft /\ U!SigpipeIsContained
<1> SUFFICES ASSUME UnixInv
             PROVE  /\ U!TypeOK /\ U!CaptureIsComplete /\ U!InputIsIntact /\ U!ReadNeverBlocks
                    /\ U!NothingIsLeft /\ U!SigpipeIsContained
  OBVIOUS
<1>1. U!TypeOK
  BY DEF UnixInv, UnixTypes
<1>2. U!CaptureIsComplete
  BY CaptureComplete
<1>3. U!InputIsIntact
  BY DEF UnixInv, UnixTypes, UnixInput, U!InputIsIntact
<1>4. U!ReadNeverBlocks
  <2> SUFFICES ASSUME NEW p \in Sides, pc = "handle", io.revents[p] # "none", pipe[p] = <<>>
               PROVE  U!Writers(p) = {}
    BY DEF U!ReadNeverBlocks, Sides
  <2>1. ~Writes(p)
    BY DEF UnixInv, UnixEvents
  <2>2. <<p, "w">> \notin ends.caller /\ DOMAIN ends = {"caller", "child"}
    BY EndFacts
  <2> QED
    BY <2>1, <2>2 DEF U!Writers, Writes
<1>5. U!NothingIsLeft
  BY DEF UnixInv, UnixControl, UnixEnds, U!NothingIsLeft
<1>6. U!SigpipeIsContained
  BY DEF UnixInv, UnixControl, UnixSignals, U!SigpipeIsContained
<1> QED
  BY <1>1, <1>2, <1>3, <1>4, <1>5, <1>6

(* The parts of MCCommands do not touch each other's variables. *)
LEMMA UnixAlways == Spec => []UnixInv
<1>1. Init => UnixInv
  BY UnixStart DEF Init
<1>2. UnixInv /\ [Next]_vars => UnixInv'
  <2> SUFFICES ASSUME UnixInv, [Next]_vars PROVE UnixInv'
    OBVIOUS
  <2>1. CASE U!Next
    BY <2>1, UnixKeeps
  <2>2. CASE UNCHANGED unixVars
    BY <2>2, UnixStays
  <2> QED
    BY <2>1, <2>2 DEF Next, vars
<1> QED
  BY <1>1, <1>2, PTL DEF Spec

-----------------------------------------------------------------------------
(* Windows: the invariant.                                                  *)

WinTypes ==
  /\ W!TypeOK
  /\ disk = [s \in Sides |-> disk[s]]
  /\ \A s \in Sides : disk[s] \in Seq(Unit) \cup {W!NoFile}
  /\ winWrote \in Seq(Unit)
  /\ winResult \in [error : BOOLEAN, done : BOOLEAN,
                    output : Seq(Unit), stdout : Seq(Unit), stderr : Seq(Unit)]

(* What each step of the run finds; wait is the only one that a child may   *)
(* outlive.                                                                 *)
Opening == {"open_out", "open_err", "line", "create"}
Ended == {"code", "close", "read", "read_err"}

WinControl ==
  /\ winFlags.merge /\ winFlags.err => winFlags.out
  /\ winPc \notin {"wait", "code", "close"} => handles = {}
  /\ winPc # "read_err" => buffers = {}
  /\ winPc # "idle" => winResult = W!NoResult
  /\ winPc \in Opening \cup {"dead"} => winChild = "none"
  /\ winPc = "wait" => winChild # "none"
  /\ winPc \in Ended => winChild = "ended"

(* The files that exist are those of the captures, until the run is over. *)
WinFiles ==
  /\ winPc \in {"idle", "open_out", "dead"} => \A s \in Sides : capture[s] = W!NoCapture
  /\ winPc = "open_err" => capture["err"] = W!NoCapture
  /\ winPc \notin {"idle", "dead"} =>
       \A s \in Sides : capture[s].path <=> disk[s] # W!NoFile
  /\ winPc \in {"open_err", "line", "create"} /\ W!Own("out") => disk["out"] # W!NoFile
  /\ winPc \in {"line", "create"} /\ W!Own("err") => disk["err"] # W!NoFile
  /\ winPc = "wait" \/ winPc \in Ended \/ winChild = "running" =>
       \A s \in Sides : W!Own(s) => disk[s] # W!NoFile
  /\ winPc = "idle" /\ winResult.done /\ ~winResult.error =>
       winChild = "ended" /\ \A s \in Sides : disk[s] = W!NoFile

(* The files have what was written so far; a stream without one has nothing. *)
Wants(s) == IF s = "out" THEN winFlags.out ELSE winFlags.err
Rising(q, s) == \A i, j \in U!At(q, s) : i < j => q[i][2] < q[j][2]
Kept(q, w, s) == Units(q, s) = Units(w, s) /\ Rising(q, s) /\ U!At(q, s) = DOMAIN q

InFiles ==
  /\ winFlags.merge /\ winFlags.out => disk["out"] = winWrote
  /\ winFlags.merge /\ ~winFlags.out => winWrote = <<>>
  /\ ~winFlags.merge =>
       \A s \in Sides : IF Wants(s) THEN Kept(disk[s], winWrote, s) ELSE Units(winWrote, s) = {}

WinOutput ==
  /\ \A i \in DOMAIN winWrote : winWrote[i][2] = i - 1
  /\ winPc \in Opening => winWrote = <<>> /\ \A s \in Sides : disk[s] \in {<<>>, W!NoFile}
  /\ winPc = "wait" \/ winPc \in Ended => InFiles
  /\ W!OutputIsTheChilds

WinInv == WinTypes /\ WinControl /\ WinFiles /\ WinOutput

LEMMA WinConstants == MaxOutput \in Nat /\ MaxRuns \in Nat
BY Instances DEF W!CommandWindowsAssumption

(* A missing file is no text. *)
LEMMA MissingFile == W!NoFile \notin Seq(Unit) /\ W!Streams = Sides
<1>1. <<"none", 0>> \notin Unit
  BY DEF Unit, Sides
<1>2. W!NoFile[1] = <<"none", 0>> /\ Len(W!NoFile) = 1
  BY DEF W!NoFile
<1>3. W!NoFile \notin Seq(Unit)
  <2> SUFFICES ASSUME W!NoFile \in Seq(Unit) PROVE FALSE
    OBVIOUS
  <2>1. 1 \in 1 .. Len(W!NoFile)
    BY <1>2
  <2>2. W!NoFile[1] \in Unit
    BY <2>1
  <2> QED
    BY <1>1, <1>2, <2>2
<1> QED
  BY <1>3 DEF W!Streams, Sides

LEMMA WinStart == W!Init => WinInv
<1> SUFFICES ASSUME W!Init PROVE WinInv
  OBVIOUS
<1>1. /\ winPc = "idle" /\ winFlags = [out |-> FALSE, err |-> FALSE, merge |-> FALSE]
      /\ capture = [s \in Sides |-> W!NoCapture] /\ disk = [s \in Sides |-> W!NoFile]
      /\ winChild = "none" /\ handles = {} /\ winWrote = <<>> /\ buffers = {}
      /\ winResult = W!NoResult /\ winRuns = 0
  BY MissingFile DEF W!Init
<1>2. 0 \in 0 .. MaxRuns
  BY WinConstants
<1>3. WinTypes
  BY <1>1, <1>2, NoUnits, MissingFile DEF WinTypes, W!TypeOK, W!NoCapture, W!NoResult
<1>4. WinControl /\ WinFiles
  BY <1>1 DEF WinControl, WinFiles, W!NoResult, Opening, Ended
<1>5. WinOutput
  BY <1>1 DEF WinOutput, Opening, Ended, W!OutputIsTheChilds, W!NoResult
<1> QED
  BY <1>3, <1>4, <1>5 DEF WinInv

LEMMA WinStays == WinInv /\ UNCHANGED windowsVars => WinInv'
<1> SUFFICES ASSUME WinInv, UNCHANGED windowsVars PROVE WinInv'
  OBVIOUS
<1>1. /\ winPc' = winPc /\ winFlags' = winFlags /\ capture' = capture /\ disk' = disk
      /\ winChild' = winChild /\ handles' = handles /\ winWrote' = winWrote /\ buffers' = buffers
      /\ winResult' = winResult /\ winRuns' = winRuns
  BY DEF windowsVars
<1>2. WinTypes'
  BY <1>1 DEF WinInv, WinTypes, W!TypeOK
<1>3. WinControl' /\ WinFiles'
  BY <1>1 DEF WinInv, WinControl, WinFiles, W!Own
<1>4. W!OutputIsTheChilds'
  <2>1. \A s : W!HasAll(winResult.output, s)' <=> W!HasAll(winResult.output, s)
    <3>1. \A s : W!At(winWrote, s)' = W!At(winWrote, s)
                 /\ W!At(winResult.output, s)' = W!At(winResult.output, s)
      BY <1>1 DEF W!At
    <3> QED
      BY <1>1, <3>1 DEF W!HasAll
  <2> QED
    BY <1>1, <2>1 DEF WinInv, WinOutput, W!OutputIsTheChilds
<1>5. InFiles' <=> InFiles
  BY <1>1 DEF InFiles, Wants
<1>6. WinOutput'
  BY <1>1, <1>4, <1>5 DEF WinInv, WinOutput
<1> QED
  BY <1>2, <1>3, <1>6 DEF WinInv

(* A run begins when no file is left of the one before. *)
LEMMA RunKeeps ==
  ASSUME WinInv, NEW f \in [out: BOOLEAN, err: BOOLEAN, merge: BOOLEAN], W!Run(f)
  PROVE  WinInv'
<1>1. /\ winPc = "idle" /\ winRuns < MaxRuns /\ \A s \in Sides : disk[s] = W!NoFile
      /\ winPc' = "open_out"
      /\ winFlags' = [f EXCEPT !.out = f.out \/ (f.merge /\ f.err)]
      /\ capture' = [s \in Sides |-> W!NoCapture]
      /\ winChild' = "none" /\ winWrote' = <<>> /\ winResult' = W!NoResult
      /\ winRuns' = winRuns + 1
      /\ disk' = disk /\ handles' = handles /\ buffers' = buffers
  BY MissingFile DEF W!Run
<1>2. /\ winFlags' \in [out: BOOLEAN, err: BOOLEAN, merge: BOOLEAN]
      /\ winFlags'.merge /\ winFlags'.err => winFlags'.out
  <2>1. /\ (winFlags'.out <=> f.out \/ (f.merge /\ f.err))
        /\ winFlags'.merge = f.merge /\ winFlags'.err = f.err
        /\ winFlags' \in [out: BOOLEAN, err: BOOLEAN, merge: BOOLEAN]
    BY <1>1
  <2> QED
    BY <2>1
<1>3. handles = {} /\ buffers = {}
  BY <1>1 DEF WinInv, WinControl
<1>4. WinTypes'
  <2>1. winRuns' \in 0 .. MaxRuns
    BY <1>1, WinConstants DEF WinInv, WinTypes, W!TypeOK
  <2>2. W!TypeOK'
    BY <1>1, <1>2, <1>3, <2>1, MissingFile DEF W!TypeOK, W!NoCapture
  <2> QED
    BY <1>1, <2>2, NoUnits DEF WinInv, WinTypes, W!NoResult
<1>5. WinControl' /\ WinFiles'
  BY <1>1, <1>2, <1>3 DEF WinControl, WinFiles, W!NoCapture, Opening, Ended
<1>6. WinOutput'
  <2>1. W!OutputIsTheChilds'
    BY <1>1 DEF W!OutputIsTheChilds
  <2> QED
    BY <1>1, <2>1 DEF WinOutput, Opening, Ended
<1> QED
  BY <1>4, <1>5, <1>6 DEF WinInv

(* Every way out with an error cleans up the captures there are. *)
LEMMA WayOut ==
  ASSUME WinInv, winPc \notin {"idle", "dead"}, NEW S \in SUBSET Sides, W!Fail(S),
         \A s \in Sides \ S : capture[s] = W!NoCapture,
         handles' = {}, buffers' = {}, UNCHANGED <<winFlags, winChild, winWrote, winRuns>>
  PROVE  WinInv' /\ (winChild # "running" => \A s \in Sides : disk'[s] = W!NoFile)
<1>1. /\ capture' = [s \in Sides |-> IF s \in S THEN W!NoCapture ELSE capture[s]]
      /\ disk' = [s \in Sides |-> IF s \in S /\ capture[s].path THEN W!Deleted(s) ELSE disk[s]]
      /\ winResult' = [winResult EXCEPT !.error = TRUE, !.done = TRUE]
      /\ winPc' = "idle"
  BY MissingFile DEF W!Fail, W!Cleanup
<1>2. winResult = W!NoResult
  BY DEF WinInv, WinControl
<1>3. /\ winResult' \in [error : BOOLEAN, done : BOOLEAN,
                         output : Seq(Unit), stdout : Seq(Unit), stderr : Seq(Unit)]
      /\ winResult'.error /\ winResult'.output = <<>> /\ winResult'.stdout = <<>>
  BY <1>1, <1>2, NoUnits DEF W!NoResult
<1>4. capture' = [s \in Sides |-> W!NoCapture]
  BY <1>1
<1>5. \A s \in Sides : capture[s].path <=> disk[s] # W!NoFile
  BY DEF WinInv, WinFiles
<1>6. ASSUME winChild # "running" PROVE \A s \in Sides : disk'[s] = W!NoFile
  <2> TAKE s \in Sides
  <2>1. CASE s \in S
    BY <1>1, <1>5, <1>6, <2>1 DEF W!Deleted
  <2>2. CASE s \notin S
    <3>1. ~capture[s].path
      BY <2>2 DEF W!NoCapture
    <3> QED
      BY <1>1, <1>5, <2>2, <3>1
  <2> QED
    BY <2>1, <2>2
<1>7. ASSUME winChild = "running" PROVE \A s \in Sides : disk'[s] = disk[s]
  BY <1>1, <1>7 DEF W!Deleted
<1>8. disk' = [s \in Sides |-> disk'[s]] /\ \A s \in Sides : disk'[s] \in Seq(Unit) \cup {W!NoFile}
  BY <1>1, <1>6, <1>7 DEF WinInv, WinTypes
<1>9. WinTypes'
  <2>1. W!TypeOK'
    BY <1>1, <1>4, MissingFile DEF WinInv, WinTypes, W!TypeOK, W!NoCapture
  <2> QED
    BY <1>3, <1>8, <2>1 DEF WinInv, WinTypes
<1>10. WinControl'
  BY <1>1 DEF WinInv, WinControl, Opening, Ended
<1>11. WinFiles'
  <2>1. winChild = "running" => \A s \in Sides : W!Own(s)' => disk'[s] # W!NoFile
    BY <1>7 DEF WinInv, WinFiles, W!Own
  <2> QED
    BY <1>1, <1>3, <1>4, <2>1 DEF WinFiles, Ended
<1>12. WinOutput'
  <2>1. W!OutputIsTheChilds'
    BY <1>1, <1>3 DEF W!OutputIsTheChilds
  <2> QED
    BY <1>1, <2>1 DEF WinInv, WinOutput, Opening, Ended
<1> QED
  BY <1>6, <1>9, <1>10, <1>11, <1>12 DEF WinInv

LEMMA OpenKeeps ==
  ASSUME WinInv, NEW s \in Sides, W!Open(s)
  PROVE  WinInv'
<1>1. /\ winPc = (IF s = "out" THEN "open_out" ELSE "open_err")
      /\ winPc' = IF s = "out" THEN "open_err" ELSE "line"
      /\ IF W!Own(s)
         THEN /\ capture' = [capture EXCEPT ![s] = [open |-> TRUE, path |-> TRUE]]
              /\ disk' = [disk EXCEPT ![s] = <<>>]
         ELSE capture' = capture /\ disk' = disk
      /\ winFlags' = winFlags /\ winChild' = winChild /\ handles' = handles
      /\ winWrote' = winWrote /\ buffers' = buffers /\ winResult' = winResult /\ winRuns' = winRuns
  BY DEF W!Open
<1>2. /\ winPc \in Opening /\ winPc' \in Opening /\ winPc \in {"open_out", "open_err"}
      /\ winPc' \in {"open_err", "line"}
  BY <1>1 DEF Opening
<1>3. \A x \in Sides \ {s} : capture'[x] = capture[x] /\ disk'[x] = disk[x]
  BY <1>1, MissingFile DEF WinInv, WinTypes, W!TypeOK
<1>4. W!Own(s) => /\ capture'[s] = [open |-> TRUE, path |-> TRUE] /\ disk'[s] = <<>>
                  /\ disk'[s] # W!NoFile
  <2>1. s \in DOMAIN capture /\ s \in DOMAIN disk
    BY MissingFile DEF WinInv, WinTypes, W!TypeOK
  <2> QED
    BY <1>1, <2>1, NoUnits, MissingFile
<1>5. ~W!Own(s) => capture' = capture /\ disk' = disk
  BY <1>1
<1>6. \A x \in Sides : W!Own(x)' <=> W!Own(x)
  BY <1>1 DEF W!Own
<1>7. WinTypes'
  <2>1. capture' \in [Sides -> [open: BOOLEAN, path: BOOLEAN]]
    <3>1. capture \in [Sides -> [open: BOOLEAN, path: BOOLEAN]]
      BY MissingFile DEF WinInv, WinTypes, W!TypeOK
    <3>2. CASE W!Own(s)
      <4>1. capture' = [capture EXCEPT ![s] = [open |-> TRUE, path |-> TRUE]]
        BY <1>1, <3>2
      <4> QED
        BY <3>1, <4>1
    <3> QED
      BY <1>5, <3>1, <3>2
  <2>2. \A x \in Sides : capture'[x].open => disk'[x] # W!NoFile
    BY <1>3, <1>4, <1>5, MissingFile DEF WinInv, WinTypes, W!TypeOK
  <2>3. W!TypeOK'
    BY <1>1, <1>2, <2>1, <2>2, MissingFile DEF WinInv, WinTypes, W!TypeOK
  <2>4. disk' = [x \in Sides |-> disk'[x]]
    BY <1>1 DEF WinInv, WinTypes
  <2>5. \A x \in Sides : disk'[x] \in Seq(Unit) \cup {W!NoFile}
    BY <1>3, <1>4, <1>5, NoUnits DEF WinInv, WinTypes
  <2> QED
    BY <1>1, <2>3, <2>4, <2>5 DEF WinInv, WinTypes
<1>8. WinControl'
  BY <1>1, <1>2 DEF WinInv, WinControl, Opening, Ended
<1>9. WinFiles'
  <2>1. \A x \in Sides : capture'[x].path <=> disk'[x] # W!NoFile
    BY <1>2, <1>3, <1>4, <1>5 DEF WinInv, WinFiles
  <2>2. s = "out" => capture'["err"] = W!NoCapture
    BY <1>1, <1>3 DEF WinInv, WinFiles, Sides
  <2>3. W!Own("out")' => disk'["out"] # W!NoFile
    BY <1>1, <1>3, <1>4, <1>6 DEF WinInv, WinFiles, Sides
  <2>4. s = "err" /\ W!Own("err")' => disk'["err"] # W!NoFile
    BY <1>4, <1>6
  <2>5. winChild' # "running"
    BY <1>1, <1>2 DEF WinInv, WinControl
  <2> QED
    BY <1>1, <1>2, <2>1, <2>2, <2>3, <2>4, <2>5 DEF WinFiles, Ended, Sides
<1>10. WinOutput'
  <2>1. W!OutputIsTheChilds'
    BY <1>2 DEF W!OutputIsTheChilds
  <2>2. \A x \in Sides : disk'[x] \in {<<>>, W!NoFile}
    BY <1>2, <1>3, <1>4, <1>5 DEF WinInv, WinOutput
  <2> QED
    BY <1>1, <1>2, <2>1, <2>2 DEF WinInv, WinOutput, Ended
<1> QED
  BY <1>7, <1>8, <1>9, <1>10 DEF WinInv

LEMMA OpenFailsKeeps ==
  ASSUME WinInv, NEW s \in Sides, W!OpenFails(s)
  PROVE  WinInv' /\ \A x \in Sides : disk'[x] = W!NoFile
<1>1. /\ winPc = (IF s = "out" THEN "open_out" ELSE "open_err") /\ W!Fail(Sides \ {s})
      /\ UNCHANGED <<winFlags, winChild, handles, winWrote, buffers, winRuns>>
  BY MissingFile DEF W!OpenFails
<1>2. handles = {} /\ buffers = {} /\ winChild = "none"
  BY <1>1 DEF WinInv, WinControl, Opening
<1>3. capture[s] = W!NoCapture
  BY <1>1 DEF WinInv, WinFiles, Sides
<1>4. /\ handles' = {} /\ buffers' = {} /\ UNCHANGED <<winFlags, winChild, winWrote, winRuns>>
      /\ Sides \ {s} \in SUBSET Sides
      /\ \A x \in Sides \ (Sides \ {s}) : capture[x] = W!NoCapture
  BY <1>1, <1>2, <1>3
<1>5. winPc \notin {"idle", "dead"}
  BY <1>1
<1> QED
  BY <1>1, <1>2, <1>4, <1>5, WayOut

-----------------------------------------------------------------------------
(* Windows: the child writes, and the run goes on or ends.                  *)

LEMMA FilesStand ==
  ASSUME WinInv, UNCHANGED <<winFlags, winWrote, disk>>
  PROVE  /\ (InFiles' <=> InFiles) /\ \A s \in Sides : W!Own(s)' <=> W!Own(s)
         /\ disk' = [s \in Sides |-> disk'[s]]
         /\ \A s \in Sides : disk'[s] \in Seq(Unit) \cup {W!NoFile}
         /\ winWrote' \in Seq(Unit) /\ \A i \in DOMAIN winWrote' : winWrote'[i][2] = i - 1
<1>1. winFlags' = winFlags /\ winWrote' = winWrote /\ disk' = disk
  OBVIOUS
<1>2. (InFiles' <=> InFiles) /\ \A s \in Sides : W!Own(s)' <=> W!Own(s)
  BY <1>1 DEF InFiles, Wants, W!Own
<1> QED
  BY <1>1, <1>2 DEF WinInv, WinTypes, WinOutput

(* The steps after the child has ended. *)
LEMMA MovesOn ==
  ASSUME WinInv, winPc \in {"wait", "code", "close", "read"}, winPc' \in Ended, winChild = "ended",
         UNCHANGED <<winFlags, disk, winChild, winWrote, winResult, winRuns>>,
         capture' \in [Sides -> [open: BOOLEAN, path: BOOLEAN]],
         \A s \in Sides : (capture'[s].path <=> capture[s].path) /\ (capture'[s].open => capture[s].open),
         handles' \subseteq handles, winPc' \notin {"code", "close"} => handles' = {},
         buffers' \subseteq Sides, winPc' # "read_err" => buffers' = {}
  PROVE  WinInv'
<1>1. InFiles' /\ \A s \in Sides : W!Own(s)' /\ disk'[s] = disk[s] => disk'[s] # W!NoFile
  BY FilesStand DEF WinInv, WinFiles, WinOutput, Ended
<1>2. WinTypes'
  <2>1. \A s \in Sides : capture'[s].open => disk'[s] # W!NoFile
    BY MissingFile DEF WinInv, WinTypes, W!TypeOK
  <2>2. W!TypeOK'
    BY <2>1, MissingFile DEF WinInv, WinTypes, W!TypeOK, Ended
  <2> QED
    BY <2>2 DEF WinInv, WinTypes
<1>3. WinControl'
  BY DEF WinInv, WinControl, Opening, Ended
<1>4. WinFiles'
  BY <1>1 DEF WinInv, WinFiles, Ended
<1>5. WinOutput'
  <2>1. W!OutputIsTheChilds'
    BY DEF W!OutputIsTheChilds, Ended
  <2> QED
    BY <1>1, <2>1, FilesStand DEF WinOutput, Opening, Ended
<1> QED
  BY <1>2, <1>3, <1>4, <1>5 DEF WinInv

LEMMA CreateKeeps ==
  ASSUME WinInv, W!Create
  PROVE  WinInv' /\ (winPc' = "idle" => \A s \in Sides : disk'[s] = W!NoFile)
<1>1. /\ winPc = "create" /\ winFlags' = winFlags /\ winWrote' = winWrote
      /\ buffers' = buffers /\ winRuns' = winRuns
  BY DEF W!Create
<1>2. handles = {} /\ buffers = {} /\ winChild = "none" /\ winResult = W!NoResult
  BY <1>1 DEF WinInv, WinControl, Opening
<1>3. CASE W!Fail(W!Streams) /\ UNCHANGED <<winChild, handles>>
  <2>1. Sides \in SUBSET Sides /\ W!Fail(Sides) /\ \A s \in Sides \ Sides : capture[s] = W!NoCapture
    BY <1>3, MissingFile
  <2>2. /\ handles' = {} /\ buffers' = {} /\ UNCHANGED <<winFlags, winChild, winWrote, winRuns>>
        /\ winPc \notin {"idle", "dead"} /\ winChild # "running"
    BY <1>1, <1>2, <1>3
  <2> QED
    BY <2>1, <2>2, WayOut
<1>4. CASE /\ winChild' = "running" /\ handles' = {"thread", "process"} /\ winPc' = "wait"
           /\ UNCHANGED <<capture, disk, winResult>>
  <2>1. /\ winWrote = <<>> /\ \A s \in Sides : disk[s] \in {<<>>, W!NoFile}
        /\ \A s \in Sides : W!Own(s) => disk[s] # W!NoFile
    BY <1>1 DEF WinInv, WinFiles, WinOutput, Opening, Sides
  <2>2. \A s \in Sides : Kept(<<>>, <<>>, s) /\ Units(<<>>, s) = {}
    BY NoUnits DEF Kept, Rising
  <2>3. InFiles
    <3>1. winFlags.merge /\ winFlags.out => disk["out"] = winWrote
      BY <2>1 DEF W!Own, Sides
    <3>2. ASSUME ~winFlags.merge, NEW s \in Sides
          PROVE  IF Wants(s) THEN Kept(disk[s], winWrote, s) ELSE Units(winWrote, s) = {}
      <4>1. Wants(s) => disk[s] = <<>>
        BY <2>1, <3>2 DEF W!Own, Wants
      <4> QED
        BY <2>1, <2>2, <4>1
    <3> QED
      BY <2>1, <3>1, <3>2 DEF InFiles
  <2>4. InFiles' /\ \A s \in Sides : W!Own(s)' => disk'[s] # W!NoFile
    BY <1>1, <1>4, <2>1, <2>3, FilesStand
  <2>5. WinTypes'
    <3>1. W!TypeOK'
      BY <1>1, <1>4 DEF WinInv, WinTypes, W!TypeOK
    <3> QED
      BY <1>1, <1>4, <3>1 DEF WinInv, WinTypes
  <2>6. WinControl'
    BY <1>1, <1>2, <1>4 DEF WinInv, WinControl, Opening, Ended
  <2>7. WinFiles'
    BY <1>1, <1>4, <2>4 DEF WinInv, WinFiles, Ended
  <2>8. WinOutput'
    <3>1. W!OutputIsTheChilds'
      BY <1>4 DEF W!OutputIsTheChilds
    <3> QED
      BY <1>1, <1>4, <2>4, <3>1 DEF WinInv, WinOutput, Opening, Ended
  <2> QED
    BY <1>4, <2>5, <2>6, <2>7, <2>8 DEF WinInv
<1> QED
  BY <1>3, <1>4 DEF W!Create

(* The command line: it fits, or the process ends and its files stay. *)
LEMMA LineKeeps ==
  ASSUME WinInv, W!CommandLine
  PROVE  WinInv' /\ winPc' # "idle"
<1>1. /\ winPc = "line" /\ winFlags' = winFlags /\ disk' = disk /\ winChild' = winChild
      /\ handles' = handles /\ winWrote' = winWrote /\ buffers' = buffers
      /\ winResult' = winResult /\ winRuns' = winRuns
      /\ \/ winPc' = "create" /\ capture' = capture
         \/ winPc' = "dead" /\ capture' = [s \in Sides |-> W!NoCapture]
  BY MissingFile DEF W!CommandLine
<1>2. handles = {} /\ buffers = {} /\ winChild = "none" /\ winResult = W!NoResult
  BY <1>1 DEF WinInv, WinControl, Opening
<1>3. WinTypes'
  <2>1. /\ capture' \in [Sides -> [open: BOOLEAN, path: BOOLEAN]]
        /\ \A s \in Sides : capture'[s].open => disk'[s] # W!NoFile
    <3>1. /\ capture \in [Sides -> [open: BOOLEAN, path: BOOLEAN]]
          /\ \A s \in Sides : capture[s].open => disk[s] # W!NoFile
      BY MissingFile DEF WinInv, WinTypes, W!TypeOK
    <3>2. CASE capture' = capture
      BY <1>1, <3>1, <3>2
    <3>3. CASE capture' = [s \in Sides |-> W!NoCapture]
      BY <3>3 DEF W!NoCapture
    <3> QED
      BY <1>1, <3>2, <3>3
  <2>2. W!TypeOK'
    BY <1>1, <2>1, MissingFile DEF WinInv, WinTypes, W!TypeOK
  <2> QED
    BY <1>1, <2>2 DEF WinInv, WinTypes
<1>4. WinControl'
  BY <1>1, <1>2 DEF WinInv, WinControl, Opening, Ended
<1>5. WinFiles'
  <2>1. \A s \in Sides : W!Own(s)' <=> W!Own(s)
    BY <1>1 DEF W!Own
  <2>2. CASE winPc' = "create" /\ capture' = capture
    BY <1>1, <1>2, <2>1, <2>2 DEF WinInv, WinFiles, Ended, Sides
  <2>3. CASE winPc' = "dead" /\ capture' = [s \in Sides |-> W!NoCapture]
    BY <1>1, <1>2, <2>3 DEF WinFiles, Ended
  <2> QED
    BY <1>1, <2>2, <2>3
<1>6. WinOutput'
  <2>1. W!OutputIsTheChilds'
    BY <1>1 DEF W!OutputIsTheChilds
  <2> QED
    BY <1>1, <2>1 DEF WinInv, WinOutput, Opening, Ended
<1> QED
  BY <1>1, <1>3, <1>4, <1>5, <1>6 DEF WinInv

LEMMA WaitsKeep ==
  ASSUME WinInv, W!Wait \/ W!ExitCode \/ W!Close
  PROVE  WinInv' /\ (winPc' = "idle" /\ winChild # "running" => \A s \in Sides : disk'[s] = W!NoFile)
<1>1. /\ winPc \in {"wait", "code", "close"} /\ winFlags' = winFlags /\ winWrote' = winWrote
      /\ winChild' = winChild /\ buffers' = buffers /\ winRuns' = winRuns
      /\ winPc # "wait" => winChild = "ended"
      /\ buffers = {}
  BY DEF WinInv, WinControl, Ended, W!Wait, W!ExitCode, W!Close
<1>2. CASE W!Fail(W!Streams) /\ handles' = {}
  <2>1. Sides \in SUBSET Sides /\ W!Fail(Sides) /\ \A s \in Sides \ Sides : capture[s] = W!NoCapture
    BY <1>2, MissingFile
  <2>2. /\ handles' = {} /\ buffers' = {} /\ UNCHANGED <<winFlags, winChild, winWrote, winRuns>>
        /\ winPc \notin {"idle", "dead"}
    BY <1>1, <1>2
  <2> QED
    BY <2>1, <2>2, WayOut
<1>3. CASE /\ UNCHANGED <<capture, disk, winResult>> /\ winChild = "ended"
           /\ \/ winPc' \in {"code", "close"} /\ handles' = handles
              \/ winPc' = "read" /\ handles' = {}
  <2>1. capture' \in [Sides -> [open: BOOLEAN, path: BOOLEAN]]
    BY <1>3, MissingFile DEF WinInv, WinTypes, W!TypeOK
  <2>2. WinInv'
    BY <1>1, <1>3, <2>1, MovesOn DEF Ended
  <2> QED
    BY <1>3, <2>2
<1> QED
  BY <1>1, <1>2, <1>3 DEF W!Wait, W!ExitCode, W!Close

LEMMA ReadOutKeeps ==
  ASSUME WinInv, W!ReadOut
  PROVE  WinInv' /\ (winPc' = "idle" => \A s \in Sides : disk'[s] = W!NoFile)
<1>1. /\ winPc = "read" /\ winFlags' = winFlags /\ winWrote' = winWrote
      /\ winChild' = winChild /\ handles' = handles /\ winRuns' = winRuns
      /\ winChild = "ended" /\ buffers = {} /\ handles = {}
  BY DEF WinInv, WinControl, Ended, W!ReadOut
<1>2. CASE W!Fail(W!Streams) /\ buffers' = buffers
  <2>1. Sides \in SUBSET Sides /\ W!Fail(Sides) /\ \A s \in Sides \ Sides : capture[s] = W!NoCapture
    BY <1>2, MissingFile
  <2>2. /\ handles' = {} /\ buffers' = {} /\ UNCHANGED <<winFlags, winChild, winWrote, winRuns>>
        /\ winPc \notin {"idle", "dead"} /\ winChild # "running"
    BY <1>1, <1>2
  <2> QED
    BY <2>1, <2>2, WayOut
<1>3. CASE /\ winPc' = "read_err" /\ capture' = [capture EXCEPT !["out"].open = FALSE]
           /\ buffers' = {s \in {"out"} : winFlags.out} /\ UNCHANGED <<disk, winResult>>
  <2>1. capture \in [Sides -> [open: BOOLEAN, path: BOOLEAN]]
    BY MissingFile DEF WinInv, WinTypes, W!TypeOK
  <2>2. /\ capture' \in [Sides -> [open: BOOLEAN, path: BOOLEAN]]
        /\ \A s \in Sides : (capture'[s].path <=> capture[s].path) /\ (capture'[s].open => capture[s].open)
    BY <1>3, <2>1 DEF Sides
  <2>3. buffers' \subseteq Sides
    BY <1>3 DEF Sides
  <2>4. WinInv'
    BY <1>1, <1>3, <2>2, <2>3, MovesOn DEF Ended
  <2> QED
    BY <1>3, <2>4
<1> QED
  BY <1>2, <1>3 DEF W!ReadOut

(* A unit that is written goes to the end of its file. *)
LEMMA KeptAdded ==
  ASSUME NEW q \in Seq(Unit), NEW w \in Seq(Unit), NEW u \in Unit, NEW s \in Sides,
         Kept(q, w, s), \A i \in DOMAIN w : w[i][2] < u[2]
  PROVE  /\ u[1] = s => Kept(Append(q, u), Append(w, u), s)
         /\ u[1] # s => Kept(q, Append(w, u), s)
<1>1. CASE u[1] # s
  BY <1>1, UnitsAppended DEF Kept
<1>2. CASE u[1] = s
  <2>1. \A x \in {q, w} : Units(Append(x, u), s) = Units(x, s) \cup {u}
    BY <1>2, UnitsAppended
  <2>2. PICK n \in Nat : n = Len(q)
    OBVIOUS
  <2>3. PICK a : a = Append(q, u)
    OBVIOUS
  <2>4. /\ DOMAIN q = 1 .. n /\ DOMAIN a = 1 .. n + 1
        /\ \A i \in 1 .. n : a[i] = q[i]
        /\ a[n + 1] = u
    BY <2>2, <2>3, AppendProperties
  <2>5. U!At(a, s) = 1 .. n + 1 /\ U!At(q, s) = 1 .. n
    <3>1. U!At(a, s) = (1 .. n) \cup {n + 1}
      BY <1>2, <2>2, <2>3, <2>4, UnitsAppended DEF Kept
    <3> QED
      BY <2>2, <2>4, <3>1 DEF Kept
  <2>6. Units(a, s) = Units(Append(w, u), s)
    <3>1. Units(Append(q, u), s) = Units(q, s) \cup {u}
      BY <2>1, Zenon
    <3>2. Units(Append(w, u), s) = Units(w, s) \cup {u}
      BY <2>1, Zenon
    <3> QED
      BY <2>3, <3>1, <3>2, Zenon DEF Kept
  <2>7. \A i \in 1 .. n : q[i][2] < u[2]
    <3> TAKE i \in 1 .. n
    <3>1. q[i] \in Units(q, s)
      BY <2>5 DEF Units
    <3>2. PICK j \in U!At(w, s) : q[i] = w[j]
      BY <3>1 DEF Kept, Units
    <3>3. j \in DOMAIN w
      BY DEF U!At
    <3> QED
      BY <3>2, <3>3
  <2>8. Rising(a, s)
    <3>1. SUFFICES ASSUME NEW i \in 1 .. n + 1, NEW j \in 1 .. n + 1, i < j PROVE a[i][2] < a[j][2]
      BY <2>5 DEF Rising
    <3>2. i \in 1 .. n
      BY <3>1
    <3>3. CASE j = n + 1
      BY <2>4, <2>7, <3>2, <3>3
    <3>4. CASE j # n + 1
      <4>1. j \in 1 .. n
        BY <3>4
      <4>2. q[i][2] < q[j][2]
        BY <2>5, <3>1, <3>2, <4>1 DEF Kept, Rising
      <4> QED
        BY <2>4, <3>2, <4>1, <4>2
    <3> QED
      BY <3>3, <3>4
  <2> QED
    BY <1>2, <2>3, <2>4, <2>5, <2>6, <2>8 DEF Kept
<1> QED
  BY <1>1, <1>2

LEMMA WritesKeep ==
  ASSUME WinInv, W!ChildWrites
  PROVE  WinInv' /\ winPc' = winPc
<1>1. /\ winChild = "running" /\ winPc' = winPc /\ winFlags' = winFlags /\ capture' = capture
      /\ winChild' = winChild /\ handles' = handles /\ buffers' = buffers
      /\ winResult' = winResult /\ winRuns' = winRuns
  BY DEF W!ChildWrites
<1>2. PICK s \in Sides : /\ IF s = "out" THEN winFlags.out ELSE winFlags.err
                         /\ winWrote' = Append(winWrote, <<s, Len(winWrote)>>)
                         /\ disk' = [disk EXCEPT ![W!Sink(s)] = Append(@, <<s, Len(winWrote)>>)]
  BY MissingFile DEF W!ChildWrites
<1>3. PICK n \in Nat : n = Len(winWrote)
  BY DEF WinInv, WinTypes
<1>4. PICK u \in Unit : u = <<s, n>>
  BY DEF Unit
<1>5. PICK t \in Sides : t = W!Sink(s)
  BY DEF W!Sink, Sides
<1>6. u[1] = s /\ u[2] = n
  BY <1>4
<1>7. winWrote \in Seq(Unit) /\ winWrote' = Append(winWrote, u)
  BY <1>2, <1>3, <1>4 DEF WinInv, WinTypes
<1>8. winPc \in {"wait", "idle"}
  BY <1>1 DEF WinInv, WinTypes, W!TypeOK, WinControl, Opening, Ended
<1>9. W!Own(t) /\ (winFlags.merge => t = "out" /\ winFlags.out) /\ (~winFlags.merge => t = s /\ Wants(s))
  BY <1>2, <1>5 DEF WinInv, WinControl, W!Own, W!Sink, Wants, Sides
<1>10. disk[t] \in Seq(Unit)
  BY <1>1, <1>9 DEF WinInv, WinTypes, WinFiles
<1>11. /\ disk'[t] = Append(disk[t], u) /\ \A x \in Sides \ {t} : disk'[x] = disk[x]
       /\ disk' = [x \in Sides |-> disk'[x]]
  <2>1. disk = [x \in Sides |-> disk[x]]
    BY DEF WinInv, WinTypes
  <2>2. disk' = [disk EXCEPT ![t] = Append(disk[t], u)]
    BY <1>2, <1>3, <1>4, <1>5
  <2> QED
    BY <2>1, <2>2
<1>12. /\ disk'[t] \in Seq(Unit) /\ disk'[t] # W!NoFile
       /\ winWrote' \in Seq(Unit)
       /\ \A x \in Sides : disk'[x] # W!NoFile <=> disk[x] # W!NoFile
  <2>1. Append(disk[t], u) \in Seq(Unit) /\ Append(winWrote, u) \in Seq(Unit)
    BY <1>7, <1>10, AppendProperties
  <2> QED
    BY <1>7, <1>10, <1>11, <2>1, MissingFile
<1>13. \A x \in Sides : W!Own(x)' <=> W!Own(x)
  BY <1>1 DEF W!Own
<1>14. WinTypes'
  <2>1. \A x \in Sides : capture'[x].open => disk'[x] # W!NoFile
    BY <1>1, <1>12, MissingFile DEF WinInv, WinTypes, W!TypeOK
  <2>2. W!TypeOK'
    BY <1>1, <2>1, MissingFile DEF WinInv, WinTypes, W!TypeOK
  <2>3. \A x \in Sides : disk'[x] \in Seq(Unit) \cup {W!NoFile}
    BY <1>11, <1>12 DEF WinInv, WinTypes
  <2> QED
    BY <1>1, <1>11, <1>12, <2>2, <2>3 DEF WinInv, WinTypes
<1>15. WinControl'
  BY <1>1 DEF WinInv, WinControl
<1>16. WinFiles'
  BY <1>1, <1>8, <1>12, <1>13 DEF WinInv, WinFiles, Ended
<1>17. \A i \in DOMAIN winWrote : winWrote[i][2] = i - 1 /\ i \in 1 .. n
  BY <1>3, <1>7 DEF WinInv, WinOutput
<1>18. \A i \in DOMAIN winWrote' : winWrote'[i][2] = i - 1
  <2>1. /\ DOMAIN winWrote' = 1 .. n + 1 /\ DOMAIN winWrote = 1 .. n
        /\ \A i \in 1 .. n : winWrote'[i] = winWrote[i]
        /\ winWrote'[n + 1] = u
    BY <1>3, <1>7, AppendProperties
  <2>2. \A i \in 1 .. n + 1 : i = n + 1 \/ i \in 1 .. n
    OBVIOUS
  <2>3. (n + 1) - 1 = n
    OBVIOUS
  <2> QED
    BY <1>6, <1>17, <2>1, <2>2, <2>3
<1>19. ASSUME winPc = "wait" PROVE InFiles'
  <2>1. InFiles
    BY <1>19 DEF WinInv, WinOutput
  <2>2. CASE winFlags.merge
    <3>1. disk["out"] = winWrote
      BY <1>9, <2>1, <2>2 DEF InFiles
    <3>2. disk'["out"] = winWrote'
      BY <1>7, <1>9, <1>11, <2>2, <3>1
    <3> QED
      BY <1>1, <1>9, <2>2, <3>2 DEF InFiles
  <2>3. CASE ~winFlags.merge
    <3>1. \A i \in DOMAIN winWrote : winWrote[i][2] < u[2]
      BY <1>6, <1>17
    <3>2. ASSUME NEW x \in Sides
          PROVE  IF Wants(x) THEN Kept(disk'[x], winWrote', x) ELSE Units(winWrote', x) = {}
      <4>1. IF Wants(x) THEN Kept(disk[x], winWrote, x) ELSE Units(winWrote, x) = {}
        BY <2>1, <2>3 DEF InFiles
      <4>2. CASE x = s
        <5>1. Kept(disk[s], winWrote, s)
          BY <1>9, <2>3, <4>1, <4>2
        <5>2. Kept(Append(disk[s], u), Append(winWrote, u), s)
          BY <1>6, <1>7, <1>9, <1>10, <2>3, <3>1, <5>1, KeptAdded
        <5> QED
          BY <1>7, <1>9, <1>11, <2>3, <4>2, <5>2
      <4>3. CASE x # s /\ Wants(x)
        <5>1. disk[x] \in Seq(Unit) /\ disk'[x] = disk[x]
          <6>1. W!Own(x)
            BY <2>3, <4>3 DEF Wants, W!Own
          <6> QED
            BY <1>1, <1>9, <1>11, <2>3, <4>3, <6>1 DEF WinInv, WinTypes, WinFiles
        <5>2. Kept(disk[x], Append(winWrote, u), x)
          BY <1>6, <1>7, <3>1, <4>1, <4>3, <5>1, KeptAdded
        <5> QED
          BY <1>7, <4>3, <5>1, <5>2
      <4>4. CASE x # s /\ ~Wants(x)
        BY <1>6, <1>7, <4>1, <4>4, UnitsAppended
      <4> QED
        BY <4>2, <4>3, <4>4
    <3>3. \A x \in Sides : Wants(x)' <=> Wants(x)
      BY <1>1 DEF Wants
    <3> QED
      BY <1>1, <2>3, <3>2, <3>3 DEF InFiles
  <2> QED
    BY <2>2, <2>3
<1>20. W!OutputIsTheChilds'
  <2>1. winPc = "idle" /\ winResult.done => winResult.error /\ winResult.output = <<>> /\ winResult.stdout = <<>>
    BY <1>1 DEF WinInv, WinFiles, WinOutput, W!OutputIsTheChilds
  <2> QED
    BY <1>1, <2>1 DEF W!OutputIsTheChilds
<1>21. WinOutput'
  BY <1>1, <1>8, <1>18, <1>19, <1>20 DEF WinOutput, Opening, Ended
<1> QED
  BY <1>1, <1>14, <1>15, <1>16, <1>21 DEF WinInv

LEMMA EndsKeep ==
  ASSUME WinInv, W!ChildEnds
  PROVE  WinInv' /\ winPc' = winPc
<1>1. /\ winChild = "running" /\ winChild' = "ended" /\ winPc' = winPc /\ winFlags' = winFlags
      /\ capture' = capture /\ disk' = disk /\ handles' = handles /\ winWrote' = winWrote
      /\ buffers' = buffers /\ winResult' = winResult /\ winRuns' = winRuns
  BY DEF W!ChildEnds
<1>2. WinTypes'
  BY <1>1 DEF WinInv, WinTypes, W!TypeOK
<1>3. WinControl'
  BY <1>1 DEF WinInv, WinControl, Opening, Ended
<1>4. WinFiles'
  BY <1>1 DEF WinInv, WinFiles, Ended, W!Own
<1>5. WinOutput'
  <2>1. winPc = "idle" /\ winResult.done => winResult.error /\ winResult.output = <<>> /\ winResult.stdout = <<>>
    BY <1>1 DEF WinInv, WinFiles, WinOutput, W!OutputIsTheChilds
  <2>2. W!OutputIsTheChilds'
    BY <1>1, <2>1 DEF W!OutputIsTheChilds
  <2> QED
    BY <1>1, <2>2, FilesStand DEF WinInv, WinOutput
<1> QED
  BY <1>1, <1>2, <1>3, <1>4, <1>5 DEF WinInv

(* A combined output has one file after the other, each of one stream. *)
LEMMA KeptJoined ==
  ASSUME NEW a \in Seq(Unit), NEW d \in Seq(Unit), NEW s \in Sides,
         \A i \in DOMAIN a : a[i][1] = "out", \A i \in DOMAIN d : d[i][1] = "err",
         Rising(a, "out"), Rising(d, "err")
  PROVE  /\ Units(a \o d, s) = IF s = "out" THEN Units(a, s) ELSE Units(d, s)
         /\ Rising(a \o d, s)
<1>1. U!At(a, "err") = {} /\ U!At(d, "out") = {}
  BY DEF U!At
<1>2. Units(a, "err") = {} /\ Units(d, "out") = {}
  BY <1>1 DEF Units
<1>3. Units(a \o d, s) = Units(a, s) \cup Units(d, s)
  BY UnitsJoined
<1>4. PICK c : c = a \o d
  OBVIOUS
<1>5. PICK m \in Nat : m = Len(a)
  OBVIOUS
<1>6. /\ U!At(c, s) = U!At(a, s) \cup {m + i : i \in U!At(d, s)}
      /\ \A i \in U!At(a, s) : c[i] = a[i]
      /\ \A i \in U!At(d, s) : c[m + i] = d[i]
  BY <1>4, <1>5, UnitsJoined
<1>7. CASE s = "out"
  <2>1. U!At(c, s) = U!At(a, s) /\ \A i \in U!At(a, s) : c[i] = a[i]
    BY <1>6, <1>1, <1>7
  <2>2. Rising(c, s)
    BY <1>7, <2>1 DEF Rising
  <2> QED
    BY <1>2, <1>3, <1>4, <1>7, <2>2
<1>8. CASE s = "err"
  <2>1. U!At(c, s) = {m + i : i \in U!At(d, s)} /\ \A i \in U!At(d, s) : c[m + i] = d[i]
    BY <1>6, <1>1, <1>8
  <2>2. \A i \in U!At(d, s) : i \in Nat
    BY DEF U!At
  <2>3. Rising(c, s)
    <3> SUFFICES ASSUME NEW i \in U!At(c, s), NEW j \in U!At(c, s), i < j PROVE c[i][2] < c[j][2]
      BY DEF Rising
    <3>1. PICK k \in U!At(d, s) : i = m + k
      BY <2>1
    <3>2. PICK l \in U!At(d, s) : j = m + l
      BY <2>1
    <3>3. k < l
      BY <2>2, <3>1, <3>2
    <3>4. d[k][2] < d[l][2]
      BY <1>8, <3>3 DEF Rising
    <3> QED
      BY <2>1, <3>1, <3>2, <3>4
  <2> QED
    BY <1>2, <1>3, <1>4, <1>8, <2>3
<1> QED
  BY <1>7, <1>8 DEF Sides

(* Numbers that rise are an order, too. *)
LEMMA RisingHasAll ==
  ASSUME WinInv, NEW q, NEW s \in Sides, Units(q, s) = Units(winWrote, s), Rising(q, s)
  PROVE  W!HasAll(q, s)
<1>1. {q[i] : i \in W!At(q, s)} = {winWrote[i] : i \in W!At(winWrote, s)}
  BY DEF Units, W!At, U!At
<1>2. ASSUME NEW i \in W!At(q, s), NEW j \in W!At(q, s), i < j
      PROVE  \E k, l \in W!At(winWrote, s) : k < l /\ q[i] = winWrote[k] /\ q[j] = winWrote[l]
  <2>1. PICK k \in W!At(winWrote, s) : q[i] = winWrote[k]
    BY <1>1
  <2>2. PICK l \in W!At(winWrote, s) : q[j] = winWrote[l]
    BY <1>1
  <2>3. q[i][2] < q[j][2]
    BY <1>2 DEF Rising, W!At, U!At
  <2>4. k \in DOMAIN winWrote /\ l \in DOMAIN winWrote
    BY DEF W!At
  <2>5. k \in Nat /\ l \in Nat /\ winWrote[k][2] = k - 1 /\ winWrote[l][2] = l - 1
    BY <2>4 DEF WinInv, WinTypes, WinOutput
  <2>6. k < l
    BY <2>1, <2>2, <2>3, <2>5
  <2> QED
    BY <2>1, <2>2, <2>6
<1> QED
  BY <1>1, <1>2 DEF W!HasAll

(* The results have all that was written. *)
LEMMA ResultsAreComplete ==
  ASSUME WinInv, winPc = "read_err"
  PROVE  /\ W!Results \in [error : BOOLEAN, done : BOOLEAN,
                           output : Seq(Unit), stdout : Seq(Unit), stderr : Seq(Unit)]
         /\ ~W!Results.error /\ W!Results.done
         /\ winFlags.merge => W!Results.output = winWrote
         /\ \A s \in Sides : W!HasAll(W!Results.output, s)
<1>1. PICK a : a = IF winFlags.out THEN disk["out"] ELSE <<>>
  OBVIOUS
<1>2. PICK d : d = IF W!Own("err") THEN disk["err"] ELSE <<>>
  OBVIOUS
<1>3. winResult = W!NoResult
  BY DEF WinInv, WinControl
<1>4. a \in Seq(Unit) /\ d \in Seq(Unit) /\ winWrote \in Seq(Unit)
  <2>1. W!Own("out") <=> winFlags.out
    BY DEF W!Own
  <2> QED
    BY <1>1, <1>2, <2>1, NoUnits DEF WinInv, WinTypes, WinFiles, Ended, Sides
<1>5. W!Results = [winResult EXCEPT !.done = TRUE, !.output = a \o d, !.stdout = a, !.stderr = d]
  BY <1>1, <1>2 DEF W!Results
<1>6. a \o d \in Seq(Unit)
  BY <1>4, ConcatProperties
<1>7. /\ W!Results \in [error : BOOLEAN, done : BOOLEAN,
                        output : Seq(Unit), stdout : Seq(Unit), stderr : Seq(Unit)]
      /\ ~W!Results.error /\ W!Results.done
  BY <1>3, <1>4, <1>5, <1>6, NoUnits DEF W!NoResult
<1>8. W!Results.output = a \o d
  BY <1>3, <1>5 DEF W!NoResult
<1>9. InFiles
  BY DEF WinInv, WinOutput, Ended
<1>10. CASE winFlags.merge
  <2>1. a = winWrote
    BY <1>1, <1>9, <1>10 DEF InFiles
  <2>2. d = <<>>
    BY <1>2, <1>10 DEF W!Own
  <2>3. a \o d = winWrote
    BY <1>4, <2>1, <2>2, ConcatEmptySeq
  <2>4. \A s \in Sides : Rising(winWrote, s)
    <3> SUFFICES ASSUME NEW s \in Sides, NEW i \in U!At(winWrote, s), NEW j \in U!At(winWrote, s), i < j
                 PROVE  winWrote[i][2] < winWrote[j][2]
      BY DEF Rising
    <3>1. i \in DOMAIN winWrote /\ j \in DOMAIN winWrote
      BY DEF U!At
    <3>2. i \in Nat /\ j \in Nat /\ winWrote[i][2] = i - 1 /\ winWrote[j][2] = j - 1
      BY <1>4, <3>1 DEF WinInv, WinOutput
    <3> QED
      BY <3>2
  <2>5. \A s \in Sides : W!HasAll(winWrote, s)
    BY <2>4, RisingHasAll
  <2> QED
    BY <1>7, <1>8, <2>3, <2>5
<1>11. CASE ~winFlags.merge
  <2>1. /\ winFlags.out => Kept(a, winWrote, "out")
        /\ ~winFlags.out => a = <<>> /\ Units(winWrote, "out") = {}
    BY <1>1, <1>9, <1>11 DEF InFiles, Wants, Sides
  <2>2. /\ winFlags.err => Kept(d, winWrote, "err")
        /\ ~winFlags.err => d = <<>> /\ Units(winWrote, "err") = {}
    BY <1>2, <1>9, <1>11 DEF InFiles, Wants, Sides, W!Own
  <2>3. Units(a, "out") = Units(winWrote, "out") /\ Units(d, "err") = Units(winWrote, "err")
    BY <2>1, <2>2, NoUnits DEF Kept, Sides
  <2>4. /\ \A i \in DOMAIN a : a[i][1] = "out"
        /\ \A i \in DOMAIN d : d[i][1] = "err"
    BY <2>1, <2>2, NoUnits DEF Kept, U!At
  <2>5. Rising(a, "out") /\ Rising(d, "err")
    BY <2>1, <2>2, NoUnits DEF Kept, Rising, Sides
  <2>6. \A s \in Sides : Units(a \o d, s) = Units(winWrote, s) /\ Rising(a \o d, s)
    BY <1>4, <2>3, <2>4, <2>5, KeptJoined DEF Sides
  <2>7. \A s \in Sides : W!HasAll(a \o d, s)
    BY <2>6, RisingHasAll
  <2> QED
    BY <1>7, <1>8, <1>11, <2>7
<1> QED
  BY <1>10, <1>11

LEMMA ReadErrKeeps ==
  ASSUME WinInv, W!ReadErr
  PROVE  WinInv' /\ (winPc' = "idle" => \A s \in Sides : disk'[s] = W!NoFile)
<1>1. /\ winPc = "read_err" /\ winFlags' = winFlags /\ winWrote' = winWrote
      /\ winChild' = winChild /\ handles' = handles /\ winRuns' = winRuns /\ buffers' = {}
      /\ winChild = "ended" /\ handles = {}
  BY DEF WinInv, WinControl, Ended, W!ReadErr
<1>2. CASE W!Fail(W!Streams)
  <2>1. Sides \in SUBSET Sides /\ W!Fail(Sides) /\ \A s \in Sides \ Sides : capture[s] = W!NoCapture
    BY <1>2, MissingFile
  <2>2. /\ handles' = {} /\ buffers' = {} /\ UNCHANGED <<winFlags, winChild, winWrote, winRuns>>
        /\ winPc \notin {"idle", "dead"} /\ winChild # "running"
    BY <1>1
  <2> QED
    BY <2>1, <2>2, WayOut
<1>3. CASE W!Cleanup(W!Streams) /\ winResult' = W!Results /\ winPc' = "idle"
  <2>1. /\ capture' = [s \in Sides |-> W!NoCapture]
        /\ disk' = [s \in Sides |-> IF capture[s].path THEN W!NoFile ELSE disk[s]]
    BY <1>1, <1>3, MissingFile DEF W!Cleanup, W!Deleted
  <2>2. \A s \in Sides : capture[s].path <=> disk[s] # W!NoFile
    BY <1>1 DEF WinInv, WinFiles
  <2>3. disk' = [s \in Sides |-> disk'[s]] /\ \A s \in Sides : disk'[s] = W!NoFile
    BY <2>1, <2>2
  <2>4. /\ winResult' \in [error : BOOLEAN, done : BOOLEAN,
                           output : Seq(Unit), stdout : Seq(Unit), stderr : Seq(Unit)]
        /\ ~winResult'.error /\ winResult'.done
        /\ winFlags.merge => winResult'.output = winWrote
        /\ \A s \in Sides : W!HasAll(winResult'.output, s)
    BY <1>1, <1>3, ResultsAreComplete
  <2>5. WinTypes'
    <3>1. W!TypeOK'
      BY <1>1, <1>3, <2>1, MissingFile DEF WinInv, WinTypes, W!TypeOK, W!NoCapture
    <3> QED
      BY <1>1, <2>3, <2>4, <3>1 DEF WinInv, WinTypes
  <2>6. WinControl'
    BY <1>1, <1>3 DEF WinInv, WinControl, Opening, Ended
  <2>7. WinFiles'
    BY <1>1, <1>3, <2>1, <2>3 DEF WinFiles, Ended
  <2>8. WinOutput'
    <3>1. \A q, s : W!HasAll(q, s)' <=> W!HasAll(q, s)
      BY <1>1 DEF W!HasAll
    <3>2. PICK q : q = winResult'.output
      OBVIOUS
    <3>3. \A s \in Sides : W!HasAll(winResult.output, s)'
      <4> TAKE s \in Sides
      <4>1. W!HasAll(q, s)'
        BY <2>4, <3>2, <3>1
      <4> QED
        BY <3>2, <4>1, ZenonT(40) DEF W!HasAll
    <3>4. W!OutputIsTheChilds'
      BY <1>1, <2>4, <3>3, MissingFile DEF W!OutputIsTheChilds
    <3> QED
      BY <1>1, <1>3, <3>4 DEF WinInv, WinOutput, Opening, Ended
  <2> QED
    BY <2>3, <2>5, <2>6, <2>7, <2>8 DEF WinInv
<1> QED
  BY <1>2, <1>3 DEF W!ReadErr

-----------------------------------------------------------------------------
(* Windows: every step keeps the invariant.                                 *)

LEMMA WinStep ==
  ASSUME WinInv, W!Next
  PROVE  /\ WinInv'
         /\ winPc # "idle" /\ winPc' = "idle" /\ winChild # "running" =>
              \A s \in Sides : disk'[s] = W!NoFile
<1>1. CASE \E f \in [out: BOOLEAN, err: BOOLEAN, merge: BOOLEAN] : W!Run(f)
  BY <1>1, RunKeeps DEF W!Run
<1>2. CASE \E s \in W!Streams : W!Open(s) \/ W!OpenFails(s)
  <2> PICK s \in Sides : W!Open(s) \/ W!OpenFails(s)
    BY <1>2, MissingFile
  <2>1. CASE W!Open(s)
    BY <2>1, OpenKeeps DEF W!Open
  <2>2. CASE W!OpenFails(s)
    BY <2>2, OpenFailsKeeps
  <2> QED
    BY <2>1, <2>2
<1>3. CASE W!CommandLine \/ W!Create
  BY <1>3, LineKeeps, CreateKeeps
<1>4. CASE W!ChildWrites
  BY <1>4, WritesKeep
<1>5. CASE W!ChildEnds
  BY <1>5, EndsKeep
<1>6. CASE W!Wait \/ W!ExitCode \/ W!Close
  BY <1>6, WaitsKeep
<1>7. CASE W!ReadOut
  BY <1>7, ReadOutKeeps
<1>8. CASE W!ReadErr
  BY <1>8, ReadErrKeeps
<1>9. CASE W!Over
  <2>1. winPc' = winPc /\ UNCHANGED windowsVars
    BY <1>9 DEF W!Over, W!vars, windowsVars
  <2> QED
    BY <2>1, WinStays
<1> QED
  BY <1>1, <1>2, <1>3, <1>4, <1>5, <1>6, <1>7, <1>8, <1>9 DEF W!Next

LEMMA WinAlways == Spec => []WinInv
<1>1. Init => WinInv
  BY WinStart DEF Init
<1>2. WinInv /\ [Next]_vars => WinInv'
  <2> SUFFICES ASSUME WinInv, [Next]_vars PROVE WinInv'
    OBVIOUS
  <2>1. CASE W!Next
    BY <2>1, WinStep
  <2>2. CASE UNCHANGED windowsVars
    BY <2>2, WinStays
  <2> QED
    BY <2>1, <2>2 DEF Next, vars
<1> QED
  BY <1>1, <1>2, PTL DEF Spec

-----------------------------------------------------------------------------
(* Vectors: induction and folds.                                            *)

(* A non-empty set of naturals has a least element: induction, where a set  *)
(* of counterexamples would have one.                                       *)
LEMMA LeastOf ==
  ASSUME NEW S \in SUBSET Nat, S # {}
  PROVE  \E x \in S : \A y \in S : x <= y
<1> DEFINE R == OpToRel(<, Nat)
<1>1. IsWellFoundedOn(R, Nat)
  BY NatLessThanWellFounded
<1>2. \A x, y \in Nat : x < y => <<x, y>> \in R
  BY DEF OpToRel
<1> HIDE DEF R
<1>3. PICK x \in S : \A y \in S : ~ (<<y, x>> \in R)
  BY <1>1, WFMin
<1>4. ASSUME NEW y \in S
      PROVE  x <= y
  <2>1. x \in Nat /\ y \in Nat
    OBVIOUS
  <2>2. ~ (y < x)
    BY <1>2, <1>3, <2>1
  <2> QED
    BY <2>1, <2>2
<1> QED
  BY <1>4

(* The last of the numbers up to n. *)
LEMMA LastOf ==
  ASSUME NEW n \in Nat, NEW s \in SUBSET (1 .. n)
  PROVE  n \in s => A!Max(s) = n
<1> SUFFICES ASSUME n \in s PROVE A!Max(s) = n
  OBVIOUS
<1>1. \A y \in s : n >= y
  OBVIOUS
<1>2. \A x \in s : (\A y \in s : x >= y) => x = n
  OBVIOUS
<1> QED
  BY <1>1, <1>2 DEF A!Max

LEMMA MaxIn ==
  ASSUME NEW n \in Nat, NEW s \in SUBSET (1 .. n), s # {}
  PROVE  A!Max(s) \in s
<1>1. s \in SUBSET Nat
  OBVIOUS
<1> DEFINE D == {n - x : x \in s}
<1>2. D \in SUBSET Nat /\ D # {}
  <2>1. PICK x : x \in s
    OBVIOUS
  <2>2. n - x \in D
    BY <2>1
  <2>3. \A y \in s : n - y \in Nat
    OBVIOUS
  <2> QED
    BY <2>2, <2>3
<1>3. PICK d \in D : \A y \in D : d <= y
  BY <1>2, LeastOf
<1>4. PICK m \in s : d = n - m
  BY <1>3
<1>5. \A y \in s : m >= y
  <2> TAKE y \in s
  <2>1. d <= n - y
    BY <1>3
  <2> QED
    BY <1>4, <2>1
<1> QED
  BY <1>5 DEF A!Max

(* Pushes one after the other. *)
Pushing(h, x, ns, n) ==
  h[0] = x /\ \A i \in 1 .. n : h[i] = A!PushedTo(h[i - 1], ns[i])

LEMMA PushesUnroll ==
  ASSUME NEW x, NEW n \in Nat, NEW ns \in [1 .. n -> Nat]
  PROVE  \E h : Pushing(h, x, ns, n) /\ A!PushedAll(x, ns) = h[n]
<1> DEFINE Eq(f, m) == f = [s \in SUBSET (1 .. m) |->
                              IF s = {} THEN x ELSE A!PushedTo(f[s \ {A!Max(s)}], ns[A!Max(s)])]
<1>1. \E f : Eq(f, n)
  <2> DEFINE Bad == {m \in Nat : ~ \E f : Eq(f, m)}
  <2>1. SUFFICES ASSUME Bad # {} PROVE FALSE
    OBVIOUS
  <2>2. PICK m \in Bad : \A k \in Bad : m <= k
    BY <2>1, LeastOf
  <2>3. CASE m = 0
    <3> DEFINE f == [s \in SUBSET (1 .. 0) |-> x]
    <3>1. \A s \in SUBSET (1 .. 0) : s = {}
      OBVIOUS
    <3>2. Eq(f, 0)
      BY <3>1
    <3> QED
      BY <2>2, <2>3, <3>2
  <2>4. CASE m # 0
    <3>1. PICK p \in Nat : m = p + 1
      BY <2>4
    <3>2. ~ (m <= p)
      BY <3>1
    <3>3. PICK f : Eq(f, p)
      BY <2>2, <3>2, Zenon
    <3> DEFINE g == [s \in SUBSET (1 .. m) |->
                       IF m \in s THEN A!PushedTo(f[s \ {m}], ns[m]) ELSE f[s]]
    <3>4. \A s \in SUBSET (1 .. m) : m \notin s => s \in SUBSET (1 .. p)
      BY <3>1
    <3>5. \A s \in SUBSET (1 .. m) : s \ {A!Max(s)} \in SUBSET (1 .. m)
      OBVIOUS
    <3>6. \A s \in SUBSET (1 .. m) :
             g[s] = IF s = {} THEN x ELSE A!PushedTo(g[s \ {A!Max(s)}], ns[A!Max(s)])
      <4> TAKE s \in SUBSET (1 .. m)
      <4>1. CASE m \in s
        <5>1. A!Max(s) = m
          BY <4>1, LastOf
        <5>2. g[s \ {m}] = f[s \ {m}]
          OBVIOUS
        <5> QED
          BY <4>1, <5>1, <5>2
      <4>2. CASE m \notin s
        <5>1. s \in SUBSET (1 .. p) /\ g[s] = f[s]
          BY <3>4, <4>2
        <5>2. CASE s = {}
          BY <3>3, <5>1, <5>2
        <5>3. CASE s # {}
          <6>1. A!Max(s) \in s
            BY <5>1, <5>3, MaxIn
          <6>2. s \ {A!Max(s)} \in SUBSET (1 .. p) /\ m \notin s \ {A!Max(s)}
            BY <4>2, <5>1
          <6>3. g[s \ {A!Max(s)}] = f[s \ {A!Max(s)}]
            BY <3>5, <6>2
          <6>4. f[s] = A!PushedTo(f[s \ {A!Max(s)}], ns[A!Max(s)])
            BY <3>3, <5>1, <5>3
          <6> QED
            BY <5>1, <5>3, <6>3, <6>4
        <5> QED
          BY <5>2, <5>3
      <4> QED
        BY <4>1, <4>2
    <3>7. Eq(g, m)
      BY <3>6
    <3> QED
      BY <2>2, <3>7
  <2> QED
    BY <2>3, <2>4
<1> DEFINE Fold == CHOOSE f : Eq(f, n)
<1>2. Eq(Fold, n)
  BY <1>1
<1>3. A!PushedAll(x, ns) = Fold[1 .. n]
  <2>1. DOMAIN ns = 1 .. n
    OBVIOUS
  <2> QED
    BY <2>1 DEF A!PushedAll, A!FoldLeft, A!MapThenFoldSet
<1> DEFINE h == [i \in 0 .. n |-> Fold[1 .. i]]
<1> HIDE DEF Fold
<1>4. h[0] = x
  <2>1. 1 .. 0 = {} /\ 1 .. 0 \in SUBSET (1 .. n)
    OBVIOUS
  <2> QED
    BY <1>2, <2>1
<1>5. \A i \in 1 .. n : h[i] = A!PushedTo(h[i - 1], ns[i])
  <2> TAKE i \in 1 .. n
  <2>0. i \in Nat /\ 1 <= i /\ i <= n
    OBVIOUS
  <2>1. 1 .. i \in SUBSET (1 .. n) /\ 1 .. i # {} /\ (1 .. i) \ {i} = 1 .. i - 1
    <3>1. i \in 1 .. i
      BY <2>0
    <3>2. \A j : j \in (1 .. i) \ {i} <=> j \in 1 .. i - 1
      BY <2>0
    <3>3. 1 .. i \in SUBSET (1 .. n)
      BY <2>0
    <3> QED
      BY <3>1, <3>2, <3>3
  <2>2. A!Max(1 .. i) = i
    BY LastOf
  <2>3. Fold[1 .. i] = A!PushedTo(Fold[1 .. i - 1], ns[i])
    BY <1>2, <2>1, <2>2
  <2> QED
    BY <2>3
<1>6. h[n] = Fold[1 .. n]
  OBVIOUS
<1> QED
  BY <1>3, <1>4, <1>5, <1>6 DEF Pushing

-----------------------------------------------------------------------------
(* Vectors: pushes.                                                         *)

Slots == [items : Seq(Int), lens : Seq(Int), len : Nat, cap : Nat]

(* The arrays are as long as the capacity says; they have the strings whose *)
(* lengths are the first of q, and Null after them.                         *)
Holds(x, q) ==
  /\ x \in Slots
  /\ Len(x.items) = x.cap /\ Len(x.lens) = x.cap
  /\ x.cap > x.len \/ (x.cap = 0 /\ x.len = 0)
  /\ x.cap > 0 => x.items[x.len + 1] = A!Null
  /\ \A i \in 1 .. x.len : x.items[i] = q[i] + 1 /\ x.lens[i] = q[i]

LEMMA VectorConstants ==
  Grow \in Nat \ {0} /\ MaxLen \in Nat /\ MaxItems \in Nat /\ MaxText \in Nat
BY Instances DEF A!CommandArgsAssumption

LEMMA MinIn ==
  ASSUME NEW S \in SUBSET Nat, S # {}
  PROVE  A!Min(S) \in S /\ \A y \in S : A!Min(S) <= y
BY LeastOf DEF A!Min

(* The capacity that is reserved. *)
LEMMA Grown ==
  ASSUME NEW cap \in Nat, NEW needed \in Nat
  PROVE  A!Min({k \in 0 .. (needed + 1) : cap + k * Grow > needed}) * Grow \in Nat
         /\ cap + A!Min({k \in 0 .. (needed + 1) : cap + k * Grow > needed}) * Grow > needed
<1>1. PICK g \in Nat \ {0} : g = Grow
  BY VectorConstants
<1>2. \A k \in Nat : k * g \in Nat /\ k * g >= k
  OBVIOUS
<1> DEFINE S == {k \in 0 .. (needed + 1) : cap + k * g > needed}
<1>3. S \in SUBSET Nat
  OBVIOUS
<1>4. needed + 1 \in S
  <2>1. (needed + 1) * g \in Nat /\ (needed + 1) * g >= needed + 1
    BY <1>2
  <2> QED
    BY <2>1
<1>5. A!Min(S) \in S
  BY <1>3, <1>4, MinIn
<1>6. A!Min(S) \in Nat /\ cap + A!Min(S) * g > needed
  BY <1>5
<1>7. A!Min(S) * g \in Nat
  BY <1>2, <1>6
<1> QED
  BY <1>1, <1>6, <1>7

(* An array of c numbers. *)
LEMMA ArrayIs ==
  ASSUME NEW c \in Nat, NEW f \in [1 .. c -> Int]
  PROVE  f \in Seq(Int) /\ Len(f) = c
<1>1. f \in Seq(Int)
  BY SeqDef
<1>2. DOMAIN f = 1 .. Len(f) /\ Len(f) \in Nat
  BY <1>1, LenProperties
<1>3. DOMAIN f = 1 .. c
  OBVIOUS
<1> QED
  BY <1>1, <1>2, <1>3

LEMMA PaddedIs ==
  ASSUME NEW s \in Seq(Int), NEW c \in Nat
  PROVE  /\ A!Padded(s, c) \in [1 .. c -> Int]
         /\ \A i \in 1 .. c : i <= Len(s) => A!Padded(s, c)[i] = s[i]
<1>1. \A i \in 1 .. Len(s) : s[i] \in Int
  OBVIOUS
<1>2. Len(s) \in Nat
  OBVIOUS
<1> QED
  BY <1>1, <1>2 DEF A!Padded, A!Garbage

(* Two slots of an array are stored to. *)
Stored(f, g, l, u, w) ==
  /\ g = [f EXCEPT ![l + 1] = u, ![l + 2] = w]
  /\ \A i \in 1 .. l : g[i] = f[i]
  /\ g[l + 1] = u /\ g[l + 2] = w

LEMMA StoredAt ==
  ASSUME NEW c \in Nat, NEW l \in Nat, c > l + 2, NEW f \in [1 .. c -> Int], NEW u \in Int, NEW w \in Int
  PROVE  \E g \in [1 .. c -> Int] : Stored(f, g, l, u, w)
<1>1. l + 1 \in 1 .. c /\ l + 2 \in 1 .. c /\ l + 1 # l + 2
  OBVIOUS
<1>2. \A i \in 1 .. l : i \in 1 .. c /\ i # l + 1 /\ i # l + 2
  OBVIOUS
<1> DEFINE g == [f EXCEPT ![l + 1] = u, ![l + 2] = w]
<1>3. g \in [1 .. c -> Int]
  OBVIOUS
<1>4. Stored(f, g, l, u, w)
  BY <1>1, <1>2 DEF Stored
<1> QED
  BY <1>3, <1>4

(* One push: the copy and its length behind the others, and a new Null. *)
LEMMA PushHolds ==
  ASSUME NEW x, NEW q, NEW n \in Nat, Holds(x, q), q[x.len + 1] = n
  PROVE  Holds(A!PushedTo(x, n), q) /\ A!PushedTo(x, n).len = x.len + 1
<1>1. /\ x.len \in Nat /\ x.cap \in Nat /\ x.len <= x.cap
      /\ x.items \in Seq(Int) /\ Len(x.items) = x.cap /\ x.lens \in Seq(Int) /\ Len(x.lens) = x.cap
      /\ x = [items |-> x.items, lens |-> x.lens, len |-> x.len, cap |-> x.cap]
  BY DEF Holds, Slots
<1>2. PICK l \in Nat : l = x.len
  BY <1>1
<1> DEFINE needed == x.len + 1 + 1
<1> DEFINE room == x.cap + A!Min({k \in 0 .. (needed + 1) : x.cap + k * Grow > needed}) * Grow
<1>3. room \in Nat /\ room > l + 2 /\ room >= x.cap
  <2>1. needed \in Nat /\ needed = l + 2
    BY <1>1, <1>2
  <2> HIDE DEF needed
  <2>2. /\ A!Min({k \in 0 .. (needed + 1) : x.cap + k * Grow > needed}) * Grow \in Nat
        /\ room > needed
    BY <1>1, <2>1, Grown
  <2> QED
    BY <1>1, <2>1, <2>2
<1>4. PICK c \in Nat : c = room /\ c > l + 2 /\ c >= x.cap
  BY <1>3
<1> HIDE DEF room, needed
<1>5. PICK p \in [1 .. c -> Int] : p = A!Padded(x.items, c) /\ \A i \in 1 .. l : p[i] = x.items[i]
  <2>1. l <= c /\ l <= Len(x.items)
    BY <1>1, <1>2, <1>4
  <2>2. \A i \in 1 .. l : i \in 1 .. c /\ i <= Len(x.items)
    BY <2>1
  <2>3. x.items \in Seq(Int)
    BY <1>1
  <2> QED
    BY <2>2, <2>3, PaddedIs
<1>6. PICK r \in [1 .. c -> Int] : r = A!Padded(x.lens, c) /\ \A i \in 1 .. l : r[i] = x.lens[i]
  <2>1. l <= c /\ l <= Len(x.lens)
    BY <1>1, <1>2, <1>4
  <2>2. \A i \in 1 .. l : i \in 1 .. c /\ i <= Len(x.lens)
    BY <2>1
  <2>3. x.lens \in Seq(Int)
    BY <1>1
  <2> QED
    BY <2>2, <2>3, PaddedIs
<1>7. A!Reserved(x, 1) = [items |-> p, lens |-> r, len |-> l, cap |-> c]
  <2>1. A!Reserved(x, 1) = [x EXCEPT !.cap = c, !.items = A!Padded(x.items, c), !.lens = A!Padded(x.lens, c)]
    BY <1>4 DEF A!Reserved, room, needed
  <2> QED
    BY <1>1, <1>2, <1>5, <1>6, <2>1
<1>8. PICK u \in Int : u = n + 1
  OBVIOUS
<1>9. PICK a \in [1 .. c -> Int] : Stored(p, a, l, u, A!Null)
  <2>1. PICK z \in Int : z = A!Null
    BY DEF A!Null
  <2>2. \E a \in [1 .. c -> Int] : Stored(p, a, l, u, z)
    BY <1>4, StoredAt
  <2> QED
    BY <2>1, <2>2
<1>10. PICK b \in [1 .. c -> Int] : Stored(r, b, l, n, 0)
  <2>1. n \in Int /\ 0 \in Int
    OBVIOUS
  <2> QED
    BY <1>4, <2>1, StoredAt
<1>11. PICK y : y = A!PushedTo(x, n)
  OBVIOUS
<1>12. y = [items |-> a, lens |-> b, len |-> l + 1, cap |-> c]
  <2>1. PICK z : z = A!Reserved(x, 1)
    OBVIOUS
  <2>2. z = [items |-> p, lens |-> r, len |-> l, cap |-> c]
    BY <1>7, <2>1
  <2>3. z.len = l
    BY <2>2
  <2>4. z.items = p /\ z.lens = r
    BY <2>2
  <2>5. A!PushedTo(x, n) = [z EXCEPT !.items = [z.items EXCEPT ![z.len + 1] = n + 1, ![z.len + 2] = A!Null],
                                     !.lens = [z.lens EXCEPT ![z.len + 1] = n, ![z.len + 2] = 0],
                                     !.len = z.len + 1]
    BY <2>1 DEF A!PushedTo
  <2>6. /\ a = [z.items EXCEPT ![z.len + 1] = n + 1, ![z.len + 2] = A!Null]
        /\ b = [z.lens EXCEPT ![z.len + 1] = n, ![z.len + 2] = 0]
    BY <1>8, <1>9, <1>10, <2>3, <2>4, Zenon DEF Stored
  <2>7. y = [z EXCEPT !.items = a, !.lens = b, !.len = l + 1]
    BY <1>11, <2>3, <2>5, <2>6, Zenon
  <2> QED
    BY <2>2, <2>7
<1>13. /\ y \in Slots /\ Len(a) = c /\ Len(b) = c
       /\ y.items = a /\ y.lens = b /\ y.len = l + 1 /\ y.cap = c
  BY <1>12, ArrayIs DEF Slots
<1>14. \A i \in 1 .. l + 1 : a[i] = q[i] + 1 /\ b[i] = q[i]
  <2>1. \A i \in 1 .. l : x.items[i] = q[i] + 1 /\ x.lens[i] = q[i]
    BY <1>2 DEF Holds
  <2>2. \A i \in 1 .. l : a[i] = q[i] + 1 /\ b[i] = q[i]
    BY <1>5, <1>6, <1>9, <1>10, <2>1 DEF Stored
  <2>3. a[l + 1] = q[l + 1] + 1 /\ b[l + 1] = q[l + 1]
    BY <1>2, <1>8, <1>9, <1>10 DEF Stored
  <2>4. \A i \in 1 .. l + 1 : i = l + 1 \/ i \in 1 .. l
    OBVIOUS
  <2> QED
    BY <2>2, <2>3, <2>4
<1>15. Holds(y, q)
  <2>1. (l + 1) + 1 = l + 2 /\ c > l + 1
    BY <1>4
  <2> QED
    BY <1>9, <1>13, <1>14, <2>1 DEF Holds, Stored
<1> QED
  BY <1>2, <1>11, <1>13, <1>15

(* Pushes one after the other. *)
LEMMA PushesHold ==
  ASSUME NEW x, NEW q, NEW n \in Nat, NEW ns \in [1 .. n -> Nat], Holds(x, q),
         \A i \in 1 .. n : q[x.len + i] = ns[i]
  PROVE  Holds(A!PushedAll(x, ns), q) /\ A!PushedAll(x, ns).len = x.len + n
<1>1. PICK h : Pushing(h, x, ns, n) /\ A!PushedAll(x, ns) = h[n]
  BY PushesUnroll, Zenon
<1>2. PICK l \in Nat : l = x.len
  BY DEF Holds, Slots
<1> DEFINE Good(i) == Holds(h[i], q) /\ h[i].len = l + i
<1> DEFINE Bad == {i \in 0 .. n : ~ Good(i)}
<1>3. SUFFICES ASSUME Bad # {} PROVE FALSE
  <2>1. n \in 0 .. n
    OBVIOUS
  <2> QED
    BY <1>1, <1>2, <2>1 DEF Pushing
<1>4. PICK m \in Bad : \A k \in Bad : m <= k
  <2>1. Bad \in SUBSET Nat
    OBVIOUS
  <2> HIDE DEF Bad
  <2> QED
    BY <1>3, <2>1, LeastOf
<1>5. m # 0
  BY <1>1, <1>2 DEF Pushing
<1>6. PICK p \in Nat : m = p + 1 /\ p \in 0 .. n /\ m \in 1 .. n
  BY <1>5
<1>7. ~ (m <= p) /\ m - 1 = p /\ l + p + 1 = l + m
  BY <1>6
<1>8. Good(p)
  BY <1>4, <1>6, <1>7, Zenon
<1>9. h[m] = A!PushedTo(h[p], ns[m]) /\ ns[m] \in Nat /\ q[l + m] = ns[m]
  <2>1. h[m] = A!PushedTo(h[m - 1], ns[m])
    BY <1>1, <1>6, Zenon DEF Pushing
  <2>2. ns[m] \in Nat /\ q[l + m] = ns[m]
    BY <1>2, <1>6
  <2> QED
    BY <1>7, <2>1, <2>2, Zenon
<1>10. Good(m)
  <2>1. PICK k \in Nat : k = ns[m]
    BY <1>9
  <2>2. PICK y : y = h[p]
    OBVIOUS
  <2>3. Holds(y, q) /\ q[y.len + 1] = k /\ y.len + 1 = l + m
    BY <1>7, <1>8, <1>9, <2>1, <2>2
  <2>4. Holds(A!PushedTo(y, k), q) /\ A!PushedTo(y, k).len = l + m
    BY <2>3, PushHolds
  <2> QED
    BY <1>9, <2>1, <2>2, <2>4
<1> QED
  BY <1>4, <1>10, Zenon

-----------------------------------------------------------------------------
(* Vectors: splitting.                                                      *)

(* Splitting a text character by character. *)
Scanned(s, c) ==
  IF c # "d" THEN [s EXCEPT !.run = @ + 1]
  ELSE IF s.run = 0 THEN s
  ELSE [done |-> Append(s.done, s.run), run |-> 0]

Scanning(h, text, n) ==
  h[0] = [done |-> <<>>, run |-> 0] /\ \A i \in 1 .. n : h[i] = Scanned(h[i - 1], text[i])

LEMMA ScanUnrolls ==
  ASSUME NEW n \in Nat, NEW text \in [1 .. n -> {"x", "d"}]
  PROVE  \E h : /\ Scanning(h, text, n)
                /\ A!Pieces(text) = IF h[n].run = 0 THEN h[n].done ELSE Append(h[n].done, h[n].run)
<1> DEFINE x == [done |-> <<>>, run |-> 0]
<1> DEFINE Eq(f, m) == f = [s \in SUBSET (1 .. m) |->
                              IF s = {} THEN x ELSE Scanned(f[s \ {A!Max(s)}], text[A!Max(s)])]
<1>1. \E f : Eq(f, n)
  <2> DEFINE Bad == {m \in Nat : ~ \E f : Eq(f, m)}
  <2>1. SUFFICES ASSUME Bad # {} PROVE FALSE
    OBVIOUS
  <2>2. PICK m \in Bad : \A k \in Bad : m <= k
    BY <2>1, LeastOf
  <2>3. CASE m = 0
    <3> DEFINE f == [s \in SUBSET (1 .. 0) |-> x]
    <3>1. \A s \in SUBSET (1 .. 0) : s = {}
      OBVIOUS
    <3>2. Eq(f, 0)
      BY <3>1
    <3> QED
      BY <2>2, <2>3, <3>2
  <2>4. CASE m # 0
    <3>1. PICK p \in Nat : m = p + 1
      BY <2>4
    <3>2. ~ (m <= p)
      BY <3>1
    <3>3. PICK f : Eq(f, p)
      BY <2>2, <3>2, Zenon
    <3> DEFINE g == [s \in SUBSET (1 .. m) |->
                       IF m \in s THEN Scanned(f[s \ {m}], text[m]) ELSE f[s]]
    <3>4. \A s \in SUBSET (1 .. m) : m \notin s => s \in SUBSET (1 .. p)
      BY <3>1
    <3>5. \A s \in SUBSET (1 .. m) : s \ {A!Max(s)} \in SUBSET (1 .. m)
      OBVIOUS
    <3>6. \A s \in SUBSET (1 .. m) :
             g[s] = IF s = {} THEN x ELSE Scanned(g[s \ {A!Max(s)}], text[A!Max(s)])
      <4> TAKE s \in SUBSET (1 .. m)
      <4>1. CASE m \in s
        <5>1. A!Max(s) = m
          BY <4>1, LastOf
        <5>2. g[s \ {m}] = f[s \ {m}]
          OBVIOUS
        <5> QED
          BY <4>1, <5>1, <5>2
      <4>2. CASE m \notin s
        <5>1. s \in SUBSET (1 .. p) /\ g[s] = f[s]
          BY <3>4, <4>2
        <5>2. CASE s = {}
          BY <3>3, <5>1, <5>2
        <5>3. CASE s # {}
          <6>1. A!Max(s) \in s
            BY <5>1, <5>3, MaxIn
          <6>2. s \ {A!Max(s)} \in SUBSET (1 .. p) /\ m \notin s \ {A!Max(s)}
            BY <4>2, <5>1
          <6>3. g[s \ {A!Max(s)}] = f[s \ {A!Max(s)}]
            BY <3>5, <6>2
          <6>4. f[s] = Scanned(f[s \ {A!Max(s)}], text[A!Max(s)])
            BY <3>3, <5>1, <5>3
          <6> QED
            BY <5>1, <5>3, <6>3, <6>4
        <5> QED
          BY <5>2, <5>3
      <4> QED
        BY <4>1, <4>2
    <3>7. Eq(g, m)
      BY <3>6
    <3> QED
      BY <2>2, <3>7
  <2> QED
    BY <2>3, <2>4
<1> DEFINE Fold == CHOOSE f : Eq(f, n)
<1>2. Eq(Fold, n)
  BY <1>1
<1>3. A!Pieces(text) = IF Fold[1 .. n].run = 0 THEN Fold[1 .. n].done
                       ELSE Append(Fold[1 .. n].done, Fold[1 .. n].run)
  <2>1. DOMAIN text = 1 .. n
    OBVIOUS
  <2> QED
    BY <2>1 DEF A!Pieces, A!FoldLeft, A!MapThenFoldSet, Scanned
<1> DEFINE h == [i \in 0 .. n |-> Fold[1 .. i]]
<1> HIDE DEF Fold
<1>4. h[0] = x
  <2>1. 1 .. 0 = {} /\ 1 .. 0 \in SUBSET (1 .. n)
    OBVIOUS
  <2> QED
    BY <1>2, <2>1
<1>5. \A i \in 1 .. n : h[i] = Scanned(h[i - 1], text[i])
  <2> TAKE i \in 1 .. n
  <2>0. i \in Nat /\ 1 <= i /\ i <= n
    OBVIOUS
  <2>1. 1 .. i \in SUBSET (1 .. n) /\ 1 .. i # {} /\ (1 .. i) \ {i} = 1 .. i - 1
    <3>1. i \in 1 .. i
      BY <2>0
    <3>2. \A j : j \in (1 .. i) \ {i} <=> j \in 1 .. i - 1
      BY <2>0
    <3>3. 1 .. i \in SUBSET (1 .. n)
      BY <2>0
    <3> QED
      BY <3>1, <3>2, <3>3
  <2>2. A!Max(1 .. i) = i
    BY LastOf
  <2>3. Fold[1 .. i] = Scanned(Fold[1 .. i - 1], text[i])
    BY <1>2, <2>1, <2>2
  <2> QED
    BY <2>3
<1>6. h[n] = Fold[1 .. n]
  OBVIOUS
<1> QED
  BY <1>3, <1>4, <1>5, <1>6 DEF Scanning

(* The m runs that begin up to b, in order, with their lengths.             *)
Runs(text, st, dn, m, b) ==
  /\ st \in [1 .. m -> Nat]
  /\ \A k, l \in 1 .. m : k < l => st[k] < st[l]
  /\ \A s \in A!Starts(text) : s <= b => \E k \in 1 .. m : st[k] = s
  /\ \A k \in 1 .. m : st[k] \in A!Starts(text) /\ st[k] <= b /\ dn[k] = A!End(text, st[k]) - st[k]

LEMMA TextIs ==
  ASSUME NEW n \in Nat, NEW text \in [1 .. n -> {"x", "d"}]
  PROVE  /\ Len(text) = n
         /\ \A s : s \in A!Starts(text) <=>
                     s \in 1 .. n /\ text[s] = "x" /\ (s = 1 \/ text[s - 1] = "d")
<1>1. text \in Seq({"x", "d"})
  BY SeqDef
<1>2. DOMAIN text = 1 .. Len(text) /\ Len(text) \in Nat
  BY <1>1, LenProperties
<1>3. DOMAIN text = 1 .. n
  OBVIOUS
<1>4. Len(text) = n
  BY <1>2, <1>3
<1> QED
  BY <1>3, <1>4 DEF A!Starts

(* A run ends before the first delimiter. *)
LEMMA RunEnds ==
  ASSUME NEW n \in Nat, NEW text \in [1 .. n -> {"x", "d"}], NEW s \in 1 .. n, NEW e \in s .. n + 1,
         \A j \in s .. e - 1 : text[j] = "x", e > n \/ text[e] = "d"
  PROVE  A!End(text, s) = e
<1> DEFINE S == {j \in s .. (n + 1) : j > n \/ text[j] = "d"}
<1>1. S \in SUBSET Nat /\ e \in S
  OBVIOUS
<1>2. \A j \in S : e <= j
  <2> TAKE j \in S
  <2>1. j < e => j \in s .. e - 1 /\ j <= n
    OBVIOUS
  <2> QED
    BY <2>1
<1>3. A!Min(S) \in S /\ A!Min(S) <= e
  BY <1>1, MinIn
<1>4. A!Min(S) = e
  BY <1>1, <1>2, <1>3
<1>5. A!End(text, s) = A!Min(S)
  <2>1. Len(text) = n
    BY TextIs
  <2> QED
    BY <2>1 DEF A!End
<1> QED
  BY <1>4, <1>5

(* One more run. *)
LEMMA RunsGrow ==
  ASSUME NEW text, NEW st, NEW dn \in Seq(Nat), NEW m \in Nat, Len(dn) = m, NEW b \in Int, NEW c \in Int,
         Runs(text, st, dn, m, b), NEW s \in A!Starts(text), s \in Nat, b < s, s <= c,
         \A t \in A!Starts(text) : t <= c => t <= b \/ t = s,
         NEW e \in Nat, A!End(text, s) - s = e
  PROVE  \E r : Runs(text, r, Append(dn, e), m + 1, c)
<1> DEFINE r == [k \in 1 .. m + 1 |-> IF k = m + 1 THEN s ELSE st[k]]
<1>1. PICK a : a = Append(dn, e)
  OBVIOUS
<1>2. \A k \in 1 .. m + 1 : k = m + 1 \/ (k \in 1 .. m /\ k # m + 1)
  OBVIOUS
<1>3. (\A k \in 1 .. m : a[k] = dn[k]) /\ a[m + 1] = e
  BY <1>1, AppendProperties
<1>4. (\A k \in 1 .. m : r[k] = st[k]) /\ r[m + 1] = s /\ r \in [1 .. m + 1 -> Nat]
  <2>1. \A k \in 1 .. m : k \in 1 .. m + 1 /\ k # m + 1
    OBVIOUS
  <2>2. m + 1 \in 1 .. m + 1
    OBVIOUS
  <2>3. \A k \in 1 .. m : st[k] \in Nat
    BY DEF Runs
  <2> QED
    BY <1>2, <2>1, <2>2, <2>3
<1> HIDE DEF r
<1>5. \A k, l \in 1 .. m + 1 : k < l => r[k] < r[l]
  <2> SUFFICES ASSUME NEW k \in 1 .. m + 1, NEW l \in 1 .. m + 1, k < l PROVE r[k] < r[l]
    OBVIOUS
  <2>1. k \in 1 .. m /\ st[k] \in Nat /\ st[k] <= b
    BY DEF Runs
  <2>2. CASE l = m + 1
    BY <1>4, <2>1, <2>2
  <2>3. CASE l \in 1 .. m
    BY <1>4, <2>1, <2>3 DEF Runs
  <2> QED
    BY <1>2, <2>2, <2>3
<1>6. \A t \in A!Starts(text) : t <= c => \E k \in 1 .. m + 1 : r[k] = t
  <2> SUFFICES ASSUME NEW t \in A!Starts(text), t <= c PROVE \E k \in 1 .. m + 1 : r[k] = t
    OBVIOUS
  <2>1. CASE t = s
    BY <1>4, <2>1
  <2>2. CASE t <= b
    <3>1. PICK k \in 1 .. m : st[k] = t
      BY <2>2 DEF Runs
    <3>2. k \in 1 .. m + 1
      OBVIOUS
    <3> QED
      BY <1>4, <3>1, <3>2
  <2> QED
    BY <2>1, <2>2
<1>7. \A k \in 1 .. m + 1 : r[k] \in A!Starts(text) /\ r[k] <= c /\ a[k] = A!End(text, r[k]) - r[k]
  <2> TAKE k \in 1 .. m + 1
  <2>1. CASE k = m + 1
    BY <1>3, <1>4, <2>1
  <2>2. CASE k \in 1 .. m
    <3>1. st[k] \in A!Starts(text) /\ st[k] <= b /\ dn[k] = A!End(text, st[k]) - st[k] /\ st[k] \in Nat
      BY <2>2 DEF Runs
    <3>2. st[k] <= c
      BY <3>1
    <3> QED
      BY <1>3, <1>4, <2>2, <3>1, <3>2
  <2> QED
    BY <1>2, <2>1, <2>2
<1>8. Runs(text, r, a, m + 1, c)
  BY <1>4, <1>5, <1>6, <1>7 DEF Runs
<1> QED
  BY <1>1, <1>8

LEMMA SameCardinality == \A S : A!Cardinality(S) = Cardinality(S)
BY DEF A!Cardinality, Cardinality

(* All the runs in order are the words. *)
LEMMA RunsAreWords ==
  ASSUME NEW n \in Nat, NEW text \in [1 .. n -> {"x", "d"}], NEW dn \in Seq(Nat), NEW st,
         Runs(text, st, dn, Len(dn), n)
  PROVE  dn = A!Words(text)
<1>1. PICK m \in Nat : m = Len(dn)
  OBVIOUS
<1>2. Runs(text, st, dn, m, n)
  BY <1>1
<1>3. \A s : s \in A!Starts(text) <=> \E k \in 1 .. m : st[k] = s
  <2>1. \A s \in A!Starts(text) : s <= n
    BY TextIs
  <2> QED
    BY <1>2, <2>1 DEF Runs
<1>4. \A k \in 1 .. m : Cardinality({j \in A!Starts(text) : j <= st[k]}) = k
  <2> TAKE k \in 1 .. m
  <2> DEFINE T == {j \in A!Starts(text) : j <= st[k]}
  <2> DEFINE f == [i \in 1 .. k |-> st[i]]
  <2>1. \A i \in 1 .. k : i \in 1 .. m /\ (i < k \/ i = k)
    OBVIOUS
  <2>2. \A i \in 1 .. m : st[i] \in Nat
    BY <1>2 DEF Runs
  <2>3. \A i \in 1 .. k : st[i] \in A!Starts(text) /\ st[i] <= st[k]
    <3> TAKE i \in 1 .. k
    <3>1. i \in 1 .. m /\ st[i] \in Nat /\ st[k] \in Nat
      BY <2>1, <2>2
    <3>2. i < k => st[i] < st[k]
      BY <1>2, <3>1 DEF Runs
    <3>3. st[i] <= st[k]
      BY <2>1, <3>1, <3>2
    <3> QED
      BY <1>3, <3>1, <3>3
  <2>4. f \in [1 .. k -> T]
    BY <2>3
  <2>5. \A i, j \in 1 .. k : f[i] = f[j] => i = j
    <3> SUFFICES ASSUME NEW i \in 1 .. k, NEW j \in 1 .. k, st[i] = st[j] PROVE i = j
      OBVIOUS
    <3>1. ~ (st[i] < st[j]) /\ ~ (st[j] < st[i])
      BY <2>1, <2>2
    <3> QED
      BY <1>2, <2>1, <3>1 DEF Runs
  <2>6. \A t \in T : \E i \in 1 .. k : f[i] = t
    <3> TAKE t \in T
    <3>1. PICK i \in 1 .. m : st[i] = t
      BY <1>3
    <3>2. ~ (st[k] < st[i])
      BY <2>2, <3>1
    <3>3. i <= k
      BY <1>2, <3>2 DEF Runs
    <3> QED
      BY <3>1, <3>3
  <2>7. f \in Bijection(1 .. k, T)
    BY <2>4, <2>5, <2>6, Fun_IsBij
  <2>8. IsFiniteSet(1 .. k) /\ Cardinality(1 .. k) = k
    BY FS_Interval
  <2> QED
    BY <2>7, <2>8, FS_Bijection DEF ExistsBijection
<1>5. Cardinality(A!Starts(text)) = m
  <2>1. CASE m = 0
    <3>1. A!Starts(text) = {}
      BY <1>3, <2>1
    <3> QED
      BY <2>1, <3>1, FS_EmptySet
  <2>2. CASE m # 0
    <3>1. \A s \in A!Starts(text) : s <= st[m]
      <4> TAKE s \in A!Starts(text)
      <4>1. PICK k \in 1 .. m : st[k] = s
        BY <1>3
      <4>2. (k < m \/ k = m) /\ m \in 1 .. m
        BY <2>2
      <4>3. st[k] \in Nat
        BY <1>2 DEF Runs
      <4> QED
        BY <1>2, <4>1, <4>2, <4>3 DEF Runs
    <3>2. {j \in A!Starts(text) : j <= st[m]} = A!Starts(text)
      BY <3>1
    <3> QED
      BY <1>4, <2>2, <3>2
  <2> QED
    BY <2>1, <2>2
<1>6. \A k \in 1 .. m :
         (CHOOSE i \in A!Starts(text) : A!Cardinality({j \in A!Starts(text) : j <= i}) = k) = st[k]
  <2> TAKE k \in 1 .. m
  <2>1. \A i \in A!Starts(text) : A!Cardinality({j \in A!Starts(text) : j <= i}) = k => i = st[k]
    <3> TAKE i \in A!Starts(text)
    <3>1. PICK l \in 1 .. m : st[l] = i
      BY <1>3
    <3> QED
      BY <1>4, <3>1, SameCardinality
  <2>2. st[k] \in A!Starts(text) /\ A!Cardinality({j \in A!Starts(text) : j <= st[k]}) = k
    BY <1>3, <1>4, SameCardinality
  <2> QED
    BY <2>1, <2>2
<1>7. A!Words(text) = [k \in 1 .. m |-> A!End(text, st[k]) - st[k]]
  <2>1. A!Words(text) =
          [k \in 1 .. m |->
             A!End(text, CHOOSE i \in A!Starts(text) : A!Cardinality({j \in A!Starts(text) : j <= i}) = k)
               - (CHOOSE i \in A!Starts(text) : A!Cardinality({j \in A!Starts(text) : j <= i}) = k)]
    <3>1. A!Cardinality(A!Starts(text)) = m
      BY <1>5, SameCardinality
    <3> QED
      BY <3>1 DEF A!Words
  <2> QED
    BY <1>6, <2>1
<1>8. dn = [k \in 1 .. m |-> dn[k]]
  BY <1>1
<1>9. \A k \in 1 .. m : dn[k] = A!End(text, st[k]) - st[k]
  BY <1>2 DEF Runs
<1> QED
  BY <1>7, <1>8, <1>9

(* After i characters: the runs that have ended, and the x's since then.    *)
Seen(text, s, i) ==
  /\ s \in [done : Seq(Nat), run : Nat] /\ s.run <= i
  /\ \A j \in i - s.run + 1 .. i : text[j] = "x"
  /\ s.run < i => text[i - s.run] = "d"
  /\ \E st : Runs(text, st, s.done, Len(s.done), i - s.run)

(* The x's since the last delimiter are the one run that is not counted.    *)
LEMMA LastRun ==
  ASSUME NEW n \in Nat, NEW text \in [1 .. n -> {"x", "d"}], NEW i \in 0 .. n, NEW s, Seen(text, s, i),
         i = n \/ text[i + 1] = "d", s.run # 0, NEW c \in {i, i + 1}, c <= n
  PROVE  \E st : Runs(text, st, Append(s.done, s.run), Len(s.done) + 1, c)
<1>1. PICK r \in Nat : r = s.run /\ r # 0 /\ r <= i
  BY DEF Seen
<1>2. PICK dn \in Seq(Nat) : dn = s.done
  BY DEF Seen
<1>3. PICK b \in Nat : b = i - r /\ b + 1 <= i /\ (i + 1) - (b + 1) = r
  BY <1>1
<1>4. PICK st : Runs(text, st, dn, Len(dn), b)
  BY <1>1, <1>2, <1>3 DEF Seen
<1>5. \A j \in b + 1 .. i : text[j] = "x"
  BY <1>1, <1>3 DEF Seen
<1>6. b > 0 => text[b] = "d"
  BY <1>1, <1>3 DEF Seen
<1>7. b + 1 \in A!Starts(text)
  <2>1. b + 1 \in 1 .. n /\ b + 1 \in b + 1 .. i
    BY <1>3
  <2>2. (b + 1) - 1 = b /\ (b = 0 => b + 1 = 1) /\ (b = 0 \/ b > 0)
    OBVIOUS
  <2> QED
    BY <1>5, <1>6, <2>1, <2>2, TextIs
<1>8. \A t \in A!Starts(text) : t <= c => t <= b \/ t = b + 1
  <2> SUFFICES ASSUME NEW t \in A!Starts(text), t <= c, ~ (t <= b), t # b + 1 PROVE FALSE
    OBVIOUS
  <2>1. t \in 1 .. n /\ text[t] = "x" /\ (t = 1 \/ text[t - 1] = "d")
    BY TextIs, SMTT(30)
  <2>2. t # 1 /\ t - 1 \in b + 1 .. i
    BY <1>3, <2>1
  <2> QED
    BY <1>5, <2>1, <2>2
<1>9. A!End(text, b + 1) = i + 1
  <2>1. PICK f \in 1 .. n : f = b + 1 /\ f <= i
    BY <1>3
  <2>2. PICK e \in f .. n + 1 : e = i + 1 /\ e - 1 = i
    BY <2>1
  <2>3. (\A j \in f .. e - 1 : text[j] = "x") /\ (e > n \/ text[e] = "d")
    BY <1>5, <2>1, <2>2
  <2> QED
    BY <2>1, <2>2, <2>3, RunEnds
<1>10. A!End(text, b + 1) - (b + 1) = r
  <2>1. (i + 1) - (b + 1) = r
    BY <1>3
  <2> QED
    BY <1>9, <2>1, Zenon
<1>11. b < b + 1 /\ b + 1 <= c /\ Len(dn) \in Nat /\ b + 1 \in Nat /\ b \in Int /\ c \in Int
  <2>1. i <= c /\ c \in Int /\ b + 1 <= i
    BY <1>3
  <2>2. b < b + 1 /\ b + 1 <= c /\ b + 1 \in Nat /\ b \in Int
    BY <2>1
  <2>3. Len(dn) \in Nat
    OBVIOUS
  <2> QED
    BY <2>1, <2>2, <2>3
<1>12. \E q : Runs(text, q, Append(dn, r), Len(dn) + 1, c)
  BY <1>4, <1>7, <1>8, <1>10, <1>11, RunsGrow
<1> QED
  BY <1>1, <1>2, <1>12

LEMMA ScanSees ==
  ASSUME NEW n \in Nat, NEW text \in [1 .. n -> {"x", "d"}], NEW i \in 0 .. n, i < n, NEW s,
         Seen(text, s, i)
  PROVE  Seen(text, Scanned(s, text[i + 1]), i + 1)
<1>1. PICK r \in Nat : r = s.run /\ r <= i
  BY DEF Seen
<1>2. PICK dn \in Seq(Nat) : dn = s.done /\ s = [done |-> dn, run |-> r]
  BY <1>1 DEF Seen
<1>3. /\ \A j \in i - r + 1 .. i : text[j] = "x"
      /\ r < i => text[i - r] = "d"
      /\ \E st : Runs(text, st, dn, Len(dn), i - r)
  BY <1>1, <1>2 DEF Seen
<1>4. i + 1 \in 1 .. n /\ text[i + 1] \in {"x", "d"}
  OBVIOUS
<1>5. CASE text[i + 1] = "x"
  <2>1. Scanned(s, text[i + 1]) = [done |-> dn, run |-> r + 1]
    BY <1>2, <1>5 DEF Scanned
  <2>2. /\ (i + 1) - (r + 1) = i - r /\ r + 1 <= i + 1 /\ (r + 1 < i + 1 => r < i)
        /\ \A j \in i - r + 1 .. i + 1 : j = i + 1 \/ j \in i - r + 1 .. i
    BY <1>1
  <2>3. \A j \in i - r + 1 .. i + 1 : text[j] = "x"
    BY <1>3, <1>5, <2>2
  <2>4. PICK p \in Nat : p = r + 1 /\ p <= i + 1 /\ (i + 1) - p = i - r
    BY <2>2
  <2>5. PICK z : z = [done |-> dn, run |-> p]
    OBVIOUS
  <2>6. z \in [done : Seq(Nat), run : Nat] /\ z.run = p /\ z.done = dn
    BY <2>5
  <2>7. Seen(text, z, i + 1)
    BY <1>3, <2>2, <2>3, <2>4, <2>6 DEF Seen
  <2> QED
    BY <2>1, <2>4, <2>5, <2>7
<1>6. CASE text[i + 1] = "d"
  <2>1. \A z : z.run = 0 => \A j \in (i + 1) - z.run + 1 .. i + 1 : text[j] = "x"
    OBVIOUS
  <2>2. (i + 1) - 0 = i + 1 /\ i - 0 = i /\ 0 <= i + 1
    OBVIOUS
  <2>3. CASE r = 0
    <3>1. Scanned(s, text[i + 1]) = s /\ s.run = 0 /\ s \in [done : Seq(Nat), run : Nat]
      BY <1>2, <1>6, <2>3 DEF Scanned
    <3>2. PICK st : Runs(text, st, dn, Len(dn), i)
      BY <1>3, <2>2, <2>3
    <3>3. \A t \in A!Starts(text) : t <= i + 1 => t <= i
      <4> SUFFICES ASSUME NEW t \in A!Starts(text), t <= i + 1, ~ (t <= i) PROVE FALSE
        OBVIOUS
      <4>1. t \in Nat /\ text[t] = "x"
        BY TextIs
      <4>2. t = i + 1
        BY <4>1
      <4> QED
        BY <1>6, <4>1, <4>2
    <3>4. \A k \in 1 .. Len(dn) : st[k] <= i => st[k] <= i + 1
      <4>1. \A k \in 1 .. Len(dn) : st[k] \in Nat
        BY <3>2 DEF Runs
      <4> QED
        BY <4>1
    <3>5. Runs(text, st, dn, Len(dn), i + 1)
      BY <3>2, <3>3, <3>4 DEF Runs
    <3>6. \E q : Runs(text, q, s.done, Len(s.done), (i + 1) - s.run)
      BY <1>2, <2>2, <3>1, <3>5
    <3> QED
      BY <1>6, <2>1, <2>2, <3>1, <3>6 DEF Seen
  <2>4. CASE r # 0
    <3>1. PICK a \in Seq(Nat) : a = Append(dn, r) /\ Len(a) = Len(dn) + 1
      BY AppendProperties
    <3>2. PICK z : z = [done |-> a, run |-> 0]
      OBVIOUS
    <3>3. Scanned(s, text[i + 1]) = z
      BY <1>2, <1>6, <2>4, <3>1, <3>2 DEF Scanned
    <3>4. z \in [done : Seq(Nat), run : Nat] /\ z.run = 0 /\ z.done = a
      BY <3>2
    <3>5. i + 1 <= n /\ i + 1 \in {i, i + 1}
      OBVIOUS
    <3>6. \E q : Runs(text, q, Append(s.done, s.run), Len(s.done) + 1, i + 1)
      BY <1>1, <1>6, <2>4, <3>5, LastRun
    <3>7. \E q : Runs(text, q, z.done, Len(z.done), (i + 1) - z.run)
      BY <1>1, <1>2, <2>2, <3>1, <3>4, <3>6
    <3> QED
      BY <1>6, <2>1, <2>2, <3>3, <3>4, <3>7 DEF Seen
  <2> QED
    BY <2>3, <2>4
<1> QED
  BY <1>4, <1>5, <1>6

(* command_push_split pushes the words of a text of any length.             *)
LEMMA PiecesAreWords ==
  ASSUME NEW n \in Nat, NEW text \in [1 .. n -> {"x", "d"}]
  PROVE  A!Pieces(text) = A!Words(text) /\ A!Pieces(text) \in Seq(Nat)
<1>1. PICK h : /\ Scanning(h, text, n)
               /\ A!Pieces(text) = IF h[n].run = 0 THEN h[n].done ELSE Append(h[n].done, h[n].run)
  BY ScanUnrolls
<1>2. Seen(text, h[0], 0)
  <2>1. PICK z : z = h[0]
    OBVIOUS
  <2>2. z = [done |-> <<>>, run |-> 0]
    BY <1>1, <2>1 DEF Scanning
  <2>3. <<>> \in Seq(Nat) /\ Len(<<>>) = 0
    OBVIOUS
  <2>4. z \in [done : Seq(Nat), run : Nat] /\ z.run = 0 /\ z.done = <<>> /\ Len(z.done) = 0
    BY <2>2, <2>3
  <2> DEFINE st == [k \in 1 .. 0 |-> 0]
  <2>5. \A t \in A!Starts(text) : ~ (t <= 0)
    BY TextIs
  <2>6. Runs(text, st, z.done, 0, 0)
    BY <2>5 DEF Runs
  <2> QED
    BY <2>1, <2>4, <2>6 DEF Seen
<1>3. \A i \in 0 .. n : Seen(text, h[i], i)
  <2> DEFINE Bad == {i \in 0 .. n : ~ Seen(text, h[i], i)}
  <2>1. SUFFICES ASSUME Bad # {} PROVE FALSE
    OBVIOUS
  <2>2. Bad \in SUBSET Nat
    OBVIOUS
  <2>3. PICK m \in Bad : \A k \in Bad : m <= k
    <3> HIDE DEF Bad
    <3> QED
      BY <2>1, <2>2, LeastOf
  <2>4. m # 0
    BY <1>2
  <2>5. PICK p \in Nat : m = p + 1 /\ p \in 0 .. n /\ m \in 1 .. n /\ p < n
    BY <2>4
  <2>6. ~ (m <= p) /\ m - 1 = p
    BY <2>5
  <2>7. Seen(text, h[p], p)
    BY <2>3, <2>5, <2>6, Zenon
  <2>8. h[m] = Scanned(h[p], text[m])
    BY <1>1, <2>5, <2>6 DEF Scanning
  <2>9. Seen(text, h[m], m)
    BY <2>5, <2>7, <2>8, ScanSees
  <2> QED
    BY <2>3, <2>9, Zenon
<1>4. PICK s : s = h[n]
  OBVIOUS
<1>5. n \in 0 .. n /\ n - 0 = n /\ n <= n /\ n \in {n, n + 1}
  OBVIOUS
<1>6. Seen(text, s, n)
  BY <1>3, <1>4, <1>5
<1>7. s.done \in Seq(Nat) /\ s.run \in Nat
  BY <1>6 DEF Seen
<1>8. CASE s.run = 0
  <2>1. PICK st : Runs(text, st, s.done, Len(s.done), n)
    BY <1>5, <1>6, <1>8 DEF Seen
  <2>2. s.done = A!Words(text)
    BY <1>7, <2>1, RunsAreWords
  <2> QED
    BY <1>1, <1>4, <1>7, <1>8, <2>2
<1>9. CASE s.run # 0
  <2>1. Append(s.done, s.run) \in Seq(Nat) /\ Len(Append(s.done, s.run)) = Len(s.done) + 1
    BY <1>7, AppendProperties
  <2>2. PICK a \in Seq(Nat) : a = Append(s.done, s.run) /\ Len(a) = Len(s.done) + 1
    BY <2>1
  <2>3. PICK st : Runs(text, st, Append(s.done, s.run), Len(s.done) + 1, n)
    BY <1>5, <1>6, <1>9, LastRun
  <2>4. Runs(text, st, a, Len(a), n)
    BY <2>2, <2>3
  <2>5. a = A!Words(text)
    BY <2>4, RunsAreWords
  <2> QED
    BY <1>1, <1>4, <1>9, <2>2, <2>5
<1> QED
  BY <1>8, <1>9

-----------------------------------------------------------------------------
(* Vectors: the invariant.                                                  *)

VectorInv ==
  /\ vec = [v \in A!Vectors |-> vec[v]] /\ pushed = [v \in A!Vectors |-> pushed[v]]
  /\ \A v \in A!Vectors : /\ pushed[v] \in Seq(Nat) /\ vec[v].len = Len(pushed[v])
                          /\ vec[v].len <= MaxItems /\ Holds(vec[v], pushed[v])
  /\ cwd \in [block : Nat, len : Nat] /\ (cwd.block # A!Null => cwd.block = cwd.len + 1)
  /\ strings = vec["argv"].len + vec["env"].len + A!CwdBlocks
  /\ wrong = FALSE

LEMMA VectorStart == A!Init => VectorInv
<1> SUFFICES ASSUME A!Init PROVE VectorInv
  OBVIOUS
<1>1. /\ vec = [v \in A!Vectors |-> A!Empty] /\ pushed = [v \in A!Vectors |-> <<>>]
      /\ cwd = [block |-> 0, len |-> 0] /\ strings = 0 /\ wrong = FALSE
  BY DEF A!Init, A!Null
<1>2. <<>> \in Seq(Nat) /\ <<>> \in Seq(Int) /\ Len(<<>>) = 0
  OBVIOUS
<1>3. \A q : Holds(A!Empty, q)
  BY <1>2 DEF Holds, Slots, A!Empty
<1>4. \A v \in A!Vectors : vec[v].len = 0 /\ pushed[v] = <<>>
  BY <1>1 DEF A!Empty
<1> QED
  BY <1>1, <1>2, <1>3, <1>4, VectorConstants DEF VectorInv, A!CwdBlocks, A!Null, A!Vectors

LEMMA VectorStays == VectorInv /\ UNCHANGED vectorVars => VectorInv'
BY DEF VectorInv, vectorVars, A!CwdBlocks

(* Only the strings that are in force count. *)
LEMMA HoldsFirst ==
  ASSUME NEW x, NEW q, NEW r, Holds(x, q), \A i \in 1 .. x.len : r[i] = q[i]
  PROVE  Holds(x, r)
BY DEF Holds

LEMMA PushesKeep ==
  ASSUME VectorInv, NEW v \in A!Vectors, NEW ns \in Seq(Nat), A!PushesOf(v, ns, ns)
  PROVE  VectorInv'
<1>1. /\ vec[v].len + Len(ns) <= MaxItems
      /\ vec' = [vec EXCEPT ![v] = A!PushedAll(vec[v], ns)]
      /\ strings' = strings + Len(ns)
      /\ pushed' = [pushed EXCEPT ![v] = pushed[v] \o ns]
      /\ cwd' = cwd /\ wrong' = wrong
  BY DEF A!PushesOf
<1>2. PICK q \in Seq(Nat) : q = pushed[v]
  BY DEF VectorInv
<1>3. PICK m \in Nat : m = Len(q)
  OBVIOUS
<1>4. PICK n \in Nat : n = Len(ns) /\ ns \in [1 .. n -> Nat]
  BY LenProperties
<1>5. PICK r \in Seq(Nat) : r = q \o ns
  BY ConcatProperties
<1>6. /\ Len(r) = m + n /\ \A i \in 1 .. m : r[i] = q[i]
      /\ \A i \in 1 .. n : r[m + i] = ns[i]
  BY <1>3, <1>4, <1>5
<1>7. PICK x : x = vec[v]
  OBVIOUS
<1>8. x.len = m /\ Holds(x, q)
  BY <1>2, <1>3, <1>7 DEF VectorInv
<1>9. Holds(x, r)
  BY <1>6, <1>8, HoldsFirst
<1>10. PICK y : y = A!PushedAll(x, ns)
  OBVIOUS
<1>11. Holds(y, r) /\ y.len = m + n
  BY <1>4, <1>6, <1>8, <1>9, <1>10, PushesHold
<1>12. /\ vec'[v] = y /\ pushed'[v] = r
       /\ \A w \in A!Vectors \ {v} : vec'[w] = vec[w] /\ pushed'[w] = pushed[w]
       /\ vec' = [w \in A!Vectors |-> vec'[w]] /\ pushed' = [w \in A!Vectors |-> pushed'[w]]
  BY <1>1, <1>2, <1>5, <1>7, <1>10 DEF VectorInv
<1>13. \A w \in A!Vectors : /\ pushed'[w] \in Seq(Nat) /\ vec'[w].len = Len(pushed'[w])
                            /\ vec'[w].len <= MaxItems /\ Holds(vec'[w], pushed'[w])
  <2> TAKE w \in A!Vectors
  <2>1. CASE w = v
    <3>1. m + n <= MaxItems
      BY <1>1, <1>4, <1>7, <1>8
    <3> QED
      BY <1>6, <1>11, <1>12, <2>1, <3>1
  <2>2. CASE w # v
    BY <1>12, <2>2 DEF VectorInv
  <2> QED
    BY <2>1, <2>2
<1>14. strings' = vec'["argv"].len + vec'["env"].len + A!CwdBlocks'
  <2>1. PICK e \in A!Vectors : e # v /\ {e, v} = {"argv", "env"}
    BY DEF A!Vectors
  <2>2. vec[v].len \in Nat /\ vec[e].len \in Nat /\ A!CwdBlocks \in Nat
    BY DEF VectorInv, Holds, Slots, A!CwdBlocks
  <2>3. vec'[v].len = vec[v].len + n /\ vec'[e].len = vec[e].len
    BY <1>7, <1>8, <1>11, <1>12, <2>1
  <2>4. A!CwdBlocks' = A!CwdBlocks
    BY <1>1 DEF A!CwdBlocks
  <2>5. strings = vec["argv"].len + vec["env"].len + A!CwdBlocks /\ strings' = strings + n
    BY <1>1, <1>4 DEF VectorInv
  <2>6. CASE v = "argv" /\ e = "env"
    BY <2>2, <2>3, <2>4, <2>5, <2>6
  <2>7. CASE v = "env" /\ e = "argv"
    BY <2>2, <2>3, <2>4, <2>5, <2>7, SMTT(30)
  <2> QED
    BY <2>1, <2>6, <2>7 DEF A!Vectors
<1> QED
  BY <1>1, <1>12, <1>13, <1>14 DEF VectorInv

LEMMA ArgvIsSet ==
  ASSUME VectorInv, NEW n \in Nat, A!Argv0Set(n)
  PROVE  VectorInv'
<1>1. /\ vec["argv"].len > 0
      /\ wrong' = (wrong \/ vec["argv"].items[1] # vec["argv"].lens[1] + 1)
      /\ vec' = [vec EXCEPT !["argv"].items[1] = n + 1, !["argv"].lens[1] = n]
      /\ pushed' = [pushed EXCEPT !["argv"][1] = n]
      /\ cwd' = cwd /\ strings' = strings
  BY DEF A!Argv0Set
<1>2. PICK x : x = vec["argv"]
  OBVIOUS
<1>3. PICK q \in Seq(Nat) : q = pushed["argv"]
  BY DEF VectorInv, A!Vectors
<1>4. PICK l \in Nat : l = x.len /\ l > 0 /\ l = Len(q) /\ l <= MaxItems
  BY <1>1, <1>2, <1>3 DEF VectorInv, A!Vectors, Holds, Slots
<1>5. Holds(x, q)
  BY <1>2, <1>3 DEF VectorInv, A!Vectors
<1>6. PICK c \in Nat : c = x.cap /\ c > l
  BY <1>4, <1>5 DEF Holds, Slots
<1>7. PICK d \in [1 .. c -> Int], e \in [1 .. c -> Int] : d = x.items /\ e = x.lens
  <2>1. x.items \in Seq(Int) /\ Len(x.items) = c /\ x.lens \in Seq(Int) /\ Len(x.lens) = c
    BY <1>5, <1>6 DEF Holds, Slots
  <2> QED
    BY <2>1, LenProperties
<1>8. PICK a \in [1 .. c -> Int] : /\ a = [d EXCEPT ![1] = n + 1] /\ a[1] = n + 1
                                  /\ \A i \in 1 .. c : i # 1 => a[i] = d[i]
  <2>1. n + 1 \in Int /\ 1 \in 1 .. c
    BY <1>6
  <2> DEFINE f == [d EXCEPT ![1] = n + 1]
  <2>2. f \in [1 .. c -> Int] /\ f[1] = n + 1
    BY <2>1
  <2>3. \A i \in 1 .. c : i # 1 => f[i] = d[i]
    OBVIOUS
  <2> QED
    BY <2>2, <2>3
<1>9. PICK b \in [1 .. c -> Int] : /\ b = [e EXCEPT ![1] = n] /\ b[1] = n
                                  /\ \A i \in 1 .. c : i # 1 => b[i] = e[i]
  <2>1. n \in Int /\ 1 \in 1 .. c
    BY <1>6
  <2> DEFINE f == [e EXCEPT ![1] = n]
  <2>2. f \in [1 .. c -> Int] /\ f[1] = n
    BY <2>1
  <2>3. \A i \in 1 .. c : i # 1 => f[i] = e[i]
    OBVIOUS
  <2> QED
    BY <2>2, <2>3
<1>10. PICK r \in Seq(Nat) : r = [q EXCEPT ![1] = n] /\ Len(r) = l /\ r[1] = n
                             /\ \A i \in 1 .. l : i # 1 => r[i] = q[i]
  <2>1. q \in [1 .. l -> Nat]
    BY <1>4, LenProperties
  <2> DEFINE f == [q EXCEPT ![1] = n]
  <2>2. f \in [1 .. l -> Nat] /\ f[1] = n /\ \A i \in 1 .. l : i # 1 => f[i] = q[i]
    <3>1. 1 \in 1 .. l
      BY <1>4
    <3> QED
      BY <2>1, <3>1
  <2> HIDE DEF f
  <2>3. f \in Seq(Nat)
    BY <2>2, SeqDef
  <2>4. f \in [1 .. l -> Int]
    BY <2>2
  <2>5. Len(f) = l
    BY <2>4, ArrayIs
  <2> QED
    BY <2>2, <2>3, <2>5 DEF f
<1>11. PICK y : y = [items |-> a, lens |-> b, len |-> l, cap |-> c]
  OBVIOUS
<1>12. /\ y \in Slots /\ y.items = a /\ y.lens = b /\ y.len = l /\ y.cap = c
       /\ Len(a) = c /\ Len(b) = c
  BY <1>11, ArrayIs DEF Slots
<1>13. Holds(y, r)
  <2>1. a[1] = n + 1 /\ b[1] = n /\ \A i \in 1 .. c : i # 1 => a[i] = x.items[i] /\ b[i] = x.lens[i]
    BY <1>7, <1>8, <1>9
  <2>2. \A i \in 1 .. l : i \in 1 .. c /\ x.items[i] = q[i] + 1 /\ x.lens[i] = q[i]
    BY <1>4, <1>5, <1>6 DEF Holds
  <2>3. \A i \in 1 .. l : a[i] = r[i] + 1 /\ b[i] = r[i]
    <3> TAKE i \in 1 .. l
    <3>1. CASE i = 1
      BY <1>10, <2>1, <3>1
    <3>2. CASE i # 1
      BY <1>10, <2>1, <2>2, <3>2
    <3> QED
      BY <3>1, <3>2
  <2>4. l + 1 \in 1 .. c /\ l + 1 # 1 /\ c > 0
    BY <1>4, <1>6
  <2>5. x.items[l + 1] = A!Null
    BY <1>4, <1>5, <1>6, <2>4 DEF Holds
  <2> QED
    BY <1>6, <1>12, <2>1, <2>3, <2>4, <2>5 DEF Holds
<1>14. vec' = [vec EXCEPT !["argv"] = y] /\ pushed' = [pushed EXCEPT !["argv"] = r]
  <2>1. x = [items |-> d, lens |-> e, len |-> l, cap |-> c]
    <3>1. x \in Slots
      BY <1>5 DEF Holds
    <3>2. x = [items |-> x.items, lens |-> x.lens, len |-> x.len, cap |-> x.cap]
      BY <3>1 DEF Slots
    <3> QED
      BY <1>4, <1>6, <1>7, <3>2
  <2>2. "argv" \in DOMAIN vec /\ "argv" \in DOMAIN pushed
    BY DEF VectorInv, A!Vectors
  <2>3. PICK z : z = [x EXCEPT !.items = a]
    OBVIOUS
  <2>4. z = [items |-> a, lens |-> e, len |-> l, cap |-> c]
    BY <2>1, <2>3
  <2>5. [z EXCEPT !.lens = b] = y
    BY <1>11, <2>4
  <2>6. x.items = d /\ z.lens = e
    BY <1>7, <2>4
  <2>7. [x EXCEPT !.items[1] = n + 1] = z
    BY <1>8, <2>3, <2>6
  <2>8. [z EXCEPT !.lens[1] = n] = y
    BY <1>9, <2>5, <2>6
  <2>9. vec' = [[vec EXCEPT !["argv"].items[1] = n + 1] EXCEPT !["argv"].lens[1] = n]
    BY <1>1
  <2>10. PICK u : u = [vec EXCEPT !["argv"] = z]
    OBVIOUS
  <2>11. [vec EXCEPT !["argv"].items[1] = n + 1] = u
    BY <1>2, <2>7, <2>10
  <2>12. [u EXCEPT !["argv"].lens[1] = n] = [u EXCEPT !["argv"] = y]
    BY <2>2, <2>8, <2>10
  <2>13. [u EXCEPT !["argv"] = y] = [vec EXCEPT !["argv"] = y]
    BY <2>10
  <2>14. vec' = [vec EXCEPT !["argv"] = y]
    BY <2>9, <2>11, <2>12, <2>13
  <2>15. pushed' = [pushed EXCEPT !["argv"] = r]
    BY <1>1, <1>3, <1>10
  <2> QED
    BY <2>14, <2>15
<1>15. /\ vec'["argv"] = y /\ pushed'["argv"] = r /\ vec'["env"] = vec["env"] /\ pushed'["env"] = pushed["env"]
       /\ vec' = [w \in A!Vectors |-> vec'[w]] /\ pushed' = [w \in A!Vectors |-> pushed'[w]]
  BY <1>14 DEF VectorInv, A!Vectors
<1>16. \A w \in A!Vectors : /\ pushed'[w] \in Seq(Nat) /\ vec'[w].len = Len(pushed'[w])
                            /\ vec'[w].len <= MaxItems /\ Holds(vec'[w], pushed'[w])
  BY <1>4, <1>10, <1>12, <1>13, <1>15 DEF VectorInv, A!Vectors
<1>17. strings' = vec'["argv"].len + vec'["env"].len + A!CwdBlocks'
  BY <1>1, <1>2, <1>4, <1>12, <1>15 DEF VectorInv, A!CwdBlocks
<1>18. wrong' = FALSE
  <2>1. 1 \in 1 .. l
    BY <1>4
  <2>2. x.items[1] = x.lens[1] + 1
    BY <1>4, <1>5, <2>1 DEF Holds
  <2> QED
    BY <1>1, <1>2, <2>2 DEF VectorInv
<1> QED
  BY <1>1, <1>15, <1>16, <1>17, <1>18 DEF VectorInv

LEMMA CwdIsRight == VectorInv => ~ A!CwdIsWrong
BY DEF VectorInv, A!CwdIsWrong

LEMMA CwdIsSet ==
  ASSUME VectorInv, NEW n \in Nat, A!CwdSet(n)
  PROVE  VectorInv'
<1>1. /\ cwd' = [block |-> n + 1, len |-> n] /\ wrong' = (wrong \/ A!CwdIsWrong)
      /\ strings' = strings - A!CwdBlocks + 1 /\ vec' = vec /\ pushed' = pushed
  BY DEF A!CwdSet
<1>2. wrong' = FALSE
  BY <1>1, CwdIsRight DEF VectorInv
<1>3. PICK p \in Nat : p = n + 1 /\ p # 0
  OBVIOUS
<1>4. cwd' = [block |-> p, len |-> n]
  BY <1>1, <1>3
<1>5. cwd' \in [block : Nat, len : Nat] /\ cwd'.block = p /\ cwd'.len = n
  BY <1>4
<1>6. A!CwdBlocks' = 1
  BY <1>3, <1>5 DEF A!CwdBlocks, A!Null
<1>7. strings' = vec'["argv"].len + vec'["env"].len + A!CwdBlocks'
  <2>1. vec["argv"].len \in Nat /\ vec["env"].len \in Nat /\ A!CwdBlocks \in Nat
    BY DEF VectorInv, Holds, Slots, A!CwdBlocks, A!Vectors
  <2> QED
    BY <1>1, <1>6, <2>1 DEF VectorInv
<1> QED
  BY <1>1, <1>2, <1>3, <1>5, <1>7 DEF VectorInv

LEMMA CwdIsCleared ==
  ASSUME VectorInv, A!CwdClear
  PROVE  VectorInv'
<1>1. /\ cwd' = [block |-> 0, len |-> 0] /\ wrong' = (wrong \/ A!CwdIsWrong)
      /\ strings' = strings - A!CwdBlocks /\ vec' = vec /\ pushed' = pushed
  BY DEF A!CwdClear, A!Null
<1>2. wrong' = FALSE
  BY <1>1, CwdIsRight DEF VectorInv
<1>3. cwd' \in [block : Nat, len : Nat] /\ cwd'.block = 0
  BY <1>1
<1>4. A!CwdBlocks' = 0
  BY <1>3 DEF A!CwdBlocks, A!Null
<1>5. strings' = vec'["argv"].len + vec'["env"].len + A!CwdBlocks'
  <2>1. vec["argv"].len \in Nat /\ vec["env"].len \in Nat /\ A!CwdBlocks \in Nat
    BY DEF VectorInv, Holds, Slots, A!CwdBlocks, A!Vectors
  <2> QED
    BY <1>1, <1>4, <2>1 DEF VectorInv
<1> QED
  BY <1>1, <1>2, <1>3, <1>5 DEF VectorInv, A!Null

(* Every string of a vector goes back with its own size. *)
LEMMA VectorIsRight ==
  ASSUME NEW x, NEW q, Holds(x, q)
  PROVE  ~ A!WrongIn(x)
<1> SUFFICES ASSUME NEW i \in 1 .. x.len PROVE x.items[i] = x.lens[i] + 1
  BY DEF A!WrongIn
<1>1. x.items[i] = q[i] + 1 /\ x.lens[i] = q[i]
  BY DEF Holds
<1> QED
  BY <1>1

(* The arrays stay, and the slots that were used are Null. *)
LEMMA ClearedHolds ==
  ASSUME NEW x, NEW q, Holds(x, q)
  PROVE  Holds(A!Cleared(x), <<>>) /\ A!Cleared(x).len = 0
<1>1. /\ x \in Slots /\ x.len \in Nat /\ x.cap \in Nat /\ x.items \in Seq(Int) /\ x.lens \in Seq(Int)
      /\ Len(x.items) = x.cap /\ Len(x.lens) = x.cap
  BY DEF Holds, Slots
<1>2. PICK c \in Nat, l \in Nat : c = x.cap /\ l = x.len
  BY <1>1
<1>3. PICK d \in [1 .. c -> Int], e \in [1 .. c -> Int] : d = x.items /\ e = x.lens
  BY <1>1, <1>2, LenProperties
<1>4. PICK m \in Nat : m = A!Max({1, l}) /\ m >= 1
  <2>1. \E p \in {1, l} : \A y \in {1, l} : p >= y
    <3>1. CASE l >= 1
      BY <3>1
    <3>2. CASE ~ (l >= 1)
      BY <3>2
    <3> QED
      BY <3>1, <3>2
  <2>2. A!Max({1, l}) \in {1, l} /\ \A y \in {1, l} : A!Max({1, l}) >= y
    BY <2>1 DEF A!Max
  <2> QED
    BY <2>2
<1> DEFINE a == [i \in 1 .. c |-> IF i \in 1 .. m THEN 0 ELSE d[i]]
<1> DEFINE b == [i \in 1 .. c |-> IF i \in 1 .. m THEN 0 ELSE e[i]]
<1>5. a \in [1 .. c -> Int] /\ b \in [1 .. c -> Int]
  <2>1. 0 \in Int
    OBVIOUS
  <2> QED
    BY <2>1
<1>6. c > 0 => a[1] = 0
  <2> SUFFICES ASSUME c > 0 PROVE a[1] = 0
    OBVIOUS
  <2>1. 1 \in 1 .. c /\ 1 \in 1 .. m
    BY <1>4
  <2> QED
    BY <2>1
<1>7. A!Cleared(x) = [x EXCEPT !.items = a, !.lens = b, !.len = 0]
  BY <1>2, <1>3, <1>4 DEF A!Cleared, A!Null
<1> HIDE DEF a, b
<1>8. PICK y : y = A!Cleared(x)
  OBVIOUS
<1>9. y = [items |-> a, lens |-> b, len |-> 0, cap |-> c]
  BY <1>1, <1>2, <1>7, <1>8 DEF Slots
<1>10. /\ a \in Seq(Int) /\ Len(a) = c /\ b \in Seq(Int) /\ Len(b) = c
  BY <1>5, ArrayIs
<1>11. /\ y \in Slots /\ y.items = a /\ y.lens = b /\ y.len = 0 /\ y.cap = c
  BY <1>9, <1>10 DEF Slots
<1>12. c > 0 \/ c = 0
  OBVIOUS
<1>13. Holds(y, <<>>)
  BY <1>6, <1>10, <1>11, <1>12 DEF Holds, A!Null
<1> QED
  BY <1>8, <1>11, <1>13

LEMMA VectorIsCleared ==
  ASSUME VectorInv, NEW v \in A!Vectors, A!Clear(v)
  PROVE  VectorInv'
<1>1. /\ wrong' = (wrong \/ A!WrongIn(vec[v])) /\ strings' = strings - vec[v].len
      /\ vec' = [vec EXCEPT ![v] = A!Cleared(vec[v])] /\ pushed' = [pushed EXCEPT ![v] = <<>>]
      /\ cwd' = cwd
  BY DEF A!Clear
<1>2. Holds(vec[v], pushed[v])
  BY DEF VectorInv
<1>3. wrong' = FALSE
  BY <1>1, <1>2, VectorIsRight DEF VectorInv
<1>4. PICK y : y = A!Cleared(vec[v])
  OBVIOUS
<1>5. Holds(y, <<>>) /\ y.len = 0
  BY <1>2, <1>4, ClearedHolds
<1>6. /\ vec'[v] = y /\ pushed'[v] = <<>>
      /\ \A w \in A!Vectors \ {v} : vec'[w] = vec[w] /\ pushed'[w] = pushed[w]
      /\ vec' = [w \in A!Vectors |-> vec'[w]] /\ pushed' = [w \in A!Vectors |-> pushed'[w]]
  BY <1>1, <1>4 DEF VectorInv
<1>7. \A w \in A!Vectors : /\ pushed'[w] \in Seq(Nat) /\ vec'[w].len = Len(pushed'[w])
                           /\ vec'[w].len <= MaxItems /\ Holds(vec'[w], pushed'[w])
  <2> TAKE w \in A!Vectors
  <2>1. CASE w = v
    <3>1. <<>> \in Seq(Nat) /\ Len(<<>>) = 0 /\ 0 <= MaxItems
      BY VectorConstants
    <3> QED
      BY <1>5, <1>6, <2>1, <3>1
  <2>2. CASE w # v
    BY <1>6, <2>2 DEF VectorInv
  <2> QED
    BY <2>1, <2>2
<1>8. strings' = vec'["argv"].len + vec'["env"].len + A!CwdBlocks'
  <2>1. PICK e \in A!Vectors : e # v /\ {e, v} = {"argv", "env"}
    BY DEF A!Vectors
  <2>2. vec[v].len \in Nat /\ vec[e].len \in Nat /\ A!CwdBlocks \in Nat
    BY DEF VectorInv, Holds, Slots, A!CwdBlocks
  <2>3. vec'[v].len = 0 /\ vec'[e].len = vec[e].len
    BY <1>5, <1>6, <2>1
  <2>4. A!CwdBlocks' = A!CwdBlocks
    BY <1>1 DEF A!CwdBlocks
  <2>5. strings = vec["argv"].len + vec["env"].len + A!CwdBlocks /\ strings' = strings - vec[v].len
    BY <1>1 DEF VectorInv
  <2>6. CASE v = "argv" /\ e = "env"
    BY <2>2, <2>3, <2>4, <2>5, <2>6
  <2>7. CASE v = "env" /\ e = "argv"
    BY <2>2, <2>3, <2>4, <2>5, <2>7
  <2> QED
    BY <2>1, <2>6, <2>7 DEF A!Vectors
<1> QED
  BY <1>1, <1>3, <1>6, <1>7, <1>8 DEF VectorInv

LEMMA VectorsAreFreed ==
  ASSUME VectorInv, A!Free
  PROVE  VectorInv'
<1>1. /\ wrong' = (wrong \/ A!CwdIsWrong \/ \E v \in A!Vectors :
                     A!WrongIn(vec[v]) \/ Len(vec[v].items) # vec[v].cap)
      /\ strings' = strings - A!CwdBlocks - vec["argv"].len - vec["env"].len
      /\ vec' = [v \in A!Vectors |-> A!Empty] /\ cwd' = [block |-> 0, len |-> 0]
      /\ pushed' = [v \in A!Vectors |-> <<>>]
  BY DEF A!Free, A!Null
<1>2. \A v \in A!Vectors : ~ A!WrongIn(vec[v]) /\ Len(vec[v].items) = vec[v].cap
  <2> TAKE v \in A!Vectors
  <2>1. Holds(vec[v], pushed[v])
    BY DEF VectorInv
  <2> QED
    BY <2>1, VectorIsRight DEF Holds
<1>3. wrong' = FALSE
  BY <1>1, <1>2, CwdIsRight DEF VectorInv
<1>4. strings' = 0
  <2>1. vec["argv"].len \in Nat /\ vec["env"].len \in Nat /\ A!CwdBlocks \in Nat
    BY DEF VectorInv, Holds, Slots, A!CwdBlocks, A!Vectors
  <2> QED
    BY <1>1, <2>1 DEF VectorInv
<1>5. <<>> \in Seq(Nat) /\ <<>> \in Seq(Int) /\ Len(<<>>) = 0
  OBVIOUS
<1>6. \A q : Holds(A!Empty, q)
  BY <1>5 DEF Holds, Slots, A!Empty
<1>7. \A v \in A!Vectors : vec'[v] = A!Empty /\ vec'[v].len = 0 /\ pushed'[v] = <<>>
  BY <1>1 DEF A!Empty
<1>8. A!CwdBlocks' = 0 /\ cwd' \in [block : Nat, len : Nat] /\ cwd'.block = 0
  BY <1>1 DEF A!CwdBlocks, A!Null
<1>9. vec'["argv"].len = 0 /\ vec'["env"].len = 0
  BY <1>7 DEF A!Vectors
<1> QED
  BY <1>1, <1>3, <1>4, <1>5, <1>6, <1>7, <1>8, <1>9, VectorConstants DEF VectorInv, A!Null

LEMMA SplitKeeps ==
  ASSUME VectorInv, NEW text \in A!Texts, A!PushSplit(text)
  PROVE  VectorInv'
<1>1. PICK n \in Nat : text \in [1 .. n -> {"x", "d"}]
  BY VectorConstants DEF A!Texts
<1>2. A!Pieces(text) = A!Words(text) /\ A!Pieces(text) \in Seq(Nat)
  BY <1>1, PiecesAreWords
<1>3. PICK ns \in Seq(Nat) : ns = A!Pieces(text) /\ ns = A!Words(text)
  BY <1>2
<1>4. A!PushesOf("argv", ns, ns)
  BY <1>3 DEF A!PushSplit
<1>5. "argv" \in A!Vectors
  BY DEF A!Vectors
<1> QED
  BY <1>4, <1>5, PushesKeep

LEMMA VectorStep == VectorInv /\ A!Next => VectorInv'
<1> SUFFICES ASSUME VectorInv, A!Next PROVE VectorInv'
  OBVIOUS
<1>1. \A n \in 0 .. MaxLen : n \in Nat /\ <<n>> \in Seq(Nat) /\ <<n, 1>> \in Seq(Nat)
  OBVIOUS
<1>2. ASSUME NEW v \in A!Vectors, NEW n \in 0 .. MaxLen, A!Push(v, <<n>>) \/ A!Push(v, <<n, 1>>)
      PROVE  VectorInv'
  BY <1>1, <1>2, PushesKeep DEF A!Push
<1>3. ASSUME NEW text \in A!Texts, A!PushSplit(text)
      PROVE  VectorInv'
  BY <1>3, SplitKeeps
<1>4. ASSUME NEW n \in 0 .. MaxLen, A!Argv0Set(n) \/ A!CwdSet(n)
      PROVE  VectorInv'
  BY <1>1, <1>4, ArgvIsSet, CwdIsSet
<1>5. CASE A!CwdClear
  BY <1>5, CwdIsCleared
<1>6. ASSUME NEW v \in A!Vectors, A!Clear(v)
      PROVE  VectorInv'
  BY <1>6, VectorIsCleared
<1>7. CASE A!Free
  BY <1>7, VectorsAreFreed
<1> QED
  BY <1>2, <1>3, <1>4, <1>5, <1>6, <1>7 DEF A!Next

LEMMA VectorAlways == Spec => []VectorInv
<1>1. Init => VectorInv
  BY VectorStart DEF Init
<1>2. VectorInv /\ [Next]_vars => VectorInv'
  <2> SUFFICES ASSUME VectorInv, [Next]_vars PROVE VectorInv'
    OBVIOUS
  <2>1. CASE A!Next
    BY <2>1, VectorStep
  <2>2. CASE UNCHANGED vectorVars
    BY <2>2, VectorStays
  <2> QED
    BY <2>1, <2>2 DEF Next, vars
<1> QED
  BY <1>1, <1>2, PTL DEF Spec

-----------------------------------------------------------------------------
(* The theorems.                                                            *)

(* Whatever the sizes of the pipes and of the reads, the input and the      *)
(* output: the result of command_run has every unit that the child wrote,   *)
(* the child reads its input whole and in order, and no read of the poll    *)
(* loop blocks; the capture files of Windows deliver the same.              *)
THEOREM Arrival == Spec => []StreamsArriveWhole
<1>1. UnixInv /\ WinInv => StreamsArriveWhole
  BY UnixPromises DEF WinInv, WinOutput, StreamsArriveWhole
<1> QED
  BY <1>1, UnixAlways, WinAlways, PTL

(* However a run returns, and whichever call of the system fails, nothing   *)
(* of it is left: no descriptor, handle, zombie or buffer, after a success  *)
(* no temporary file, and the disposition of SIGPIPE is the caller's again. *)
THEOREM CleanEnds == Spec => []NothingIsLeft
<1>1. WinInv => W!TypeOK /\ W!EveryWayOutCleansUp
  BY MissingFile DEF WinInv, WinTypes, WinControl, WinFiles, W!EveryWayOutCleansUp, W!NoCapture
<1>2. UnixInv /\ WinInv => NothingIsLeft
  BY <1>1, UnixPromises DEF NothingIsLeft
<1> QED
  BY <1>2, UnixAlways, WinAlways, PTL

(* No return from a Windows run leaves a capture file behind, but that of a *)
(* failed wait for a child that still has it open.                          *)
THEOREM CaptureFilesAreDeleted == Spec => W!FilesAreDeleted
<1>1. WinInv /\ [Next]_vars =>
        [winPc # "idle" /\ winPc' = "idle" /\ winChild # "running"
          => \A s \in W!Streams : disk'[s] = W!NoFile]_(W!vars)
  <2> SUFFICES ASSUME WinInv, [Next]_vars, winPc # "idle", winPc' = "idle", winChild # "running",
                      NEW s \in W!Streams
               PROVE  disk'[s] = W!NoFile
    OBVIOUS
  <2>1. W!Next
    BY DEF Next, vars, windowsVars
  <2> QED
    BY <2>1, WinStep, MissingFile
<1> QED
  BY <1>1, WinAlways, PTL DEF Spec, W!FilesAreDeleted

(* Whatever is pushed, split, replaced and cleared, for texts, strings and  *)
(* vectors of any length: no push writes outside of its array, execvp and   *)
(* putenv find the strings in force with a NULL after them, and every       *)
(* string is given back once, with its own size.                            *)
THEOREM Arguments == Spec => []ArgumentsAreExact
<1>1. VectorInv => A!TypeOK
  <2> SUFFICES ASSUME VectorInv PROVE A!TypeOK
    OBVIOUS
  <2>1. ASSUME NEW v \in A!Vectors
        PROVE  /\ vec[v].len \in 0 .. MaxItems
               /\ Len(vec[v].items) = vec[v].cap /\ Len(vec[v].lens) = vec[v].cap
               /\ vec[v].cap = 0 \/ vec[v].cap > vec[v].len
    <3>1. Holds(vec[v], pushed[v]) /\ vec[v].len <= MaxItems
      BY DEF VectorInv
    <3> QED
      BY <3>1, VectorConstants DEF Holds, Slots
  <2> QED
    BY <2>1 DEF VectorInv, A!TypeOK
<1>2. VectorInv => A!ExecSeesArguments
  BY DEF VectorInv, Holds, A!ExecSeesArguments
<1>3. VectorInv => A!SizesMatch /\ A!NoStringIsLost
  BY DEF VectorInv, A!SizesMatch, A!NoStringIsLost
<1>4. VectorInv => ArgumentsAreExact
  BY <1>1, <1>2, <1>3 DEF ArgumentsAreExact
<1> QED
  BY <1>4, VectorAlways, PTL

=============================================================================
