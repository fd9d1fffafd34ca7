--------------------------- MODULE AudioFifoProofs ---------------------------
(***************************************************************************)
(* Safety of AudioFifo, for every buffer size, FIFO capacity and number of *)
(* overflows.  Type correctness, the whole buffers in the pipe and the     *)
(* control points of the two processes support one another, so they are    *)
(* one inductive invariant, IInv.                                          *)
(***************************************************************************)
EXTENDS AudioFifo, TLAPS

(* The recorder holds the FIFO between its open and its close, the         *)
(* callback thread exists from the start of the stream to its close, and   *)
(* nothing of the recorder exists before app.py launches it. *)
Control ==
  /\ writerOpen <=> rec \in {"setup", "check", "sleeping", "stop", "join",
                             "closefifo"}
  /\ cb = "off" <=> rec \notin {"check", "sleeping", "stop", "join"}
  /\ app \in {"build", "spawn"} => rec = "none"

IInv ==
  /\ TypeOK
  /\ Control
  /\ WholeBuffers
  /\ OverflowAccounting
  /\ frame \in {0, FramePages}

(* Room or data in a pipe of whole buffers is at least one buffer. *)
LEMMA BufferArithmetic ==
  ASSUME NEW n \in 0 .. FifoFrames
  PROVE  /\ n * FramePages \in 0 .. FifoPages
         /\ n * FramePages > 0 =>
              /\ n - 1 \in 0 .. FifoFrames
              /\ n * FramePages - FramePages = (n - 1) * FramePages
              /\ n * FramePages >= FramePages
         /\ n * FramePages < FifoPages =>
              /\ n + 1 \in 0 .. FifoFrames
              /\ n * FramePages + FramePages = (n + 1) * FramePages
              /\ FifoPages - n * FramePages >= FramePages
<1>1. /\ FramePages \in Nat \ {0} /\ FifoFrames \in Nat \ {0}
      /\ n \in Nat /\ n <= FifoFrames
  BY ConstantsAssumption
<1>2. n * FramePages \in Nat /\ n * FramePages <= FifoFrames * FramePages
  BY <1>1
<1>3. CASE n = 0
  BY <1>1, <1>2, <1>3 DEF FifoPages
<1>4. CASE n > 0
  <2>1. n * FramePages - FramePages = (n - 1) * FramePages
    BY <1>1
  <2>2. (n - 1) * FramePages >= 0
    BY <1>1, <1>4
  <2>3. n * FramePages + FramePages = (n + 1) * FramePages
    BY <1>1
  <2>4. n * FramePages < FifoPages => n < FifoFrames
    BY <1>1 DEF FifoPages
  <2>5. n < FifoFrames => (n + 1) * FramePages <= FifoFrames * FramePages
    BY <1>1
  <2> QED
    BY <1>1, <1>2, <1>4, <2>1, <2>2, <2>3, <2>4, <2>5 DEF FifoPages
<1> QED
  BY <1>1, <1>3, <1>4

(* Neither a step that leaves the pipe alone nor one that drops its data   *)
(* cuts a buffer. *)
LEMMA PipeKept ==
  ASSUME WholePipe, fifo' \in {fifo, 0}
  PROVE  WholePipe'
<1>1. 0 \in 0 .. FifoFrames /\ 0 = 0 * FramePages
  BY ConstantsAssumption
<1>2. CASE fifo' = 0
  BY <1>1, <1>2, PipeKept DEF WholePipe
<1>3. CASE fifo' = fifo
  BY <1>3 DEF WholePipe
<1> QED
  BY <1>2, <1>3

(* The end of the recorder's process is the end of its callback and of its *)
(* descriptor, and cuts no buffer either. *)
LEMMA ProcessEnd ==
  ASSUME NEW how \in {"exited", "failed", "killed"},
         TypeOK, WholeBuffers, RecorderEnds(how)
  PROVE  /\ WholeBuffers' /\ fifo' \in 0 .. FifoPages
         /\ rec' = how /\ cb' = "off" /\ writerOpen' = FALSE
         /\ pending' \in 0 .. FramePages
<1> USE ConstantsAssumption
<1>1. 0 \in 0 .. FifoPages /\ 0 \in 0 .. FramePages /\ 0 # FramePages
  BY DEF FifoPages
<1>2. fifo' \in {fifo, 0} /\ pending' = 0 /\ cb' = "off" /\ rec' = how
      /\ writerOpen' = FALSE
  BY DEF RecorderEnds
<1>3. WholePipe'
  BY <1>2, PipeKept DEF WholeBuffers
<1> QED
  BY <1>1, <1>2, <1>3 DEF TypeOK, WholeBuffers

LEMMA InitIInv == Init => IInv
<1> SUFFICES ASSUME Init PROVE IInv
  OBVIOUS
<1>1. 0 \in 0 .. FifoFrames /\ 0 = 0 * FramePages
  BY ConstantsAssumption
<1>2. TypeOK /\ Control /\ OverflowAccounting /\ frame \in {0, FramePages}
  <2>1. 0 \in 0 .. FifoPages
    BY ConstantsAssumption DEF FifoPages
  <2>2. exes \in SUBSET {CfileName, BuildOutput}
    BY DEF Init
  <2>3. /\ frame \in 0 .. FramePages /\ pending \in 0 .. FramePages
        /\ had_overflow \in 0 .. MaxOverflows
        /\ total \in 0 .. MaxOverflows /\ raised \in 0 .. MaxOverflows
    BY ConstantsAssumption DEF Init
  <2>4. /\ app \in AppStates /\ rec \in RecStates
        /\ cb \in {"off", "idle", "writing"}
    BY DEF Init, AppStates, RecStates
  <2>5. TypeOK
    BY <2>1, <2>2, <2>3, <2>4 DEF Init, TypeOK
  <2>6. Control
    BY DEF Init, Control
  <2> QED
    BY <2>5, <2>6 DEF Init, OverflowAccounting
<1>3. WholeBuffers
  BY <1>1, ConstantsAssumption DEF Init, WholeBuffers, WholePipe
<1> QED
  BY <1>2, <1>3 DEF IInv

(* A step of the recorder's main thread moves no data, except that closing *)
(* the last end of the FIFO drops what is in it. *)
LEMMA MainStep ==
  ASSUME IInv, RecorderMain \/ OpenWriterFails
  PROVE  IInv'
<1> USE ConstantsAssumption
<1>0. 0 \in 0 .. FifoPages
  BY DEF FifoPages
<1>1. TypeOK /\ Control /\ WholeBuffers /\ OverflowAccounting
      /\ frame \in {0, FramePages}
  BY DEF IInv
<1>2. CASE InstallHandler
  BY <1>1, <1>2, PipeKept DEF InstallHandler, IInv, TypeOK, Control, WholeBuffers,
     OverflowAccounting, appVars, fifoVars, RecStates
<1>3. CASE OpenWriter
  BY <1>1, <1>3, PipeKept DEF OpenWriter, IInv, TypeOK, Control, WholeBuffers,
     OverflowAccounting, appVars, RecStates
<1>4. CASE StartStream
  BY <1>1, <1>4, PipeKept DEF StartStream, IInv, TypeOK, Control, WholeBuffers,
     OverflowAccounting, appVars, fifoVars, RecStates
<1>5. CASE StartStreamFails \/ OpenWriterFails
  BY <1>1, <1>5, ProcessEnd DEF StartStreamFails, OpenWriterFails, IInv, TypeOK, Control,
     OverflowAccounting, appVars, RecStates
<1>6. CASE CheckRunning
  BY <1>1, <1>6, PipeKept DEF CheckRunning, IInv, TypeOK, Control, WholeBuffers,
     OverflowAccounting, appVars, fifoVars, RecStates
<1>7. CASE CountOverflows
  BY <1>1, <1>7, PipeKept DEF CountOverflows, IInv, TypeOK, Control, WholeBuffers,
     OverflowAccounting, appVars, fifoVars, RecStates
<1>8. CASE StopStream
  BY <1>1, <1>8, PipeKept DEF StopStream, IInv, TypeOK, Control, WholeBuffers,
     OverflowAccounting, appVars, fifoVars, RecStates
<1>9. CASE CloseStream
  BY <1>1, <1>9, PipeKept DEF CloseStream, IInv, TypeOK, Control, WholeBuffers,
     OverflowAccounting, appVars, fifoVars, RecStates
<1>10. CASE CloseFifo
  BY <1>0, <1>1, <1>10, PipeKept DEF CloseFifo, IInv, TypeOK, Control, WholeBuffers,
     OverflowAccounting, appVars, RecStates
<1>11. CASE ReturnMain
  BY <1>1, <1>11, ProcessEnd DEF ReturnMain, IInv, TypeOK, Control,
     OverflowAccounting, appVars, RecStates
<1> QED
  BY <1>2, <1>3, <1>4, <1>5, <1>6, <1>7, <1>8, <1>9, <1>10, <1>11
  DEF RecorderMain

(* The callback always has a whole buffer to write, and where there is     *)
(* room there is room for all of it. *)
LEMMA CallbackStep ==
  ASSUME IInv, Callback
  PROVE  IInv'
<1> USE ConstantsAssumption
<1>0. 0 \in 0 .. FifoPages
  BY DEF FifoPages
<1>1. TypeOK /\ Control /\ WholeBuffers /\ OverflowAccounting
      /\ frame \in {0, FramePages}
  BY DEF IInv
<1>2. ASSUME NEW flags \in 0 .. 2, RecordCallback(flags)
      PROVE  IInv'
  BY <1>1, <1>2, PipeKept DEF RecordCallback, IInv, TypeOK, Control, WholeBuffers,
     OverflowAccounting, appVars, fifoVars
<1>3. CASE WriteFifo
  <2>1. PICK n \in 0 .. FifoFrames : fifo = n * FramePages
    BY <1>1 DEF WholeBuffers, WholePipe
  <2>2. pending = FramePages /\ fifo < FifoPages /\ fifo \in Nat
        /\ FifoPages \in Nat
    BY <1>1, <1>3 DEF WriteFifo, WholeBuffers, TypeOK, FifoPages
  <2>3. n + 1 \in 0 .. FifoFrames /\ fifo + FramePages = (n + 1) * FramePages
        /\ FifoPages - fifo >= FramePages
    BY <2>1, <2>2, BufferArithmetic
  <2>4. Lesser(pending, FifoPages - fifo) = FramePages
    BY <2>2, <2>3 DEF Lesser
  <2>5. fifo' = fifo + FramePages /\ pending' = 0 /\ cb' = "idle"
    BY <1>3, <2>2, <2>4 DEF WriteFifo
  <2>6. fifo' \in 0 .. FifoPages
    BY <2>2, <2>3, <2>5
  <2>7. WholeBuffers'
    BY <1>1, <2>2, <2>3, <2>5 DEF WholeBuffers, WholePipe
  <2> QED
    BY <1>1, <1>3, <2>5, <2>6, <2>7 DEF WriteFifo, IInv, TypeOK, Control,
       OverflowAccounting, appVars
<1>4. CASE BrokenPipe
  <2>1. RecorderEnds("killed")
        /\ UNCHANGED <<appVars, readerOpen, writerSeen, handler, running,
                       had_overflow, total, raised>>
    BY <1>4 DEF BrokenPipe
  <2>2. rec # "none"
    BY <1>1, <1>4 DEF BrokenPipe, Control
  <2> QED
    BY <1>1, <2>1, <2>2, ProcessEnd DEF IInv, TypeOK, Control,
       OverflowAccounting, appVars, RecStates
<1> QED
  BY <1>2, <1>3, <1>4 DEF Callback

(* The application takes a whole buffer or nothing. *)
LEMMA AppStep ==
  ASSUME IInv, AppLoop
  PROVE  IInv'
<1> USE ConstantsAssumption
<1>0. 0 \in 0 .. FifoPages
  BY DEF FifoPages
<1>1. TypeOK /\ Control /\ WholeBuffers /\ OverflowAccounting
      /\ frame \in {0, FramePages}
  BY DEF IInv
<1>2. CASE Build
  BY <1>1, <1>2, PipeKept DEF Build, IInv, TypeOK, Control, WholeBuffers,
     OverflowAccounting, fifoVars, recVars, AppStates, BuildOutput
<1>3. CASE Spawn \/ SpawnFails
  BY <1>1, <1>3, PipeKept DEF Spawn, SpawnFails, IInv, TypeOK, Control, WholeBuffers,
     OverflowAccounting, fifoVars, recVars, AppStates, RecStates
<1>4. CASE OpenReader \/ RegisterExit \/ Poll \/ ProcessEvents
  <2>1. /\ app' \in AppStates \ {"build", "spawn"}
        /\ readerOpen' \in BOOLEAN /\ registered' \in BOOLEAN
    BY <1>1, <1>4 DEF OpenReader, RegisterExit, Poll, ProcessEvents, TypeOK,
       fifoVars, AppStates
  <2>2. UNCHANGED <<exes, frame, fifo, writerOpen, writerSeen, recVars>>
    BY <1>4 DEF OpenReader, RegisterExit, Poll, ProcessEvents, fifoVars
  <2>3. WholePipe'
    BY <1>1, <2>2, PipeKept DEF WholeBuffers
  <2> QED
    BY <1>1, <2>1, <2>2, <2>3 DEF IInv, TypeOK, Control, WholeBuffers,
       OverflowAccounting, recVars
<1>5. CASE OnDataAvailable
  <2> DEFINE taken == Lesser(ReadPages, fifo)
  <2>1. PICK n \in 0 .. FifoFrames : fifo = n * FramePages
    BY <1>1 DEF WholeBuffers, WholePipe
  <2>2. /\ fifo \in 0 .. FifoPages /\ FifoPages \in Nat
        /\ frame' = taken /\ fifo' = fifo - taken
        /\ app' \in {"events", "exit"}
    BY <1>1, <1>5 DEF OnDataAvailable, TypeOK, FifoPages
  <2>3. UNCHANGED <<exes, registered, readerOpen, writerOpen, writerSeen,
                    recVars>>
    BY <1>5 DEF OnDataAvailable
  <2>4. CASE fifo = 0
    <3>1. taken = 0
      BY <2>4 DEF Lesser, ReadPages
    <3>2. fifo' = 0 /\ frame' = 0
      BY <2>2, <2>4, <3>1
    <3>3. WholePipe'
      BY <1>1, <3>2, PipeKept DEF WholeBuffers
    <3>4. frame' \in 0 .. FramePages
      BY <3>2
    <3> QED
      BY <1>0, <1>1, <2>2, <2>3, <3>2, <3>3, <3>4 DEF IInv, TypeOK,
         Control, WholeBuffers, OverflowAccounting, recVars, AppStates
  <2>5. CASE fifo > 0
    <3>1. n - 1 \in 0 .. FifoFrames /\ fifo - FramePages = (n - 1) * FramePages
          /\ fifo >= FramePages
      BY <2>1, <2>5, BufferArithmetic
    <3>2. taken = FramePages
      BY <2>2, <3>1 DEF Lesser, ReadPages
    <3>3. fifo' = (n - 1) * FramePages /\ frame' = FramePages
          /\ fifo' \in 0 .. FifoPages
      BY <2>2, <3>1, <3>2
    <3>4. WholePipe'
      BY <3>1, <3>3 DEF WholePipe
    <3>5. frame' \in 0 .. FramePages
      BY <3>3
    <3> QED
      BY <1>1, <2>2, <2>3, <3>3, <3>4, <3>5 DEF IInv, TypeOK,
         Control, WholeBuffers, OverflowAccounting, recVars, AppStates
  <2> QED
    BY <2>2, <2>4, <2>5
<1>6. CASE ExitTerminate
  <2>1. /\ app' = "close"
        /\ UNCHANGED <<exes, registered, frame, readerOpen, writerSeen,
                       handler, running, had_overflow, total, raised>>
    BY <1>6 DEF ExitTerminate
  <2>2. CASE registered /\ RecAlive
    <3>1. RecorderEnds("killed")
      BY <1>6, <2>2 DEF ExitTerminate
    <3> QED
      BY <1>1, <2>1, <3>1, ProcessEnd DEF IInv, TypeOK, Control,
         OverflowAccounting, AppStates, RecStates
  <2>3. CASE ~(registered /\ RecAlive)
    <3>1. UNCHANGED <<rec, cb, pending, writerOpen, fifo>>
      BY <1>6, <2>3 DEF ExitTerminate
    <3>2. WholePipe'
      BY <1>1, <3>1, PipeKept DEF WholeBuffers
    <3> QED
      BY <1>1, <2>1, <3>1, <3>2 DEF IInv, TypeOK, Control, WholeBuffers,
         OverflowAccounting, AppStates
  <2> QED
    BY <2>2, <2>3
<1>7. CASE ExitClose
  BY <1>0, <1>1, <1>7, PipeKept DEF ExitClose, AppEnds, IInv, TypeOK, Control,
     WholeBuffers, OverflowAccounting, recVars, AppStates
<1> QED
  BY <1>2, <1>3, <1>4, <1>5, <1>6, <1>7 DEF AppLoop

LEMMA UserStep ==
  ASSUME IInv, User
  PROVE  IInv'
<1> USE ConstantsAssumption
<1>0. 0 \in 0 .. FifoPages
  BY DEF FifoPages
<1>1. TypeOK /\ Control /\ WholeBuffers /\ OverflowAccounting
      /\ frame \in {0, FramePages}
  BY DEF IInv
<1>2. CASE CloseDialog \/ CloseWindow
  BY <1>1, <1>2, PipeKept DEF CloseDialog, CloseWindow, IInv, TypeOK, Control,
     WholeBuffers, OverflowAccounting, fifoVars, recVars, AppStates
<1>3. CASE AppKilled
  BY <1>0, <1>1, <1>3, PipeKept DEF AppKilled, AppEnds, IInv, TypeOK, Control,
     WholeBuffers, OverflowAccounting, recVars, AppStates
<1>4. ASSUME SigintRecorder PROVE
        /\ WholeBuffers' /\ fifo' \in 0 .. FifoPages
        /\ rec' \in RecStates /\ running' \in BOOLEAN
        /\ cb' \in {"off", "idle", "writing"} /\ pending' \in 0 .. FramePages
        /\ writerOpen' \in BOOLEAN
        /\ writerOpen' <=> rec' \in {"setup", "check", "sleeping", "stop",
                                    "join", "closefifo"}
        /\ cb' = "off" <=> rec' \notin {"check", "sleeping", "stop", "join"}
        /\ rec = "none" => rec' = "none"
  <2>1. CASE /\ RecorderEnds("killed") /\ RecAlive
             /\ UNCHANGED running
    BY <1>1, <2>1, ProcessEnd DEF RecAlive, TypeOK, RecStates
  <2>2. CASE /\ UNCHANGED <<rec, cb, pending, writerOpen, fifo>>
             /\ running' \in {running, FALSE}
    <3>1. WholePipe'
      BY <1>1, <2>2, PipeKept DEF WholeBuffers
    <3> QED
      BY <1>1, <2>2, <3>1 DEF TypeOK, Control, WholeBuffers
  <2> QED
    BY <1>4, <2>1, <2>2 DEF SigintRecorder
<1>5. CASE Sigint
  <2>1. SigintRecorder
        /\ UNCHANGED <<exes, app, registered, frame, readerOpen, writerSeen,
                       handler, had_overflow, total, raised>>
    BY <1>5 DEF Sigint, appVars
  <2> QED
    BY <1>1, <1>4, <2>1 DEF IInv, TypeOK, Control, OverflowAccounting
<1>6. CASE CtrlC
  <2>1. SigintRecorder /\ app' = "exit"
        /\ UNCHANGED <<exes, registered, frame, readerOpen, writerSeen,
                       handler, had_overflow, total, raised>>
    BY <1>6 DEF CtrlC
  <2> QED
    BY <1>1, <1>4, <2>1 DEF IInv, TypeOK, Control, OverflowAccounting,
       AppStates
<1> QED
  BY <1>2, <1>3, <1>5, <1>6 DEF User

LEMMA NextIInv == IInv /\ [Next]_vars => IInv'
<1> SUFFICES ASSUME IInv, [Next]_vars PROVE IInv'
  OBVIOUS
<1>1. CASE UNCHANGED vars \/ Finished
  <2>1. UNCHANGED vars
    BY <1>1 DEF Finished
  <2>2. WholePipe'
    BY <2>1, PipeKept DEF IInv, WholeBuffers, vars, fifoVars
  <2> QED
    BY <2>1, <2>2 DEF IInv, TypeOK, Control, WholeBuffers,
       OverflowAccounting, vars, appVars, fifoVars, recVars
<1> QED
  BY <1>1, MainStep, CallbackStep, AppStep, UserStep DEF Next

LEMMA Invariant == Spec => []IInv
  BY InitIInv, NextIInv, PTL DEF Spec

(* Every variable of the audio path keeps its type; in particular the FIFO *)
(* never holds more than its capacity and the counters stay bounded. *)
THEOREM TypeCorrect == Spec => []TypeOK
<1>1. IInv => TypeOK
  BY DEF IInv
<1> QED
  BY <1>1, Invariant, PTL

(* Whatever the buffer size and the capacity, as long as the capacity is a *)
(* whole number of buffers: every frame app.py analyses is a whole one, so *)
(* on_data_available never meets a spectrum of the wrong length. *)
THEOREM FramesAreFull == Spec => [](FullFrames /\ WholeBuffers)
<1>1. ASSUME IInv PROVE fifo > 0 => fifo >= FramePages
  <2>1. PICK n \in 0 .. FifoFrames : fifo = n * FramePages
    BY <1>1 DEF IInv, WholeBuffers, WholePipe
  <2> QED
    BY <2>1, BufferArithmetic
<1>2. IInv => FullFrames /\ WholeBuffers
  BY <1>1 DEF IInv, FullFrames
<1> QED
  BY <1>2, Invariant, PTL

(* Each overflow the device raised is counted exactly once, or waits in    *)
(* had_overflow for the main thread. *)
THEOREM OverflowsAccounted == Spec => []OverflowAccounting
<1>1. IInv => OverflowAccounting
  BY DEF IInv
<1> QED
  BY <1>1, Invariant, PTL

(* The callback thread never outlives the recorder's end of the FIFO. *)
THEOREM CallbackSafe == Spec => []CallbackHasFifo
<1>1. IInv => CallbackHasFifo
  BY DEF IInv, TypeOK, Control, CallbackHasFifo, RecAlive, RecEnded
<1> QED
  BY <1>1, Invariant, PTL
=============================================================================
