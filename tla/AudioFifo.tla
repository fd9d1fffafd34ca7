------------------------------ MODULE AudioFifo ------------------------------
(***************************************************************************)
(* The audio path of spoke_pluck_tension: the recorder process             *)
(* (audio_to_fifo.c, its main thread and the RtAudio callback thread), the *)
(* FIFO /tmp/audio_fifo, and the main loop of the application (app.py).    *)
(*                                                                         *)
(* The FIFO is the kernel's: its two ends are opened and closed, a read or *)
(* a write moves as many pages as it can under the pipe's lock, a writer   *)
(* blocks while it is full, and a write without a reader kills the writer  *)
(* with SIGPIPE.  Audio data is abstracted to a number of pages, and the   *)
(* spectrum computed from a frame to the number of pages it was read from. *)
(***************************************************************************)
EXTENDS Integers

CONSTANTS
  FramePages,    (* pages of one buffer: FRAMES_PER_BUFFER 16-bit samples  *)
  FifoFrames,    (* capacity of the FIFO, in whole buffers                 *)
  MaxOverflows   (* bound on the overflow flags the device raises          *)

ASSUME ConstantsAssumption ==
  /\ FramePages \in Nat \ {0}
  /\ FifoFrames \in Nat \ {0}
  /\ MaxOverflows \in Nat

FifoPages == FifoFrames * FramePages

VARIABLES
  exes,         (* the executables that exist in the repository            *)
  app,          (* control point of app.py                                 *)
  registered,   (* app.py: the two atexit handlers are registered          *)
  frame,        (* app.py: pages of the last non-blocking read             *)
  readerOpen,   (* app.py holds the FIFO open for reading                  *)
  fifo,         (* pages in the FIFO                                       *)
  writerOpen,   (* the recorder holds the FIFO open for writing            *)
  writerSeen,   (* some writer has opened the FIFO since the reader did    *)
  rec,          (* control point of the recorder's main thread             *)
  handler,      (* recorder: the SIGINT handler is installed               *)
  running,      (* recorder: the flag the SIGINT handler clears            *)
  cb,           (* the callback thread                                     *)
  pending,      (* pages of the current buffer write64 has still to write  *)
  had_overflow, (* recorder: overflows since the last check (atomic)       *)
  total,        (* recorder: overflows counted by the main thread          *)
  raised        (* history: overflow flags the device has raised           *)

appVars  == <<exes, app, registered, frame>>
fifoVars == <<readerOpen, fifo, writerOpen, writerSeen>>
recVars  == <<rec, handler, running, cb, pending, had_overflow, total, raised>>
vars     == <<appVars, fifoVars, recVars>>

CfileName   == "./audio_to_fifo"      \* what app.py launches
BuildOutput == "bin/audio_to_fifo"    \* what build.sh writes

AppStates == {"build", "spawn", "open", "register", "poll", "read", "events",
              "dialog", "exit", "close", "notfound", "gone"}
RecStates == {"none", "start", "opening", "setup", "check", "sleeping",
              "stop", "join", "closefifo", "return", "exited", "failed", "killed"}

RecEnded  == rec \in {"exited", "failed", "killed"}
RecAlive  == rec # "none" /\ ~RecEnded
AppEnded  == app \in {"gone", "notfound"}
AppInPython == ~AppEnded /\ app # "dialog"

(* Fewer of two page counts: what one read or write of a pipe can move.    *)
Lesser(m, n) == IF m <= n THEN m ELSE n

TypeOK ==
  /\ exes \in SUBSET {CfileName, BuildOutput}
  /\ app \in AppStates
  /\ registered \in BOOLEAN
  /\ frame \in 0 .. FramePages
  /\ readerOpen \in BOOLEAN
  /\ fifo \in 0 .. FifoPages
  /\ writerOpen \in BOOLEAN
  /\ writerSeen \in BOOLEAN
  /\ rec \in RecStates
  /\ handler \in BOOLEAN
  /\ running \in BOOLEAN
  /\ cb \in {"off", "idle", "writing"}
  /\ pending \in 0 .. FramePages
  /\ had_overflow \in 0 .. MaxOverflows
  /\ total \in 0 .. MaxOverflows
  /\ raised \in 0 .. MaxOverflows

(* The repository may be a fresh clone, or still hold the executable an    *)
(* older build left next to app.py (.gitignore lists it).                  *)
Init ==
  /\ exes \in {{}, {CfileName}}
  /\ app = "build"
  /\ registered = FALSE
  /\ frame = 0
  /\ readerOpen = FALSE
  /\ fifo = 0
  /\ writerOpen = FALSE
  /\ writerSeen = FALSE
  /\ rec = "none"
  /\ handler = FALSE
  /\ running = TRUE
  /\ cb = "off"
  /\ pending = 0
  /\ had_overflow = 0
  /\ total = 0
  /\ raised = 0
-----------------------------------------------------------------------------
(* The recorder. *)

(* What the end of the recorder's process does to its threads and to its   *)
(* end of the FIFO; the kernel drops the data once both ends are closed.   *)
RecorderEnds(how) ==
  /\ rec' = how
  /\ cb' = "off"
  /\ pending' = 0
  /\ writerOpen' = FALSE
  /\ fifo' = IF readerOpen THEN fifo ELSE 0

(* signal(SIGINT, sigint_handler) *)
InstallHandler ==
  /\ rec = "start"
  /\ handler' = TRUE
  /\ rec' = "opening"
  /\ UNCHANGED <<appVars, fifoVars, running, cb, pending, had_overflow, total,
                 raised>>

(* open(FIFO_PATH, O_WRONLY) returns once there is a reader.  The handler  *)
(* is installed with SA_RESTART, so SIGINT does not interrupt it.          *)
OpenWriter ==
  /\ rec = "opening"
  /\ readerOpen
  /\ writerOpen' = TRUE
  /\ writerSeen' = TRUE
  /\ rec' = "setup"
  /\ UNCHANGED <<appVars, readerOpen, fifo, handler, running, cb, pending,
                 had_overflow, total, raised>>

(* ... or it fails at once, where FIFO_PATH is gone or may not be written,  *)
(* and the recorder exits.  Not a step of RecorderMain: an open that waits *)
(* for its reader need never fail. *)
OpenWriterFails ==
  /\ rec = "opening"
  /\ RecorderEnds("failed")
  /\ UNCHANGED <<appVars, readerOpen, writerSeen, handler, running,
                 had_overflow, total, raised>>

(* rtaudio_create, rtaudio_open_stream and rtaudio_start_stream succeed... *)
StartStream ==
  /\ rec = "setup"
  /\ rec' = "check"
  /\ cb' = "idle"
  /\ UNCHANGED <<appVars, fifoVars, handler, running, pending, had_overflow,
                 total, raised>>

(* ... or one of them fails and the recorder exits. *)
StartStreamFails ==
  /\ rec = "setup"
  /\ RecorderEnds("failed")
  /\ UNCHANGED <<appVars, readerOpen, writerSeen, handler, running,
                 had_overflow, total, raised>>

(* while (running) { sleep(OVERFLOW_CHECK_INTERVAL); ... *)
CheckRunning ==
  /\ rec = "check"
  /\ rec' = IF running THEN "sleeping" ELSE "stop"
  /\ UNCHANGED <<appVars, fifoVars, handler, running, cb, pending,
                 had_overflow, total, raised>>

(* overflow_count = atomic_exchange(&had_overflow, 0), added to total.     *)
CountOverflows ==
  /\ rec = "sleeping"
  /\ had_overflow' = 0
  /\ total' = total + had_overflow
  /\ rec' = "check"
  /\ UNCHANGED <<appVars, fifoVars, handler, running, cb, pending, raised>>

(* rtaudio_stop_stream: no callback starts any more. *)
StopStream ==
  /\ rec = "stop"
  /\ rec' = "join"
  /\ UNCHANGED <<appVars, fifoVars, handler, running, cb, pending,
                 had_overflow, total, raised>>

(* Mutant: the stream is closed without waiting for its thread. *)
CloseStream_NoJoin ==
  /\ rec = "join"
  /\ rec' = "closefifo"
  /\ UNCHANGED <<appVars, fifoVars, handler, running, cb, pending,
                 had_overflow, total, raised>>

(* rtaudio_close_stream joins the callback thread; rtaudio_destroy. *)
CloseStream ==
  /\ rec = "join"
  /\ cb = "idle"
  /\ cb' = "off"
  /\ rec' = "closefifo"
  /\ UNCHANGED <<appVars, fifoVars, handler, running, pending, had_overflow,
                 total, raised>>

(* close(fifo) *)
CloseFifo ==
  /\ rec = "closefifo"
  /\ rec' = "return"
  /\ writerOpen' = FALSE
  /\ fifo' = IF readerOpen THEN fifo ELSE 0
  /\ UNCHANGED <<appVars, readerOpen, writerSeen, handler, running, cb,
                 pending, had_overflow, total, raised>>

(* return 0 *)
ReturnMain ==
  /\ rec = "return"
  /\ RecorderEnds("exited")
  /\ UNCHANGED <<appVars, readerOpen, writerSeen, handler, running,
                 had_overflow, total, raised>>

(* Mutants: a store where the code adds; a length in samples where write64 *)
(* expects bytes. *)
RecordCallback_Store(flags) ==
  /\ rec \in {"check", "sleeping", "stop"}
  /\ cb = "idle"
  /\ raised + flags <= MaxOverflows
  /\ raised' = raised + flags
  /\ had_overflow' = flags
  /\ pending' = FramePages
  /\ cb' = "writing"
  /\ UNCHANGED <<appVars, fifoVars, rec, handler, running, total>>

(* record_callback, up to its write64: the overflow and the underflow flag *)
(* each add one, and a whole buffer (the device's, or the dummy one when   *)
(* it delivered none) is to be written.  The device grants the buffer size *)
(* the program asks for.                                                   *)
RecordCallback(flags) ==
  /\ rec \in {"check", "sleeping", "stop"}
  /\ cb = "idle"
  /\ raised + flags <= MaxOverflows
  /\ raised' = raised + flags
  /\ had_overflow' = had_overflow + flags
  /\ pending' = FramePages
  /\ cb' = "writing"
  /\ UNCHANGED <<appVars, fifoVars, rec, handler, running, total>>

(* The blocking write of the callback: it moves what fits and returns when *)
(* all of it is written. *)
WriteFifo ==
  /\ cb = "writing"
  /\ readerOpen
  /\ fifo < FifoPages
  /\ LET n == Lesser(pending, FifoPages - fifo) IN
       /\ fifo' = fifo + n
       /\ pending' = pending - n
       /\ cb' = IF n = pending THEN "idle" ELSE "writing"
  /\ UNCHANGED <<appVars, readerOpen, writerOpen, writerSeen, rec, handler,
                 running, had_overflow, total, raised>>

(* Mutant: the recorder ignores SIGPIPE and write64 fails with EPIPE. *)
BrokenPipe_Ignored ==
  /\ cb = "writing"
  /\ ~readerOpen
  /\ pending' = 0
  /\ cb' = "idle"
  /\ UNCHANGED <<appVars, fifoVars, rec, handler, running, had_overflow,
                 total, raised>>

(* A write to a FIFO that nobody reads: SIGPIPE ends the recorder. *)
BrokenPipe ==
  /\ cb = "writing"
  /\ ~readerOpen
  /\ RecorderEnds("killed")
  /\ UNCHANGED <<appVars, readerOpen, writerSeen, handler, running,
                 had_overflow, total, raised>>
-----------------------------------------------------------------------------
(* The application. *)

(* subprocess.run(["./build.sh"]), with the FIFO made just before. *)
Build ==
  /\ app = "build"
  /\ \/ /\ app' = "spawn"
        /\ exes' = exes \cup {BuildOutput}
     \/ /\ app' = "gone"
        /\ UNCHANGED exes
  /\ UNCHANGED <<registered, frame, fifoVars, recVars>>

(* subprocess.Popen: FileNotFoundError if there is no such executable. *)
Spawn ==
  /\ app = "spawn"
  /\ CfileName \in exes
  /\ app' = "open"
  /\ rec' = "start"
  /\ UNCHANGED <<exes, registered, frame, fifoVars, handler, running, cb,
                 pending, had_overflow, total, raised>>

SpawnFails ==
  /\ app = "spawn"
  /\ CfileName \notin exes
  /\ app' = "notfound"
  /\ UNCHANGED <<exes, registered, frame, fifoVars, recVars>>

(* os.open(fifo_path, O_RDONLY | O_NONBLOCK) does not wait for a writer. *)
OpenReader ==
  /\ app = "open"
  /\ readerOpen' = TRUE
  /\ app' = "register"
  /\ UNCHANGED <<exes, registered, frame, fifo, writerOpen, writerSeen,
                 recVars>>

(* atexit.register, twice; then the main loop. *)
RegisterExit ==
  /\ app = "register"
  /\ registered' = TRUE
  /\ app' = "poll"
  /\ UNCHANGED <<exes, frame, fifoVars, recVars>>

(* poller.poll(1000): data, or the hang-up of a writer that is gone, makes *)
(* the descriptor ready. *)
PollReady == fifo > 0 \/ (writerSeen /\ ~writerOpen)

Poll ==
  /\ app = "poll"
  /\ app' = IF PollReady THEN "read" ELSE "events"
  /\ UNCHANGED <<exes, registered, frame, fifoVars, recVars>>

(* Mutant: FRAMES_PER_BUFFER bytes, half a buffer of 16-bit samples. *)
ReadPages_Samples == FramePages \div 2

(* What on_data_available asks for, FRAMES_PER_BUFFER*2 bytes.  The reader *)
(* object repeats a read the kernel answers short; it never has to here,   *)
(* see FullFrames. *)
ReadPages == FramePages

(* on_data_available: nothing is returned on end of file; a frame that is  *)
(* not a whole buffer has a spectrum of another length than the smoothed   *)
(* one, and numpy raises ValueError. *)
OnDataAvailable ==
  /\ app = "read"
  /\ LET n == Lesser(ReadPages, fifo) IN
       /\ frame' = n
       /\ fifo' = fifo - n
       /\ app' = IF n \in {0, FramePages} THEN "events" ELSE "exit"
  /\ UNCHANGED <<exes, registered, readerOpen, writerOpen, writerSeen,
                 recVars>>

(* QApplication.processEvents(): an invalid spoke length opens a modal     *)
(* warning, and the loop stays inside processEvents while it is shown. *)
ProcessEvents ==
  /\ app = "events"
  /\ app' \in {"poll", "dialog"}
  /\ UNCHANGED <<exes, registered, frame, fifoVars, recVars>>

CloseDialog ==
  /\ app = "dialog"
  /\ app' = "poll"
  /\ UNCHANGED <<exes, registered, frame, fifoVars, recVars>>

(* The window is no longer visible: the loop ends. *)
CloseWindow ==
  /\ app = "poll"
  /\ app' = "exit"
  /\ UNCHANGED <<exes, registered, frame, fifoVars, recVars>>

(* What the end of the application's process does to its end of the FIFO. *)
AppEnds ==
  /\ app' = "gone"
  /\ readerOpen' = FALSE
  /\ fifo' = IF writerOpen THEN fifo ELSE 0

(* The exit handlers run last registered first: fifo_proc.terminate (the   *)
(* recorder does not handle SIGTERM), then fifo_file.close. *)
ExitTerminate ==
  /\ app = "exit"
  /\ app' = "close"
  /\ IF registered /\ RecAlive
     THEN RecorderEnds("killed")
     ELSE UNCHANGED <<rec, cb, pending, writerOpen, fifo>>
  /\ UNCHANGED <<exes, registered, frame, readerOpen, writerSeen, handler,
                 running, had_overflow, total, raised>>

ExitClose ==
  /\ app = "close"
  /\ AppEnds
  /\ UNCHANGED <<exes, registered, frame, writerOpen, writerSeen, recVars>>

(* The application is killed: no exit handler runs. *)
AppKilled ==
  /\ ~AppEnded
  /\ AppEnds
  /\ UNCHANGED <<exes, registered, frame, writerOpen, writerSeen, recVars>>
-----------------------------------------------------------------------------
(* SIGINT to the recorder: the handler clears `running`; before it is      *)
(* installed the signal kills the process. *)
SigintRecorder ==
  \/ /\ RecAlive /\ handler
     /\ running' = FALSE
     /\ UNCHANGED <<rec, cb, pending, writerOpen, fifo>>
  \/ /\ RecAlive /\ ~handler
     /\ RecorderEnds("killed")
     /\ UNCHANGED running
  \/ /\ ~RecAlive
     /\ UNCHANGED <<rec, cb, pending, writerOpen, fifo, running>>

Sigint ==
  /\ RecAlive
  /\ SigintRecorder
  /\ UNCHANGED <<appVars, readerOpen, writerSeen, handler, had_overflow,
                 total, raised>>

(* Ctrl+C in the terminal reaches both processes; in app.py it raises      *)
(* KeyboardInterrupt, unless a dialog keeps the interpreter inside Qt. *)
CtrlC ==
  /\ AppInPython
  /\ app \notin {"exit", "close"}
  /\ app' = "exit"
  /\ SigintRecorder
  /\ UNCHANGED <<exes, registered, frame, readerOpen, writerSeen, handler,
                 had_overflow, total, raised>>

(* Both processes are gone, for good. *)
Finished ==
  /\ AppEnded
  /\ ~RecAlive
  /\ UNCHANGED vars

RecorderMain ==
  \/ InstallHandler \/ OpenWriter \/ StartStream \/ StartStreamFails
  \/ CheckRunning \/ CountOverflows \/ StopStream \/ CloseStream \/ CloseFifo
  \/ ReturnMain

Callback ==
  \/ \E flags \in 0 .. 2 : RecordCallback(flags)
  \/ WriteFifo
  \/ BrokenPipe

AppLoop ==
  \/ Build \/ Spawn \/ SpawnFails \/ OpenReader \/ RegisterExit
  \/ Poll \/ OnDataAvailable \/ ProcessEvents \/ ExitTerminate \/ ExitClose

User == CloseDialog \/ CloseWindow \/ AppKilled \/ Sigint \/ CtrlC

Next == RecorderMain \/ OpenWriterFails \/ Callback \/ AppLoop \/ User \/ Finished

(* Each thread of control is scheduled whenever it can run.  The user is   *)
(* not: nobody has to close a window or a dialog. *)
Fairness ==
  /\ WF_vars(RecorderMain)
  /\ WF_vars(Callback)
  /\ WF_vars(AppLoop)

Spec == Init /\ [][Next]_vars /\ Fairness
-----------------------------------------------------------------------------
(* Properties. *)

(* Every read of the application returns nothing or a whole buffer,        *)
(* although the callback's writes and the reads are cut wherever the pipe  *)
(* is full or empty: a shorter frame would crash on_data_available, whose  *)
(* smoothed spectrum has the length of a whole one. *)
FullFrames ==
  /\ frame \in {0, FramePages}
  /\ (app = "read" /\ fifo > 0) => fifo >= FramePages

(* What FullFrames rests on: the pipe and the unwritten rest of the        *)
(* callback's buffer hold whole buffers whenever the pipe lock is free. *)
WholePipe == \E n \in 0 .. FifoFrames : fifo = n * FramePages

WholeBuffers ==
  /\ WholePipe
  /\ pending \in {0, FramePages}
  /\ pending = FramePages <=> cb = "writing"

(* The callback thread adds to the counter the main thread drains: no      *)
(* overflow the device raised is lost, and none is counted twice. *)
OverflowAccounting == had_overflow + total = raised

(* The callback writes to a descriptor its own process still has open:     *)
(* main joins the callback thread before it closes the FIFO. *)
CallbackHasFifo == cb # "off" => writerOpen /\ RecAlive

(* The application always gets past its start: opening the FIFO for        *)
(* reading cannot wait for a recorder that died before it opened it. *)
AppReachesLoop == (app = "spawn") ~> (app = "poll" \/ AppEnded)

(* A recorder whose application is gone, killed without its exit handlers, *)
(* ends too: its next write finds no reader. *)
RecorderFollowsApp == (app = "gone" /\ writerOpen) ~> RecEnded

(* A callback blocked on a full FIFO is let go, unless a modal warning     *)
(* keeps the application from reading. *)
CallbackUnblocked ==
  (cb = "writing" /\ fifo = FifoPages)
    ~> (fifo < FifoPages \/ cb = "off" \/ app = "dialog")

(* SIGINT stops the recorder, which has to join a callback that may be     *)
(* blocked.  Two cases escape it: a warning shown all along, and a recorder *)
(* still opening the FIFO when the application is gone. *)
SigintStops ==
  ~running ~> (RecEnded \/ app = "dialog" \/ (rec = "opening" /\ AppEnded))

(* However the processes start, are interrupted and die, none of them nor  *)
(* the audio thread waits for one that will not answer any more. *)
NobodyWaitsForEver ==
  AppReachesLoop /\ RecorderFollowsApp /\ CallbackUnblocked /\ SigintStops

(* README.md: after cloning and installing the requirements, app.py is     *)
(* all there is to run.  So the build leaves what app.py launches. *)
BuildThenLaunch == app # "notfound"
=============================================================================
