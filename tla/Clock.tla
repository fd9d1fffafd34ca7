-------------------------------- MODULE Clock --------------------------------
(***************************************************************************)
(* time.c: sleeping on Unix, where signals interrupt, and on Windows and   *)
(* Emscripten, where whole milliseconds are slept; and the monotonic clock *)
(* of Windows. The units are scaled down: a nanosecond is 1.               *)
(***************************************************************************)
EXTENDS Integers, FiniteSetsExt

CONSTANTS NsPerUs, NsPerMs, NsPerSec,
          MaxInt,        \* INT64_MAX
          MaxMs,         \* UINT32_MAX, the longest single sleep of Windows
          Frequencies    \* ticks per second that the hardware may have

ClockAssumption ==
  /\ {NsPerUs, NsPerMs, NsPerSec, MaxMs} \subseteq Nat \ {0}
  /\ MaxInt \in Nat /\ Frequencies \subseteq Nat \ {0}

VARIABLES
  os,       \* "unix" or "milliseconds"
  unit,     \* of the call: sleep_ns, sleep_us or sleep_ms
  amount,   \* what the caller asks for
  left,     \* nanoseconds still to sleep
  elapsed,  \* nanoseconds slept
  tick,     \* the performance counter and its frequency
  pc        \* "call", "sleep" or "done"

vars == <<os, unit, amount, left, elapsed, tick, pc>>

Init ==
  /\ os \in {"unix", "milliseconds"}
  /\ unit \in {1, NsPerUs, NsPerMs} /\ amount \in -1..MaxInt
  /\ left = 0 /\ elapsed = 0 /\ pc = "call"
  /\ tick \in [count : {0}, frequency : Frequencies]

\* sleep_us and sleep_ms: what does not fit is the longest sleep there is.
Nanoseconds(n) == IF n > MaxInt \div unit THEN MaxInt ELSE n * unit

\* The hardware counts on while time goes by.
Ticks(ns) ==
  tick' = [tick EXCEPT !.count = ((elapsed + ns) * tick.frequency) \div NsPerSec]

Begin ==
  /\ pc = "call"
  /\ left' = IF amount <= 0 THEN 0 ELSE Nanoseconds(amount)
  /\ pc' = IF amount <= 0 THEN "done" ELSE "sleep"
  /\ UNCHANGED <<os, unit, amount, elapsed, tick>>

\* nanosleep sleeps the whole time, after which the loop ends.
SleepWhole ==
  /\ os = "unix" /\ pc = "sleep"
  /\ elapsed' = elapsed + left /\ left' = 0 /\ Ticks(left) /\ pc' = "done"
  /\ UNCHANGED <<os, unit, amount>>

\* A signal interrupts nanosleep, which tells what remains.
Interrupted ==
  /\ os = "unix" /\ pc = "sleep"
  /\ \E slept \in 1..left - 1 :
       elapsed' = elapsed + slept /\ left' = left - slept /\ Ticks(slept)
  /\ UNCHANGED <<os, unit, amount, pc>>

\* One sleep of whole milliseconds, rounded up.
Milliseconds(ns) == (Min({ns, MaxMs * NsPerMs}) + NsPerMs - 1) \div NsPerMs

SleepChunk ==
  /\ os = "milliseconds" /\ pc = "sleep" /\ left > 0
  /\ LET slept == Milliseconds(left) * NsPerMs
     IN elapsed' = elapsed + slept /\ left' = left - slept /\ Ticks(slept)
  /\ pc' = IF left' > 0 THEN "sleep" ELSE "done"
  /\ UNCHANGED <<os, unit, amount>>

Next == Begin \/ SleepWhole \/ Interrupted \/ SleepChunk

\* Time goes by.
Spec == Init /\ [][Next]_vars /\ WF_vars(Next)

\* Mutant: the whole counter is taken for the remainder.
Monotonic_WholeCounter(t) ==
  [sec |-> t.count \div t.frequency, nsec |-> (t.count * NsPerSec) \div t.frequency]

\* windows_time_monotonic
Monotonic(t) ==
  [sec  |-> t.count \div t.frequency,
   nsec |-> ((t.count % t.frequency) * NsPerSec) \div t.frequency]

-----------------------------------------------------------------------------
\* What the caller may expect: the longest sleep stands for anything longer.
Wanted == IF amount <= 0 THEN 0 ELSE Min({amount * unit, MaxInt})

\* No number of the sleep functions leaves its width, although a caller may
\* ask for any int64; rounding takes the rest at most a millisecond below zero.
TypeOK ==
  /\ left \in 1 - NsPerMs..MaxInt
  /\ pc \in {"call", "sleep", "done"}
  /\ pc = "sleep" => elapsed + left = Wanted

\* The sleep is as long as the caller asked, however often signals interrupt
\* it or chunks end, and less than a millisecond longer.
SleepsLongEnough ==
  pc = "done" =>
    /\ elapsed >= Wanted
    /\ elapsed < Wanted + NsPerMs

\* The clock that Windows gives shows nanoseconds below a second, and time
\* that passes never sets it back.
ClockIsMonotonic ==
  [][LET a == Monotonic(tick)  b == Monotonic(tick)'
     IN /\ b.nsec \in 0..NsPerSec - 1
        /\ a.sec < b.sec \/ (a.sec = b.sec /\ a.nsec <= b.nsec)]_vars

\* Every sleep ends.
SleepEnds == <>(pc = "done")
=============================================================================
