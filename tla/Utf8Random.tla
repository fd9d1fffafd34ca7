------------------------------ MODULE Utf8Random ------------------------------
(***************************************************************************)
(* utf8_random_string: the loop that fills a buffer with random characters *)
(* of one to four bytes. The text of module Utf8 is what the buffer holds. *)
(* A character that is not allowed is drawn again, which changes nothing.  *)
(***************************************************************************)
EXTENDS Utf8

CONSTANTS Drawn    \* the runes that the four ranges of the code may give

RandomAssumption ==
  \A u \in Drawn : u \in 32..126 \/ u \in 160..MaxRune

VARIABLES capacity, minLen,
          target,  \* bytes to write at least; -1 before it is chosen
          pc       \* "call", "loop" or "done"

randomVars == <<text, capacity, minLen, target, pc>>

MaxBytes == capacity - 1

RandomInit ==
  /\ text = <<>> /\ target = -1 /\ pc = "call"
  /\ capacity \in -1..MaxLen /\ minLen \in -1..MaxLen

\* The target is the least length, or any length from there to the capacity.
Begin ==
  /\ pc = "call"
  /\ IF capacity <= 0 THEN pc' = "done" /\ UNCHANGED target
     ELSE pc' = "loop" /\ target' \in Min({minLen, MaxBytes})..MaxBytes
  /\ UNCHANGED <<text, capacity, minLen>>

Allowed(u) == u # UTF_INVALID /\ u \notin Surrogates

Loop == pc = "loop" /\ Len(text) < target

\* An allowed character is written if it fits, else an ASCII character is if
\* one fits, else the loop ends.
Draw ==
  /\ Loop
  /\ \E u \in Drawn, ascii \in Drawn \cap 32..126 :
       /\ Allowed(u)
       /\ text' = IF Len(text) + Len(Encode(u)) <= MaxBytes THEN text \o Encode(u)
                  ELSE IF Len(text) + 1 <= MaxBytes THEN text \o <<ascii>>
                  ELSE text
       /\ pc' = IF Len(text) + 1 <= MaxBytes THEN "loop" ELSE "done"
  /\ UNCHANGED <<capacity, minLen, target>>

\* The terminator is written after the text.
Terminate ==
  /\ pc = "loop" /\ Len(text) >= target
  /\ pc' = "done"
  /\ UNCHANGED <<text, capacity, minLen, target>>

RandomNext == Begin \/ Draw \/ Terminate

\* The generator gives an allowed character at some time.
RandomSpec ==
  RandomInit /\ [][RandomNext]_randomVars /\ WF_randomVars(RandomNext)

-----------------------------------------------------------------------------
\* The variables of utf8_random_string keep their types; nothing is written
\* without a buffer.
RandomTypeOK ==
  /\ text \in Seq(1..255)
  /\ pc \in {"call", "loop", "done"}
  /\ target \in -1..MaxLen - 1
  /\ capacity <= 0 => text = <<>>

\* The text is valid at every step, holds no terminator, and leaves room for
\* one, whatever characters were drawn and wherever the capacity ends.
RandomIsValid ==
  /\ Valid(text) /\ 0 \notin {text[i] : i \in 1..Len(text)}
  /\ capacity > 0 => Len(text) < capacity

\* The text has the length that was asked for, or what the capacity allows.
RandomReachesMinimum ==
  pc = "done" /\ capacity > 0 => Len(text) >= Min({minLen, capacity - 1})

\* The loop ends: every character that is drawn takes it nearer to the target.
RandomReturns == <>(pc = "done")
=============================================================================
