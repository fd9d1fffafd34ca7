------------------------------- MODULE Tuner --------------------------------
(***************************************************************************)
(* The tuner of app.py and spokes.py: the frames of the recorder, between  *)
(* which the handlers of the sliders and of the spoke length run, all in   *)
(* the application's loop.                                                 *)
(*                                                                         *)
(* A frame is what numpy and scipy find in a buffer: frequencies of the    *)
(* highest peaks of its autocorrelation, highest first, and peaks of its   *)
(* spectrum with their amplitudes.  One without a peak of the first kind,  *)
(* or read while the FIFO is empty, changes nothing here.                  *)
(***************************************************************************)
EXTENDS Integers, Sequences, FiniteSets, FiniteSetsExt

CONSTANTS
  Lengths,      (* spoke lengths the input accepts                         *)
  Stiffness,    (* 4 * length^2 * MU_STEEL_2mm, in parts of one over Unit  *)
  Unit,
  TENSION_MIN, TENSION_AVG, TENSION_MAX,
  SAMPLE_RATE,
  Frequencies,  (* bound: what a frequency rounds to                       *)
  Levels,       (* amplitudes, and thresholds of the Y scale               *)
  npeaks_corr, npeaks_fft,
  Tolerance,    (* RESOLUTION+8                                            *)
  hold_duration,
  MaxTime,      (* bound: of the clock                                     *)
  None

ASSUME ConstantsAssumption ==
  /\ Stiffness \in [Lengths -> Nat \ {0}]
  /\ Unit \in Nat \ {0}
  /\ TENSION_MIN \in Nat /\ TENSION_AVG \in Nat /\ TENSION_MAX \in Nat
  /\ TENSION_MIN <= TENSION_AVG /\ TENSION_AVG <= TENSION_MAX
  /\ SAMPLE_RATE \in Nat \ {0}
  /\ Frequencies \subseteq Nat \ {0}
  /\ Levels \subseteq Nat
  /\ hold_duration \in Nat

VARIABLES
  length,                         (* SPOKE_LENGTH                          *)
  min_slider, max_slider,
  frequency_min, frequency_max, min_lag, max_lag,
  amplitude_min,
  last,         (* last_fundamental and last_tension, as peak_text shows   *)
  last_time,
  now           (* the clock                                               *)

range == <<frequency_min, frequency_max, min_lag, max_lag>>
controls == <<length, min_slider, max_slider, amplitude_min>>
vars == <<controls, range, last, last_time, now>>

Peaks == [frequency : Frequencies, level : Levels]
Shown == [fundamental : Frequencies, tension : Nat]

TypeOK ==
  /\ length \in Lengths
  /\ min_slider \in TENSION_MIN .. TENSION_AVG
  /\ max_slider \in TENSION_AVG .. TENSION_MAX
  /\ frequency_min \in Frequencies /\ frequency_max \in Frequencies
  /\ min_lag \in Nat /\ max_lag \in Nat
  /\ amplitude_min \in Levels
  /\ last \in Shown \cup {None}
  /\ last_time \in Nat /\ now \in Nat
-----------------------------------------------------------------------------
(* round and np.round: to the nearest integer, to the even one of two. *)
Round(a, b) ==
  LET twice == 2 * (a % b)
  IN IF twice < b \/ (twice = b /\ (a \div b) % 2 = 0) THEN a \div b ELSE a \div b + 1

(* spokes.tension and spokes.frequency.  The latter rounds an irrational   *)
(* number: it is the f with f - 1/2 <= sqrt(t / (4 l^2 mu)) <= f + 1/2.    *)
Tension(f, l) == Round(Stiffness[l] * f * f, Unit)

Frequency(t, l) ==
  {f \in Frequencies :
     /\ (2 * f - 1) * (2 * f - 1) * Stiffness[l] <= 4 * t * Unit
     /\ 4 * t * Unit <= (2 * f + 1) * (2 * f + 1) * Stiffness[l]}

(* Mutant: the new length is used by the next frames only. *)
OnSliderChanged_Later(l, t0, t1) == UNCHANGED range

(* on_slider_changed *)
OnSliderChanged(l, t0, t1) ==
  /\ frequency_min' \in Frequency(t0, l)
  /\ frequency_max' \in Frequency(t1, l)
  /\ min_lag' = Round(SAMPLE_RATE, frequency_max')
  /\ max_lag' = Round(SAMPLE_RATE, frequency_min')

Init ==
  /\ length \in Lengths
  /\ min_slider = TENSION_MIN
  /\ max_slider = TENSION_MAX
  /\ frequency_min \in Frequency(min_slider, length)
  /\ frequency_max \in Frequency(max_slider, length)
  /\ min_lag = Round(SAMPLE_RATE, frequency_max)
  /\ max_lag = Round(SAMPLE_RATE, frequency_min)
  /\ amplitude_min \in Levels
  /\ last = None
  /\ last_time = 0 /\ now = 0

MoveMinSlider(t) ==
  /\ t # min_slider
  /\ min_slider' = t
  /\ OnSliderChanged(length, t, max_slider)
  /\ UNCHANGED <<length, max_slider, amplitude_min, last, last_time, now>>

MoveMaxSlider(t) ==
  /\ t # max_slider
  /\ max_slider' = t
  /\ OnSliderChanged(length, min_slider, t)
  /\ UNCHANGED <<length, min_slider, amplitude_min, last, last_time, now>>

(* on_yscale_changed *)
MoveYScale(level) ==
  /\ level # amplitude_min
  /\ amplitude_min' = level
  /\ UNCHANGED <<length, min_slider, max_slider, range, last, last_time, now>>

(* on_spoke_length_changed with a length that is accepted. *)
OnSpokeLengthChanged(l) ==
  /\ length' = l
  /\ OnSliderChanged(l, min_slider, max_slider)
  /\ UNCHANGED <<min_slider, max_slider, amplitude_min, last, last_time, now>>
-----------------------------------------------------------------------------
(* A peak of corr[min_lag:max_lag] is inside it, and its interpolation is  *)
(* within half a lag.                                                      *)
CorrFrequencies ==
  {f \in Frequencies :
     \E lag \in min_lag + 1 .. max_lag - 2 :
       /\ (2 * f - 1) * (2 * lag - 1) <= 4 * SAMPLE_RATE
       /\ 4 * SAMPLE_RATE <= (2 * f + 1) * (2 * lag + 1)}

FundamentalsCorr == UNION {[1 .. n -> CorrFrequencies] : n \in 1 .. npeaks_corr}

FundamentalsFft == UNION {kSubset(n, Peaks) : n \in 0 .. npeaks_fft}

(* Mutant: the ends of the range belong to it. *)
InRange_Closed(f) == frequency_min <= f /\ f <= frequency_max

InRange(f) == frequency_min < f /\ f < frequency_max

Near(f, g) == f - g < Tolerance /\ g - f < Tolerance

(* The peaks of the autocorrelation that the spectrum confirms.  The loop  *)
(* goes on after one that matches: the last is taken.                      *)
Matches(corr, fft) ==
  {i \in 1 .. Len(corr) :
     \E p \in fft : InRange(p.frequency) /\ Near(corr[i], p.frequency)
                    /\ p.level > amplitude_min}

Measured(corr, fft) ==
  {f \in Frequencies :
     \E i \in Matches(corr, fft) :
       /\ \A j \in Matches(corr, fft) : j <= i
       /\ f = corr[i]
       /\ InRange(f)}

Expired == None

(* on_data_available *)
OnDataAvailable(corr, fft) ==
  /\ IF Measured(corr, fft) # {}
     THEN /\ \E f \in Measured(corr, fft) :
               last' = [fundamental |-> f, tension |-> Tension(f, length)]
          /\ last_time' = now
     ELSE /\ last' = IF last # None /\ now - last_time > hold_duration
                     THEN Expired ELSE last
          /\ UNCHANGED last_time
  /\ UNCHANGED <<controls, range, now>>

Tick == now < MaxTime /\ now' = now + 1 /\ UNCHANGED <<controls, range, last, last_time>>

Next ==
  \/ \E t \in TENSION_MIN .. TENSION_AVG : MoveMinSlider(t)
  \/ \E t \in TENSION_AVG .. TENSION_MAX : MoveMaxSlider(t)
  \/ \E level \in Levels : MoveYScale(level)
  \/ \E l \in Lengths : OnSpokeLengthChanged(l)
  \/ \E corr \in FundamentalsCorr, fft \in FundamentalsFft : OnDataAvailable(corr, fft)
  \/ Tick

Spec == Init /\ [][Next]_vars
-----------------------------------------------------------------------------
(* Properties. *)

(* The range of frequencies and of lags that frames are measured with is   *)
(* always that of the sliders and the spoke length as they are now,        *)
(* whichever handler ran last.                                             *)
RangeIsCurrent ==
  /\ frequency_min \in Frequency(min_slider, length)
  /\ frequency_max \in Frequency(max_slider, length)
  /\ min_lag = Round(SAMPLE_RATE, frequency_max)
  /\ max_lag = Round(SAMPLE_RATE, frequency_min)

(* A tension that is measured lies between the tensions of the sliders,    *)
(* although frames compare frequencies, and both a frequency and a tension *)
(* are rounded on the way.                                                 *)
MeasuredInSliders ==
  [][last' # last /\ last' # None => last'.tension \in min_slider .. max_slider]_vars
=============================================================================
