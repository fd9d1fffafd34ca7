---------------------------- MODULE TunerProofs -----------------------------
(***************************************************************************)
(* What a tension that is measured has to do with the sliders, for every   *)
(* spoke, unit, sample rate and range of the sliders.                      *)
(***************************************************************************)
EXTENDS Tuner, TLAPS

(* Round is off by at most one half. *)
LEMMA RoundIsNear ==
  ASSUME NEW a \in Nat, NEW b \in Nat \ {0}
  PROVE  /\ Round(a, b) \in Nat
         /\ 2 * a <= (2 * Round(a, b) + 1) * b
         /\ (2 * Round(a, b) - 1) * b <= 2 * a
<1> DEFINE q == a \div b
           r == a % b
<1>1. q \in Nat /\ r \in Nat /\ r < b /\ a = b * q + r
  OBVIOUS
<1>2. \/ Round(a, b) = q /\ 2 * r <= b
      \/ Round(a, b) = q + 1 /\ 2 * r >= b
  <2>1. Round(a, b) = IF 2 * r < b \/ (2 * r = b /\ q % 2 = 0) THEN q ELSE q + 1
    BY DEF Round
  <2> HIDE DEF q, r
  <2>2. CASE 2 * r < b \/ (2 * r = b /\ q % 2 = 0)
    <3>1. Round(a, b) = q
      BY <2>1, <2>2
    <3>2. 2 * r <= b
      BY <2>2, <1>1
    <3> QED
      BY <3>1, <3>2
  <2>3. CASE ~(2 * r < b) /\ ~(2 * r = b /\ q % 2 = 0)
    <3>1. Round(a, b) = q + 1
      BY <2>1, <2>3
    <3>2. 2 * r >= b
      BY <2>3, <1>1
    <3> QED
      BY <3>1, <3>2
  <2> QED
    BY <2>2, <2>3
<1> HIDE DEF q, r
<1>3. (2 * q + 1) * b = 2 * (b * q) + b /\ (2 * q - 1) * b = 2 * (b * q) - b
      /\ (2 * (q + 1) + 1) * b = 2 * (b * q) + 3 * b /\ (2 * (q + 1) - 1) * b = 2 * (b * q) + b
      /\ b * q \in Nat
  BY <1>1
<1>4. CASE Round(a, b) = q /\ 2 * r <= b
  BY <1>1, <1>3, <1>4
<1>5. CASE Round(a, b) = q + 1 /\ 2 * r >= b
  BY <1>1, <1>3, <1>5
<1> QED
  BY <1>2, <1>4, <1>5

(* The square of a frequency above (below) one that t rounds to is at      *)
(* least (at most) what t stands for.                                      *)
LEMMA AboveFrequency ==
  ASSUME NEW l \in Lengths, NEW t \in Nat, NEW f \in Frequency(t, l),
         NEW g \in Frequencies, f < g
  PROVE  2 * t * Unit <= 2 * (Stiffness[l] * g * g)
<1> DEFINE k == Stiffness[l]
<1>1. k \in Nat \ {0} /\ f \in Nat \ {0} /\ g \in Nat \ {0} /\ Unit \in Nat \ {0}
  BY ConstantsAssumption DEF Frequency
<1>2. 4 * t * Unit <= (2 * f + 1) * (2 * f + 1) * k
  BY DEF Frequency
<1> HIDE DEF k
<1>3. (2 * f + 1) * (2 * f + 1) <= (2 * g) * (2 * g)
  <2>1. \A x, y \in Nat : x <= y => x * x <= y * y
    OBVIOUS
  <2> QED
    BY <2>1, <1>1
<1>4. \A x, y \in Nat : x <= y => x * k <= y * k
  BY <1>1
<1>5. (2 * f + 1) * (2 * f + 1) * k <= (2 * g) * (2 * g) * k
  BY <1>3, <1>4, <1>1
<1>6. (2 * g) * (2 * g) * k = 4 * (k * g * g) /\ 4 * t * Unit = 2 * (2 * t * Unit)
  BY <1>1
<1>7. k * g * g \in Nat /\ t * Unit \in Nat /\ 2 * t * Unit \in Nat
      /\ (2 * f + 1) * (2 * f + 1) * k \in Nat
  BY <1>1
<1>8. 2 * (2 * t * Unit) <= 4 * (k * g * g)
  BY <1>2, <1>5, <1>6, <1>7
<1> QED
  BY <1>7, <1>8 DEF k

LEMMA BelowFrequency ==
  ASSUME NEW l \in Lengths, NEW t \in Nat, NEW f \in Frequency(t, l),
         NEW g \in Frequencies, g < f
  PROVE  2 * (Stiffness[l] * g * g) <= 2 * t * Unit
<1> DEFINE k == Stiffness[l]
<1>1. k \in Nat \ {0} /\ f \in Nat \ {0} /\ g \in Nat \ {0} /\ Unit \in Nat \ {0}
  BY ConstantsAssumption DEF Frequency
<1>2. (2 * f - 1) * (2 * f - 1) * k <= 4 * t * Unit
  BY DEF Frequency
<1> HIDE DEF k
<1>3. (2 * g) * (2 * g) <= (2 * f - 1) * (2 * f - 1)
  <2>1. \A x, y \in Nat : x <= y => x * x <= y * y
    OBVIOUS
  <2>2. 2 * g \in Nat /\ 2 * f - 1 \in Nat /\ 2 * g <= 2 * f - 1
    BY <1>1
  <2> QED
    BY <2>1, <2>2
<1>4. \A x, y \in Nat : x <= y => x * k <= y * k
  BY <1>1
<1>5. (2 * g) * (2 * g) \in Nat /\ (2 * f - 1) * (2 * f - 1) \in Nat
  <2>1. 2 * f - 1 \in Nat
    BY <1>1
  <2> QED
    BY <2>1, <1>1
<1>6. (2 * g) * (2 * g) * k <= (2 * f - 1) * (2 * f - 1) * k
  BY <1>3, <1>4, <1>5
<1>7. (2 * g) * (2 * g) * k = 4 * (k * g * g) /\ 4 * t * Unit = 2 * (2 * t * Unit)
  BY <1>1
<1>8. k * g * g \in Nat /\ 2 * t * Unit \in Nat /\ (2 * f - 1) * (2 * f - 1) * k \in Nat
  BY <1>1, <1>5
<1>9. 4 * (k * g * g) <= 2 * (2 * t * Unit)
  BY <1>2, <1>6, <1>7, <1>8
<1> QED
  BY <1>8, <1>9 DEF k

(* A frequency strictly between those of two tensions has one of them or   *)
(* one between, once it is rounded.                                        *)
LEMMA TensionWithin ==
  ASSUME NEW l \in Lengths, NEW s \in Nat, NEW t \in Nat,
         NEW f \in Frequency(s, l), NEW g \in Frequency(t, l),
         NEW m \in Frequencies, f < m, m < g
  PROVE  Tension(m, l) \in s .. t
<1> DEFINE x == Stiffness[l] * m * m
           n == Tension(m, l)
<1>1. x \in Nat /\ Unit \in Nat \ {0}
  BY ConstantsAssumption
<1>2. n \in Nat /\ 2 * x <= (2 * n + 1) * Unit /\ (2 * n - 1) * Unit <= 2 * x
  BY <1>1, RoundIsNear DEF Tension
<1>3. 2 * s * Unit <= 2 * x
  BY AboveFrequency
<1>4. 2 * x <= 2 * t * Unit
  BY BelowFrequency
<1> HIDE DEF x, n
<1>5. \A i, j \in Int : i < j => i * Unit < j * Unit
  BY <1>1
<1>6. 2 * s * Unit <= (2 * n + 1) * Unit
  BY <1>1, <1>2, <1>3
<1>7. (2 * n - 1) * Unit <= 2 * t * Unit
  BY <1>1, <1>2, <1>4
<1>8. s <= n
  <2> SUFFICES ASSUME n < s PROVE FALSE
    BY <1>2
  <2>1. (2 * n + 1) * Unit < (2 * s) * Unit
    BY <1>2, <1>5
  <2> QED
    BY <2>1, <1>6, <1>1, <1>2
<1>9. n <= t
  <2> SUFFICES ASSUME t < n PROVE FALSE
    BY <1>2
  <2>1. (2 * t) * Unit < (2 * n - 1) * Unit
    BY <1>2, <1>5
  <2> QED
    BY <2>1, <1>7, <1>1, <1>2
<1> QED
  BY <1>2, <1>8, <1>9 DEF n
-----------------------------------------------------------------------------
(* What frames and handlers keep. *)
IInv == TypeOK /\ RangeIsCurrent

LEMMA LagIsNatural ==
  ASSUME NEW f \in Frequencies
  PROVE  Round(SAMPLE_RATE, f) \in Nat
BY RoundIsNear, ConstantsAssumption

LEMMA InitIInv == Init => IInv
<1> SUFFICES ASSUME Init PROVE IInv
  OBVIOUS
<1>1. frequency_min \in Frequencies /\ frequency_max \in Frequencies
  BY DEF Init, Frequency
<1>2. min_lag \in Nat /\ max_lag \in Nat
  BY <1>1, LagIsNatural DEF Init
<1> QED
  BY <1>1, <1>2, ConstantsAssumption DEF Init, IInv, TypeOK, RangeIsCurrent

(* Every handler that changes what the range depends on sets it again.     *)
LEMMA HandlerKeeps ==
  ASSUME OnSliderChanged(length', min_slider', max_slider')
  PROVE  /\ RangeIsCurrent'
         /\ frequency_min' \in Frequencies /\ frequency_max' \in Frequencies
         /\ min_lag' \in Nat /\ max_lag' \in Nat
<1>1. frequency_min' \in Frequencies /\ frequency_max' \in Frequencies
  BY DEF OnSliderChanged, Frequency
<1>2. min_lag' \in Nat /\ max_lag' \in Nat
  BY <1>1, LagIsNatural DEF OnSliderChanged
<1> QED
  BY <1>1, <1>2 DEF OnSliderChanged, RangeIsCurrent

LEMMA FrameTypes ==
  ASSUME IInv, NEW corr, NEW fft, OnDataAvailable(corr, fft)
  PROVE  last' \in Shown \cup {None} /\ last_time' \in Nat
<1>1. CASE Measured(corr, fft) # {}
  <2>1. PICK f \in Measured(corr, fft) :
          last' = [fundamental |-> f, tension |-> Tension(f, length)]
    BY <1>1 DEF OnDataAvailable
  <2>2. f \in Frequencies
    BY DEF Measured
  <2>3. Stiffness[length] * f * f \in Nat /\ Unit \in Nat \ {0}
    BY <2>2, ConstantsAssumption DEF IInv, TypeOK
  <2>4. Tension(f, length) \in Nat
    BY <2>3, RoundIsNear DEF Tension
  <2> QED
    BY <1>1, <2>1, <2>2, <2>4 DEF OnDataAvailable, IInv, TypeOK, Shown
<1>2. CASE Measured(corr, fft) = {}
  BY <1>2 DEF OnDataAvailable, Expired, IInv, TypeOK
<1> QED
  BY <1>1, <1>2

LEMMA NextIInv == IInv /\ [Next]_vars => IInv'
<1> SUFFICES ASSUME IInv, [Next]_vars PROVE IInv'
  OBVIOUS
<1>1. ASSUME NEW t \in TENSION_MIN .. TENSION_AVG, MoveMinSlider(t) PROVE IInv'
  <2>1. OnSliderChanged(length', min_slider', max_slider')
    BY <1>1 DEF MoveMinSlider, OnSliderChanged
  <2> QED
    BY <1>1, <2>1, HandlerKeeps DEF MoveMinSlider, IInv, TypeOK
<1>2. ASSUME NEW t \in TENSION_AVG .. TENSION_MAX, MoveMaxSlider(t) PROVE IInv'
  <2>1. OnSliderChanged(length', min_slider', max_slider')
    BY <1>2 DEF MoveMaxSlider, OnSliderChanged
  <2> QED
    BY <1>2, <2>1, HandlerKeeps DEF MoveMaxSlider, IInv, TypeOK
<1>3. ASSUME NEW level \in Levels, MoveYScale(level) PROVE IInv'
  BY <1>3 DEF MoveYScale, range, IInv, TypeOK, RangeIsCurrent
<1>4. ASSUME NEW l \in Lengths, OnSpokeLengthChanged(l) PROVE IInv'
  <2>1. OnSliderChanged(length', min_slider', max_slider')
    BY <1>4 DEF OnSpokeLengthChanged, OnSliderChanged
  <2> QED
    BY <1>4, <2>1, HandlerKeeps DEF OnSpokeLengthChanged, IInv, TypeOK
<1>5. ASSUME NEW corr, NEW fft, OnDataAvailable(corr, fft) PROVE IInv'
  <2>1. last' \in Shown \cup {None} /\ last_time' \in Nat
    BY <1>5, FrameTypes
  <2> QED
    BY <1>5, <2>1 DEF OnDataAvailable, controls, range, IInv, TypeOK, RangeIsCurrent
<1>6. CASE Tick
  BY <1>6 DEF Tick, controls, range, IInv, TypeOK, RangeIsCurrent
<1>7. CASE UNCHANGED vars
  BY <1>7 DEF vars, controls, range, IInv, TypeOK, RangeIsCurrent
<1> QED
  BY <1>1, <1>2, <1>3, <1>4, <1>5, <1>6, <1>7 DEF Next

LEMMA AlwaysIInv == Spec => []IInv
BY InitIInv, NextIInv, PTL DEF Spec

(* Controls, range and what is shown keep their types, for every range of  *)
(* the sliders and every spoke.                                            *)
THEOREM TypeCorrect == Spec => []TypeOK
<1>1. IInv => TypeOK
  BY DEF IInv
<1> QED
  BY <1>1, AlwaysIInv, PTL

(* The range of frequencies and lags is that of the sliders and the length.*)
THEOREM RangeAlwaysCurrent == Spec => []RangeIsCurrent
<1>1. IInv => RangeIsCurrent
  BY DEF IInv
<1> QED
  BY <1>1, AlwaysIInv, PTL

(* A step that shows a tension shows one between those of the sliders.     *)
LEMMA FrameMeasures ==
  ASSUME IInv, [Next]_vars, last' # last, last' # None
  PROVE  last'.tension \in min_slider .. max_slider
<1>1. PICK corr, fft : OnDataAvailable(corr, fft)
  BY DEF Next, MoveMinSlider, MoveMaxSlider, MoveYScale, OnSpokeLengthChanged, Tick, vars
<1>2. Measured(corr, fft) # {}
  BY <1>1 DEF OnDataAvailable, Expired
<1>3. PICK f \in Measured(corr, fft) :
        last' = [fundamental |-> f, tension |-> Tension(f, length)]
  BY <1>1, <1>2 DEF OnDataAvailable
<1>4. f \in Frequencies /\ frequency_min < f /\ f < frequency_max
  BY DEF Measured, InRange
<1>5. /\ frequency_min \in Frequency(min_slider, length)
      /\ frequency_max \in Frequency(max_slider, length)
      /\ length \in Lengths /\ min_slider \in Nat /\ max_slider \in Nat
  BY ConstantsAssumption DEF IInv, TypeOK, RangeIsCurrent
<1>6. Tension(f, length) \in min_slider .. max_slider
  BY <1>4, <1>5, TensionWithin
<1> QED
  BY <1>3, <1>6

(* Every tension that is measured lies between those of the sliders: the   *)
(* strict comparison of rounded frequencies makes up for both roundings.   *)
THEOREM AlwaysMeasuredInSliders == Spec => MeasuredInSliders
<1>1. IInv /\ [Next]_vars =>
        [last' # last /\ last' # None => last'.tension \in min_slider .. max_slider]_vars
  BY FrameMeasures
<1> QED
  BY <1>1, AlwaysIInv, PTL DEF Spec, MeasuredInSliders
=============================================================================
