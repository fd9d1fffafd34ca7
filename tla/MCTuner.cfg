SPECIFICATION Spec
CONSTANTS
  Lengths = {1, 2}
  Stiffness <- MCStiffness
  Unit = 20
  TENSION_MIN = 5
  TENSION_AVG = 7
  TENSION_MAX = 10
  SAMPLE_RATE = 100
  Frequencies = {3, 4, 5, 6, 7, 8, 9, 10, 11}
  Levels = {1, 2}
  npeaks_corr = 2
  npeaks_fft = 1
  Tolerance = 2
  hold_duration = 1
  MaxTime = 3
  None = None
INVARIANTS
  RangeIsCurrent
PROPERTY MeasuredInSliders
