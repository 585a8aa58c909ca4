CONSTANTS
  Delays <- MC_Delays
  Percents <- MC_Percents
  RandSteps = 4

SPECIFICATION Spec

INVARIANT SmearedInRange
