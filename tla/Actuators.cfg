\* Water pump and light: set_water in the command context against the alarm,
\* under the fairness of the hardware timer and of the command context.
CONSTANTS
  MaxAlarms = 5

SPECIFICATION Spec
INVARIANTS
  TypeOK
  WaterCutOffArmed
PROPERTIES
  AlarmOnlyStopsWater
  WaterEventuallyOff
