\* Both cores around the sensor queue, with the timing of the restart
\* handshake: core1's shutdown ends before core0's second reset check.  Two
\* sensors and a queue of 2 x 2 entries, the room core0 needs for the two
\* rounds it can pass on after core1 stops draining; with six readings the
\* queue still fills, so core0 blocks in queue_add_blocking.
CONSTANTS
  Sensors <- MCSensors
  QueueCap = 4
  MaxReadings = 3
  ShutdownWithinLoop = TRUE
SPECIFICATION Spec
\* After the watchdog wait, or with core1 gone and the queue full, the
\* cores really stop.
CHECK_DEADLOCK FALSE
INVARIANTS
  TypeOK
  QueueCarriesEveryReading
PROPERTIES
  RestartCompletes
