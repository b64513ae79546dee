-------------------------- MODULE MC_SensorPipeline --------------------------
EXTENDS SensorPipeline

\* Two sensors (the DHT11 and the DS18B20 wrapper compiled out by #if 0).
MCSensors == {0, 1}

=============================================================================
