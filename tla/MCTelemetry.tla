----------------------------- MODULE MCTelemetry -----------------------------
EXTENDS Telemetry

CONSTANTS i1, i2, i3

==============================================================================
