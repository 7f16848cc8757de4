---------------------------- MODULE MCMeterImport ----------------------------
EXTENDS MeterImport
=============================================================================
