--------------------------- MODULE MCFaultMatrix ---------------------------
EXTENDS FaultMatrix

MCDrivers == AllDrivers
=============================================================================
