------------------------- MODULE MCMPIRequestersNBX -------------------------
EXTENDS MPIRequestersNBX

CONSTANTS r1, r2, r3

ThreeRanks == {r1, r2, r3}
Targets == {{}, {r3}, {r1, r2}}
=============================================================================
