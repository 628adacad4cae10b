--------------------------- MODULE MCCallManager ---------------------------
\* Small instances of the call manager for TLC.
EXTENDS CallManagerLife, TLC

CONSTANTS a, b, e, d, x, y, z
=============================================================================
