-------------------------- MODULE MC_GimbalControl --------------------------
\* GimbalControl as it is, for TLC: ticks are scaled to a lease of four, a pulse of
\* two and a retry of one.
EXTENDS GimbalControl
=============================================================================
