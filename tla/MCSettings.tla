----------------------------- MODULE MCSettings -----------------------------
\* Bounded instances of Settings for TLC.
EXTENDS Settings
CONSTANTS a1, n1, n2
=============================================================================
