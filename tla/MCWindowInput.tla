--------------------------- MODULE MCWindowInput ---------------------------
\* Instances of WindowInput for TLC.
EXTENDS WindowInput

=============================================================================
