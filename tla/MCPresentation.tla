--------------------------- MODULE MCPresentation ---------------------------
\* Instances of Presentation for TLC.
EXTENDS Presentation, TLC

\* Windows and handles are interchangeable.
Interchangeable == Permutations(Windows) \cup Permutations(Handles)
=============================================================================
