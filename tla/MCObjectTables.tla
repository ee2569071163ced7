--------------------------- MODULE MCObjectTables ---------------------------
\* Instances of ObjectTables for TLC.
EXTENDS ObjectTables

=============================================================================
