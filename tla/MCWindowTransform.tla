------------------------- MODULE MCWindowTransform --------------------------
EXTENDS WindowTransform
=============================================================================
