---------------------------- MODULE MCProcessor -----------------------------
EXTENDS Processor
=============================================================================
