-------------------------- MODULE MCRecordHandler --------------------------
(* RecordHandler with records split into up to three events.               *)
EXTENDS RecordHandler
=============================================================================
