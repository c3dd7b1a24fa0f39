----------------------------- MODULE MCConsumer -----------------------------
(* Instances of Consumer for TLC: their cfg files give the bounds.         *)
EXTENDS Consumer
=============================================================================
