------------------------- MODULE MCNalFragmentation -------------------------
(* Model-checking instance of NalFragmentation.                           *)
EXTENDS NalFragmentation
=============================================================================
