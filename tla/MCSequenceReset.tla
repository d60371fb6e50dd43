--------------------------- MODULE MCSequenceReset ---------------------------
(* Two sequences, so that one may fail or be missed and the other not.       *)
EXTENDS SequenceReset

CONSTANTS s1, s2
MCSeqs == {s1, s2}
MCValue == 1..2
=============================================================================
