----------------------------- MODULE MCTableCopy -----------------------------
(* Up to four rows, so that batches of two can be short, full, and followed  *)
(* by an empty one; statements of one row, so that a batch takes two.        *)
EXTENDS TableCopy

MCRow == 1..4
=============================================================================
