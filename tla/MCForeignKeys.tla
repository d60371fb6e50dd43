--------------------------- MODULE MCForeignKeys ---------------------------
(* Three keys, two of which reference a planned table; two runs, so that a *)
(* run can start after a crash or a failed run of its predecessor.         *)
EXTENDS ForeignKeys

CONSTANTS f1, f2, f3, noKey
MCFK == {f1, f2, f3}
MCIncoming == {f1, f2}
=============================================================================
