----------------------------- MODULE MCExecutor -----------------------------
(* Four tables in two layers, the first with three, and two workers: more   *)
(* errors than errChan has room for; one table whose copy may panic.        *)
EXTENDS Executor

CONSTANTS t1, t2, t3, t4, w1, w2, noTable, panicError
MCTable == {t1, t2, t3, t4}
MCLayers == << <<t1, t2, t3>>, <<t4>> >>
MCWorker == {w1, w2}
MCPanicking == {t2}
=============================================================================
