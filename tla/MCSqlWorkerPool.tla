--------------------------- MODULE MCSqlWorkerPool ---------------------------
(* Instances of SqlWorkerPool.tla for TLC. *)
EXTENDS SqlWorkerPool

CONSTANTS t1, t2, empty, query

(* Two transactions, one of no statements, and a holder of two queries. *)
Sizes == [o \in Op |-> IF o = empty THEN 0 ELSE 2]
=============================================================================
