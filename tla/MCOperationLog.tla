--------------------------- MODULE MCOperationLog ---------------------------
(* Small instances of OperationLog for TLC. *)
EXTENDS OperationLog

CONSTANTS k1, k2, v1, v2

\* An empty value has length 0.
MCSize == [x \in {k1, k2, v1, v2} |-> CASE x = k1 -> 3 [] x = k2 -> 99 [] x = v1 -> 0 [] x = v2 -> 5]
=============================================================================
