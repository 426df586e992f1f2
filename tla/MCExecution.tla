---------------------------- MODULE MCExecution ----------------------------
(* Module Execution on two dependency keys and two waiters.                *)
EXTENDS Execution

CONSTANTS a, b, p, r
=============================================================================
