---------------------------- MODULE MCPublication ----------------------------
(* Module Publication and its properties: two requests, two transactions,  *)
(* two jobs, one lifespan manager besides the plugin's.                    *)
EXTENDS PublicationProps

CONSTANTS r, s, m, u, v, a, b
=============================================================================
