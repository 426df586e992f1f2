------------------------------- MODULE MCJob -------------------------------
(* Module Job and its properties on the instances of the MCJob_*.cfg.      *)
EXTENDS JobProps

CONSTANTS plain, keyed, twin, broken, key, new, old

(* Two jobs enqueued under one key, one without, one nobody can decode.    *)
KeyOfJob == [j \in Jobs |-> IF j \in {keyed, twin} THEN key ELSE NoKey]
=============================================================================
