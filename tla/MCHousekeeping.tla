--------------------------- MODULE MCHousekeeping ---------------------------
(* Module Housekeeping and its properties on two queues.                   *)
EXTENDS HousekeepingProps

CONSTANTS high, low, foreign

TwoQueues  == <<high, low>>
OneQueue   == <<high>>
LowIsDeep  == [s \in {high, low, foreign} |-> IF s = low THEN 2 ELSE 1]
DeepQueue  == [s \in {high} |-> 2]
NoForeign  == <<>>
OneForeign == <<foreign>>
=============================================================================
