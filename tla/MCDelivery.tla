----------------------------- MODULE MCDelivery -----------------------------
(* Module Delivery and its properties on the instances of the MC*.cfg.     *)
EXTENDS DeliveryProps, TLC

CONSTANTS w1, w2
=============================================================================
