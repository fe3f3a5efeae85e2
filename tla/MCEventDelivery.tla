--------------------------- MODULE MCEventDelivery --------------------------
(* Two request threads race for the checkpoint, a host is started twice,   *)
(* and a consumer follows.  One document with two contents tells an event  *)
(* from the one that reuses its cursor.                                    *)
EXTENDS EventDelivery

CONSTANTS c1, w1, w2
=============================================================================
