------------------------------ MODULE MCMonitor ------------------------------
(* Small instances of Monitor. *)
EXTENDS Monitor

MCMetrics  == <<"cpu">>
MCServices == <<"nginx">>
MCSustain  == [k \in Kinds |-> IF k = "cpu" THEN 1 ELSE 2]
=============================================================================
