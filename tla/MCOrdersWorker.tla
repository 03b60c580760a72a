---- MODULE MCOrdersWorker ----
(* Instances of OrdersWorker for TLC. *)
EXTENDS OrdersWorker

CONSTANTS o1, s1, s2

====
