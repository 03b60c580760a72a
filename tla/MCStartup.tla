---- MODULE MCStartup ----
(* Instances of Startup for TLC. *)
EXTENDS Startup

CONSTANTS api, worker   \* services

====
