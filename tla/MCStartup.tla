------------------------------ MODULE MCStartup ------------------------------
(* A small instance of Startup. *)
EXTENDS Startup

CONSTANTS w1, w2

TwoWorkers == {w1, w2}
=============================================================================
