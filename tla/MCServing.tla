------------------------------ MODULE MCServing ------------------------------
(* A small instance of Serving for TLC.                                        *)
EXTENDS Serving

CONSTANTS i1, i2, w1, w2, w3

Hosts == [w \in Worker |-> IF w = w3 THEN i2 ELSE i1]
==============================================================================
