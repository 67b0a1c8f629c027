----------------------------- MODULE MCBackends ------------------------------
(* Small instances of Backends for TLC.                                        *)
EXTENDS Backends

CONSTANTS g1, k1, k2

(* One score Lua prints exactly, and a negative one that it rounds.            *)
MCScores == {-14, 3}

Lowest == -14
==============================================================================
