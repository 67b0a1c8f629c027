------------------------- MODULE MCLeaderboardWrites -------------------------
(* Small instances of LeaderboardWrites for TLC.                               *)
EXTENDS LeaderboardWrites, TLC

CONSTANTS u1, u2, k1, p1, p2, p3

ScoreOf(u, score, key, named) ==
    [op |-> "submit", user |-> u, score |-> score, key |-> key, named |-> named]

Erasure(u) == [op |-> "delete", user |-> u]

(* A player being erased while submissions for that player come in.            *)
MCEraseJobs == {ScoreOf(u1, 1, NoKey, TRUE), ScoreOf(u2, 2, NoKey, FALSE), Erasure(u1)}

(* Two attempts under one key, the second one better.                          *)
MCRetryJobs == {ScoreOf(u1, 1, k1, FALSE), ScoreOf(u1, 2, k1, FALSE)}

(* A score under a key, a better one without, one that is out of range, and an *)
(* erasure.                                                                    *)
MCClockJobs ==
    {ScoreOf(u1, 1, k1, FALSE), ScoreOf(u1, 2, NoKey, FALSE), ScoreOf(u1, 3, NoKey, FALSE), Erasure(u1)}

(* One clock for all processes; one process a tick ahead of the others.        *)
InStep == [p \in Req |-> 0]

OneAhead == [p \in Req |-> IF p = p2 THEN 1 ELSE 0]

MCSymmetry == Permutations(Req)
==============================================================================
