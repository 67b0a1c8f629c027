----------------------------- MODULE BestScores ------------------------------
(* What the write side of the leaderboard promises, without its keys, calls or *)
(* clock: every board holds for a user a score that was submitted for that     *)
(* user, it only ever gets better, it goes away on request, and a board that   *)
(* is not permanent may lapse as a whole.                                      *)
EXTENDS Integers

CONSTANTS Board, Permanent, User, Score, NoScore

VARIABLES best,        \* board -> user -> score
          submitted,   \* the <<user, score>> pairs accepted so far
          leaving      \* the users whose erasure was asked for

vars == <<best, submitted, leaving>>

Empty == [u \in User |-> NoScore]

Init ==
    /\ best = [b \in Board |-> Empty]
    /\ submitted = {}
    /\ leaving = {}

Accept(u, score) ==
    /\ submitted' = submitted \cup {<<u, score>>}
    /\ UNCHANGED <<best, leaving>>

AskErase(u) ==
    /\ leaving' = leaving \cup {u}
    /\ UNCHANGED <<best, submitted>>

(* One atomic improvement: the better score stands.                            *)
Land(b, u, score) ==
    /\ <<u, score>> \in submitted
    /\ best[b][u] = NoScore \/ best[b][u] < score
    /\ best' = [best EXCEPT ![b][u] = score]
    /\ UNCHANGED <<submitted, leaving>>

Erase(b, u) ==
    /\ u \in leaving
    /\ best' = [best EXCEPT ![b][u] = NoScore]
    /\ UNCHANGED <<submitted, leaving>>

Lapse(boards) ==
    /\ best' = [b \in Board |-> IF b \in boards THEN Empty ELSE best[b]]
    /\ UNCHANGED <<submitted, leaving>>

Next ==
    \/ \E u \in User, score \in Score : Accept(u, score)
    \/ \E u \in User : AskErase(u)
    \/ \E b \in Board, u \in User, score \in Score : Land(b, u, score)
    \/ \E b \in Board, u \in User : Erase(b, u)
    \/ \E boards \in SUBSET (Board \ Permanent) : Lapse(boards)

Spec == Init /\ [][Next]_vars
==============================================================================
