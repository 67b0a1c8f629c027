---------------------------- MODULE MCRedisReads -----------------------------
(* Small instances of RedisReads for TLC.                                      *)
EXTENDS RedisReads

TopOfPage(window, limit, offset) ==
    [op |-> "top", window |-> window, limit |-> limit, offset |-> offset]

EntryFor(window, u) == [op |-> "entry", window |-> window, user |-> u]

ContextFor(window, u, radius) ==
    [op |-> "context", window |-> window, user |-> u, radius |-> radius]

(* A page of a board of three, a player in the middle of it, alone and with    *)
(* neighbours, three requests that are refused, and a scan, player by player.  *)
(* The weekly board may lapse under the read, and be written late when the     *)
(* next one has begun; midnight may fall between two pages of the scan.        *)
MCAsks ==
    {TopOfPage("weekly", 2, 1), EntryFor("weekly", 2), ContextFor("all_time", 2, 1)}
        \cup {TopOfPage("weekly", 4, 0), TopOfPage("weekly", 1, -1), ContextFor("weekly", 2, 0)}
        \cup {[op |-> "scan", window |-> "daily", limit |-> 1]}

MCFirstPage == {TopOfPage("all_time", 2, 0)}

MCContext == {ContextFor("all_time", 2, 1)}
==============================================================================
