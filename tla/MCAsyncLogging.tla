---------------------------- MODULE MCAsyncLogging ----------------------------
(* A producer whose logger blocks and one whose logger discards, a flusher      *)
(* whose logger overruns, a queue of two and two threads in the pool.           *)
EXTENDS AsyncLogging, TLC

CONSTANTS p1, p2, waits, drops, overruns

MCLoggerOf == p1 :> waits @@ p2 :> drops
MCPolicy   == waits :> "block" @@ drops :> "discard_new" @@ overruns :> "overrun_oldest"
MCFaulty   == {<<"log", p2, 1>>}
=============================================================================
