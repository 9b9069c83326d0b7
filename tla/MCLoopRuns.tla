----------------------------- MODULE MCLoopRuns -----------------------------
(* Two runs of a loop that allows one at a time, under each fault in turn,  *)
(* and one run under all of them.                                           *)
EXTENDS LoopRuns

Scenario(n, m, moves) == [runs |-> n, mode |-> m, moves |-> moves]
MCScenarios ==
    {Scenario(2, "direct", moves) :
       moves \in {{"cancel"}, {"idle"}, {"crash"}, {"orphan"}, {"attachFails", "disable"},
                  {"delete"}}}
    \cup {Scenario(1, "autopilot", {"approval", "idle", "cancel", "crash"})}
CancelScenarios == {Scenario(1, "direct", {"cancel"})}
=============================================================================
