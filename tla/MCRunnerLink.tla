----------------------------- MODULE MCRunnerLink -----------------------------
(* Instances of RunnerLink for TLC.                                         *)
EXTENDS RunnerLink, FiniteSets, TLC

Symmetry == Permutations(Streams)

(* A bound of the safety run: the streams in use that have been pinged are  *)
(* at most one, and none while a reconnect signal is pending.               *)
FewPings ==
    Cardinality({s \in Streams : pings[s] > 0 \/ ponged[s]})
        <= IF reconnectCh THEN 0 ELSE 1
=============================================================================
