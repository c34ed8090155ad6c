------------------------------ MODULE MCForest ------------------------------
(***************************************************************************)
(* One latency, equal latencies, two within the same whole number, and     *)
(* three apart; subsamples below, at and above the number of latencies;    *)
(* forests of one and two trees; what an int holds that was not read is    *)
(* the stack's leavings: a small number or a large one.                    *)
(***************************************************************************)
EXTENDS IsoForest

MCUnit       == 2
MCDatasets   == {<<3>>, <<4, 4>>, <<2, 3, 5>>}
MCSizes      == {1, 2, 4}
MCTreeCounts == {0, 1, 2}
MCGarbage    == {0, 8}
MCLogTerm(m) == CASE m = 3 -> 1207 [] m = 4 -> 1852 [] OTHER -> 2327
MCMaxWalk    == 4
MCMaxTrainings == 1
=============================================================================
