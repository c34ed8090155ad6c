---------------------------- MODULE MCTelemetry ----------------------------
(***************************************************************************)
(* Two responses with one status code but other phrases and latencies, one *)
(* with another code and no phrase after it, so that the code stays in its *)
(* phrase; chunks of two rows, so that a compilation may take none, one or *)
(* several.                                                                *)
(***************************************************************************)
EXTENDS Telemetry

Ok    == [code |-> 200, lat |-> 1, message |-> <<"HTTP/1.1", "200", "OK">>]
Blank == [code |-> 200, lat |-> 2, message |-> <<"HTTP/1.1", "200", "">>]
Moved == [code |-> 301, lat |-> 1, message |-> <<"HTTP/1.1", "301">>]

MCResults   == {Ok, Blank, Moved}
MCRuns      == {<<Ok, Blank, Moved>>, <<Blank, Ok>>}
MCWordlists == {<<"w1">>, <<"w1", "w2">>}
MCCodes     == {200, 301}
MCMaxFiles  == 2
MCMaxRows   == 3
MCMaxKills  == 1
MCChunkSize == 2
=============================================================================
