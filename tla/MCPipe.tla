-------------------------------- MODULE MCPipe -------------------------------

(* Instances of Pipe for TLC: a channel that uses both streams from the start, *)
(* and one whose only stream starts after fileno.                              *)
EXTENDS Pipe

Both == [s \in Streams |-> 2]
OneStream == [s \in Streams |-> IF s = "in" THEN 3 ELSE 0]
MCUses == {[feeds |-> Both, early |-> TRUE], [feeds |-> OneStream, early |-> FALSE]}
Crossing == {[feeds |-> Both, early |-> TRUE]}
=============================================================================
