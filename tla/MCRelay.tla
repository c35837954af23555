------------------------------ MODULE MCRelay ------------------------------

(* Instances of Relay for TLC.                                              *)
EXTENDS Relay

Bytes(hacker, docker, errors) ==
    [s \in Sources |-> CASE s = "hacker" -> hacker [] s = "docker" -> docker [] OTHER -> errors]

MCUses == {
    [service |-> "shell", amount |-> Bytes(2, 3, 1), nbytes |-> Bytes(1, 2, 2), window |-> 1],
    [service |-> "exec", amount |-> Bytes(1, 2, 1), nbytes |-> Bytes(2, 2, 2), window |-> 1],
    [service |-> "direct", amount |-> Bytes(2, 2, 0), nbytes |-> Bytes(2, 2, 2), window |-> 2]}
=============================================================================
