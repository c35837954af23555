------------------------------- MODULE MCRekey -------------------------------

(* Instances of Rekey for TLC.                                              *)
EXTENDS Rekey

\* Two engines in common, one of them out of reach of the server without primes,
\* or none in common.
MCPreferences ==
    {[client |-> <<"gex", "group">>, server |-> <<"group", "gex">>],
     [client |-> <<"gex">>, server |-> <<"group">>]}
MCMessages == [client |-> 5, server |-> 1]
=============================================================================
