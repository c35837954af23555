------------------------------ MODULE MCOpening ------------------------------

(* Instances of Opening for TLC.                                            *)
EXTENDS Opening

Budget(opens, incoming, requests, globals, rekeys) ==
    [b \in {"opens", "incoming", "requests", "globals", "rekeys"} |->
        CASE b = "opens"    -> opens
          [] b = "incoming" -> incoming
          [] b = "requests" -> requests
          [] b = "globals"  -> globals
          [] b = "rekeys"   -> rekeys]

\* Two threads open channels; a thread and the peer do; one makes requests; two
\* threads make global requests around a key exchange; a channel is forwarded
\* after a global request.
MCBudgets ==
    {Budget(2, 0, 0, 0, 0), Budget(1, 1, 0, 0, 0), Budget(1, 0, 2, 0, 0),
     Budget(0, 0, 0, 2, 1), Budget(0, 1, 0, 1, 0)}

\* A client asks for forwarded channels, a server is asked for sessions.
MCInit ==
    /\ Init
    /\ serverMode <=> left["globals"] = 0
    /\ accepter.pc = "idle" <=> left["incoming"] > 0
MCSpec == MCInit /\ [][Next]_vars /\ Fairness
=============================================================================
