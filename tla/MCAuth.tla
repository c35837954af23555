------------------------------- MODULE MCAuth -------------------------------

(* Instances of Auth for TLC: two connections from two addresses, or a third *)
(* connection that shares the second address.                                *)
EXTENDS Auth, TLC

CONSTANTS c1, c2, c3, ip1, ip2

\* The list names one of the addresses first, then the other one or nobody.
MCInitialList == <<ip1>>
MCLists == {<<ip2>>, <<>>}

MCIPs == {ip1, ip2}
ThreeConns == {c1, c2, c3}
ThreeIpOf == (c1 :> ip1) @@ (c2 :> ip2) @@ (c3 :> ip2)

\* Two connections of different addresses, before anybody came in; two of the
\* second address, after one of the first came in through the whitelist branch; or
\* one of the second, after another of it came in.
MCInit ==
    \/ Started({}, {c3}, NoIp)
    \/ Started({c1}, {}, ip1)
    \/ Started({c2}, {c1}, ip2)

MCSpec == MCInit /\ [][Next]_vars
=============================================================================
