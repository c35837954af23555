-------------------------------- MODULE MCKex --------------------------------

(* Instances of Kex for TLC.  Bits 2, 3 and 4 stand for 1024, 2048 and 8192. *)
EXTENDS Kex, TLC

\* The two ends order what they have in common differently.
Lists(kex) == [kex |-> kex, key |-> <<"rsa", "dss">>, c2s |-> <<"aes", "des">>, s2c |-> <<"des", "aes">>]
Backwards(kex) == [kex |-> kex, key |-> <<"dss", "rsa">>, c2s |-> <<"des", "aes">>, s2c |-> <<"aes", "des">>]
Offer(client, server) == ("client" :> Lists(client)) @@ ("server" :> Backwards(server))

Request(min, n, max) == [old |-> FALSE, min |-> min, n |-> n, max |-> max]
Old(n) == [old |-> TRUE, min |-> MinBits, n |-> n, max |-> MaxBits]

Base(offer, earlier) ==
    [offer |-> offer, pack |-> {3}, request |-> ClassBits, guess |-> "none",
     strange |-> {}, earlier |-> earlier, silent |-> {}]

Sessions == {None, "session"}

FixedGroup ==
    {[Base(Offer(<<"group", "gex">>, <<"gex", "ecdh", "group">>), s) EXCEPT
        !.strange = st, !.guess = g, !.silent = q] :
        s \in Sessions, st \in {{}, {"client"}, {"server"}}, g \in {"none", "gex", "gssgex"},
        q \in {{}, {"client"}, {"server"}}}
    \cup {[Base(Offer(<<k>>, <<k>>), s) EXCEPT !.strange = st] :
            k \in {"ecdh", "gss"}, s \in Sessions, st \in SUBSET Sides}

GroupExchange ==
    {[Base(Offer(<<k, "ecdh">>, <<"group", "gssgex", "gex">>), s) EXCEPT
        !.pack = pack, !.request = r] :
        k \in {"gex", "gssgex"}, s \in Sessions,
        pack \in {None, {}, {1}, {2, 4}, {2, 5}, {3, 5}, {5}, {1, 5}},
        r \in {ClassBits, Old(3), Old(5), Request(2, 2, 2), Request(3, 3, 3),
               Request(4, 2, 3), Request(1, 4, 5), Request(1, 5, 5)}}
    \cup {[Base(Offer(<<k>>, <<k>>), None) EXCEPT !.strange = Sides] : k \in {"gex", "gssgex"}}

NoCipher ==
    {[Base([Offer(<<"group">>, <<"group">>) EXCEPT !.client.s2c = <<"rc4">>], None) EXCEPT !.pack = None]}

MCSettings == FixedGroup \cup GroupExchange \cup NoCipher
=============================================================================
