--------------------------------- MODULE Kex ---------------------------------

(****************************************************************************)
(* One key exchange, packet by packet: what _parse_kex_init agrees on and   *)
(* what the engines kex_group1, kex_ecdh_nist, kex_gex and kex_gss make of  *)
(* it.  Rekey abstracts the same exchange to its turns and looks at what    *)
(* goes on around it; here the values matter that the two ends compute.     *)
(*                                                                          *)
(* Both ends run this code.  The client may also be another program: then   *)
(* it asks a gex engine for sizes of its own, guesses a first packet or     *)
(* sends a value out of range.  A public value g^x is written x, so that    *)
(* (g^x)^y is x * y, and 0 stands for a value out of range.                 *)
(****************************************************************************)
EXTENDS Naturals, Sequences, FiniteSetsExt

Sides == {"client", "server"}
Peer(e) == IF e = "client" THEN "server" ELSE "client"
Engines == {"group", "ecdh", "gex", "gss", "gssgex"}

CONSTANTS
    Settings,       \* what the ends start from, see SettingOK
    Exponents,      \* the secret exponents x
    MinBits,        \* KexGex.min_bits, 1024
    PreferredBits,  \* KexGex.preferred_bits, 2048
    MaxBits,        \* KexGex.max_bits, 8192
    None            \* Python's None

\* A server without primes does not offer gex; gssgex stays on its list.
Offered(s, e) ==
    IF e = "server" /\ s.pack = None
    THEN SelectSeq(s.offer[e].kex, LAMBDA k : k # "gex")
    ELSE s.offer[e].kex

\* Where list has something that other has too.
Common(list, other) == {i \in DOMAIN list : \E j \in DOMAIN other : other[j] = list[i]}

First(list, other) == IF Common(list, other) = {} THEN None ELSE list[Min(Common(list, other))]

\* Mutant: a server goes by its own list.
PickOwn(e, own, theirs) == First(own, theirs)

\* A server takes the first of the client's list that it has, a client the first
\* of its own that the server has.
Pick(e, own, theirs) == IF e = "server" THEN First(theirs, own) ELSE First(own, theirs)

\* offer: the lists of each end; pack: the sizes of the primes of the server, or
\* None; request: the sizes the client asks for, of which an old request has only
\* one; guess: the engine whose first packet the client sends unasked, not the one
\* agreed on and one whose number no other engine reads;
\* strange: the ends that may send values out of range; earlier: the session id
\* of an earlier exchange; silent: the end that may fall silent.
SettingOK(s) ==
    /\ \A e \in Sides :
          s.offer[e] \in [kex : Seq(Engines), key : Seq(STRING), c2s : Seq(STRING), s2c : Seq(STRING)]
    /\ s.pack = None \/ s.pack \subseteq Nat
    /\ s.request \in [old : BOOLEAN, min : Nat, n : Nat, max : Nat]
    /\ s.request.old => s.request.min = MinBits /\ s.request.max = MaxBits
    /\ s.guess \in {"none", "gex", "gssgex"}
    /\ s.guess # Pick("client", Offered(s, "client"), Offered(s, "server"))
    /\ s.strange \subseteq Sides /\ s.silent \subseteq Sides

ASSUME SettingsAssumption == \A s \in Settings : SettingOK(s)
ASSUME SizesAssumption ==
    /\ MinBits \in Nat /\ MaxBits \in Nat /\ PreferredBits \in MinBits .. MaxBits
    /\ Exponents \subseteq Nat \ {0}

VARIABLES
    setting,   \* one of Settings, never changed
    t,         \* the transport of each end and its engine
    wire       \* packets each end has still to read

exchangeVars == <<setting, t, wire>>

ClassBits == [old |-> FALSE, min |-> MinBits, n |-> PreferredBits, max |-> MaxBits]

Fresh(s) == [
    pc       |-> "wait",       \* waiting for a packet, or how the exchange ended
    why      |-> "none",       \* what it died of
    timer    |-> s.earlier = None,  \* the handshake timer of the packetizer
    expected |-> {"KEXINIT"},  \* _expected_packet
    kex      |-> None,         \* the engine agreed on
    key      |-> None,         \* host_key_type
    local    |-> None,         \* local_cipher; macs and compression go like it
    remote   |-> None,         \* remote_cipher
    bits     |-> ClassBits,    \* min_bits, preferred_bits, max_bits, old_style
    p        |-> None,         \* the size of the prime
    x        |-> None,
    e        |-> None,
    f        |-> None,
    K        |-> None,
    H        |-> None,
    session  |-> s.earlier]    \* session_id

\* _send_kex_init
KexInitOf(s, e) ==
    [type |-> "KEXINIT", lists |-> [s.offer[e] EXCEPT !.kex = Offered(s, e)]]

Guessed(s) ==
    CASE s.guess = "none"   -> <<>>
      [] s.guess = "gex"    -> <<[type |-> "GEX_REQUEST"]>>
      [] s.guess = "gssgex" -> <<[type |-> "GSS_GROUPREQ"]>>

\* _send_kex_init of both ends is done.
ExchangeInit ==
    /\ setting \in Settings
    /\ t = [e \in Sides |-> Fresh(setting)]
    /\ wire = [server |-> <<KexInitOf(setting, "client")>> \o Guessed(setting),
               client |-> <<KexInitOf(setting, "server")>>]

(****************************************************************************)
(* Reading and answering.                                                   *)
(****************************************************************************)
Packet(e) == Head(wire[e])

\* The loop of run takes the next packet, of the type the engine expects.
Receives(e, type) ==
    /\ t[e].pc = "wait" /\ wire[e] # <<>>
    /\ Packet(e).type = type /\ type \in t[e].expected

\* Mutant: the answer is given without saying what comes next.
ExpectingNothing(r, types) == [r EXCEPT !.expected = {}]

\* _expect_packet
Expecting(r, types) == [r EXCEPT !.expected = types]

\* The packet is taken, e goes on as r and has sent packets.
Goes(e, r, packets) ==
    /\ t' = [t EXCEPT ![e] = r]
    /\ wire' = [wire EXCEPT ![e] = Tail(@), ![Peer(e)] = @ \o packets]
    /\ UNCHANGED setting

Dies(e, r, why) == Goes(e, [r EXCEPT !.pc = "dead", !.why = why], <<>>)

\* _activate_outbound sends NEWKEYS: for the engine the exchange is over.
Finishes(e, r, packets) == Goes(e, [r EXCEPT !.pc = "done", !.expected = {"NEWKEYS"}], packets)

\* A public value of e made from x; another program may send any.
Sent(e, x) == {x} \cup IF e \in setting.strange THEN {0} ELSE {}

\* Mutant: an end raises the generator and not the value it was sent.
SharedOwn(value, x) == x

\* pow(value, x, p)
Shared(value, x) == value * x

\* _set_K_H
WithSecret(r, K, H) ==
    [r EXCEPT !.K = K, !.H = H, !.session = IF @ = None THEN H ELSE @]

\* _verify_key: the signature of the server is one of its H.
Verifies(r, sig) == sig = r.H

\* Mutant: the MIC is not looked at.
MicFitsAlways(r, mic) == TRUE

\* ssh_check_mic: the MIC is one of the session id.
MicFits(r, mic) == mic = r.session

(****************************************************************************)
(* _parse_kex_init and start_kex.                                           *)
(****************************************************************************)
\* The ciphers of a direction: c2s from the client to the server, s2c back.
Outgoing(e, lists) == IF e = "client" THEN lists.c2s ELSE lists.s2c
Incoming(e, lists) == Outgoing(Peer(e), lists)

Agreement(e) ==
    LET own == KexInitOf(setting, e).lists
        theirs == Packet(e).lists
    IN  [t[e] EXCEPT
            !.timer  = FALSE,
            !.kex    = Pick(e, own.kex, theirs.kex),
            !.key    = Pick(e, own.key, theirs.key),
            !.local  = Pick(e, Outgoing(e, own), Outgoing(e, theirs)),
            !.remote = Pick(e, Incoming(e, own), Incoming(e, theirs))]

NothingInCommon(e) ==
    /\ Receives(e, "KEXINIT")
    /\ LET r == Agreement(e)
       IN  /\ None \in {r.kex, r.key, r.local, r.remote}
           /\ Dies(e, r, "nothing in common")

\* start_kex when e has agreed on engine.
Starts(e, engine) ==
    /\ Receives(e, "KEXINIT")
    /\ Agreement(e).kex = engine
    /\ None \notin {Agreement(e).key, Agreement(e).local, Agreement(e).remote}

\* An engine with a fixed group: x is chosen, and the client sends e.
StartsWith(e, init, replies) ==
    \E x \in Exponents : \E value \in Sent(e, x) :
        LET r == [Agreement(e) EXCEPT !.x = x]
        IN  IF e = "server"
            THEN Goes(e, Expecting([r EXCEPT !.f = value], {init}), <<>>)
            ELSE Goes(e, Expecting([r EXCEPT !.e = value], replies),
                      <<[type |-> init, value |-> value]>>)

\* The server has e: it makes K and H, and signs H.
Answers(e, r, H, reply) ==
    LET K == Shared(r.e, r.x)
    IN  Finishes(e, WithSecret(r, K, H), <<[type |-> reply, value |-> r.f, sig |-> H]>>)

\* The client has f and the signature.
Concludes(e, r, H) ==
    LET done == WithSecret(r, Shared(r.f, r.x), H)
    IN  IF Verifies(done, Packet(e).sig) THEN Finishes(e, done, <<>>) ELSE Dies(e, done, "signature")

(****************************************************************************)
(* kex_group1.                                                              *)
(****************************************************************************)
StartGroup(e) == Starts(e, "group") /\ StartsWith(e, "DH_INIT", {"DH_REPLY"})

\* H of _parse_kexdh_init and of _parse_kexdh_reply; the versions and KEXINITs are
\* the same at both ends.
GroupHash(r, K) == <<r.key, r.e, r.f, K>>

ParseDhInit(e) ==
    LET r == [t[e] EXCEPT !.e = Packet(e).value]
    IN  /\ Receives(e, "DH_INIT")
        /\ IF r.e = 0 THEN Dies(e, r, "range")
           ELSE Answers(e, r, GroupHash(r, Shared(r.e, r.x)), "DH_REPLY")

ParseDhReply(e) ==
    LET r == [t[e] EXCEPT !.f = Packet(e).value]
    IN  /\ Receives(e, "DH_REPLY")
        /\ IF r.f = 0 THEN Dies(e, r, "range")
           ELSE Concludes(e, r, GroupHash(r, Shared(r.f, r.x)))

(****************************************************************************)
(* kex_ecdh_nist: a point that is not on the curve is refused.              *)
(****************************************************************************)
StartEcdh(e) == Starts(e, "ecdh") /\ StartsWith(e, "ECDH_INIT", {"ECDH_REPLY"})

ParseEcdhInit(e) ==
    LET r == [t[e] EXCEPT !.e = Packet(e).value]
    IN  /\ Receives(e, "ECDH_INIT")
        /\ IF r.e = 0 THEN Dies(e, r, "range")
           ELSE Answers(e, r, GroupHash(r, Shared(r.e, r.x)), "ECDH_REPLY")

ParseEcdhReply(e) ==
    LET r == [t[e] EXCEPT !.f = Packet(e).value]
    IN  /\ Receives(e, "ECDH_REPLY")
        /\ IF r.f = 0 THEN Dies(e, r, "range")
           ELSE Concludes(e, r, GroupHash(r, Shared(r.f, r.x)))

(****************************************************************************)
(* kex_gex and primes.                                                      *)
(****************************************************************************)
Least(a, b) == IF a < b THEN a ELSE b
Most(a, b) == IF a > b THEN a ELSE b

\* Mutant: the nearest size above is taken whatever the upper end is.
GetModulusAbove(pack, bits) ==
    LET above == {b \in pack : b >= bits.n}
    IN  IF above # {} THEN Min(above) ELSE Max(pack)

\* ModulusPack.get_modulus on a pack that is not empty.
GetModulus(pack, bits) ==
    LET above == {b \in pack : b >= bits.n /\ b <= bits.max}
        within == {b \in pack : b >= bits.min /\ b <= bits.max}
    IN  IF above # {} THEN Min(above)
        ELSE IF within # {} THEN Max(within)
        ELSE IF bits.min > Min(pack) THEN Max(pack) ELSE Min(pack)

Smooshed(n) == Most(Least(n, MaxBits), MinBits)

\* min_bits and max_bits are fixed around preferred_bits.
Fixed(asked) ==
    LET n == Smooshed(asked.n)
    IN  [old |-> FALSE, min |-> Least(asked.min, n), n |-> n, max |-> Most(asked.max, n)]

StartGex(e) ==
    /\ Starts(e, "gex")
    /\ LET r == Agreement(e)
           asked == setting.request
       IN  IF e = "server"
           THEN Goes(e, Expecting(r, {"GEX_REQUEST", "GEX_REQUEST_OLD"}), <<>>)
           ELSE Goes(e, Expecting([r EXCEPT !.bits = asked], {"GEX_GROUP"}),
                     <<[type |-> IF asked.old THEN "GEX_REQUEST_OLD" ELSE "GEX_REQUEST",
                        bits |-> asked]>>)

\* The server sends a prime.
SendsGroup(e, bits, group, init) ==
    LET r == [t[e] EXCEPT !.bits = bits]
        p == GetModulus(setting.pack, bits)
    IN  IF setting.pack = None THEN Dies(e, r, "no pack")
        ELSE IF setting.pack = {} THEN Dies(e, r, "no moduli")
        ELSE Goes(e, Expecting([r EXCEPT !.p = p], {init}), <<[type |-> group, p |-> p]>>)

ParseGexRequest(e) ==
    /\ Receives(e, "GEX_REQUEST")
    /\ SendsGroup(e, Fixed(Packet(e).bits), "GEX_GROUP", "GEX_INIT")

\* Mutant: the server forgets that the request was of the old kind.
ParseGexRequestOldForgotten(e) ==
    /\ Receives(e, "GEX_REQUEST_OLD")
    /\ SendsGroup(e, [t[e].bits EXCEPT !.n = Smooshed(Packet(e).bits.n)],
                  "GEX_GROUP", "GEX_INIT")

ParseGexRequestOld(e) ==
    /\ Receives(e, "GEX_REQUEST_OLD")
    /\ SendsGroup(e, [t[e].bits EXCEPT !.old = TRUE, !.n = Smooshed(Packet(e).bits.n)],
                  "GEX_GROUP", "GEX_INIT")

\* The client has the prime, checks its size and sends e.
TakesGroup(e, init, replies) ==
    LET r == [t[e] EXCEPT !.p = Packet(e).p]
    IN  IF r.p < MinBits \/ r.p > MaxBits THEN Dies(e, r, "size")
        ELSE \E x \in Exponents : \E value \in Sent(e, x) :
                Goes(e, Expecting([r EXCEPT !.x = x, !.e = value], replies),
                     <<[type |-> init, value |-> value]>>)

ParseGexGroup(e) == Receives(e, "GEX_GROUP") /\ TakesGroup(e, "GEX_INIT", {"GEX_REPLY"})

BitsHashed(r) == IF r.bits.old THEN <<r.bits.n>> ELSE <<r.bits.min, r.bits.n, r.bits.max>>

GexHash(r, K) == <<r.key, BitsHashed(r), r.p, r.e, r.f, K>>

\* x is chosen only now.
ParseGexInit(e) ==
    /\ Receives(e, "GEX_INIT")
    /\ IF Packet(e).value = 0 THEN Dies(e, t[e], "range")
       ELSE \E x \in Exponents : \E value \in Sent(e, x) :
               LET r == [t[e] EXCEPT !.e = Packet(e).value, !.x = x, !.f = value]
               IN  Answers(e, r, GexHash(r, Shared(r.e, x)), "GEX_REPLY")

ParseGexReply(e) ==
    LET r == [t[e] EXCEPT !.f = Packet(e).value]
    IN  /\ Receives(e, "GEX_REPLY")
        /\ IF r.f = 0 THEN Dies(e, r, "range")
           ELSE Concludes(e, r, GexHash(r, Shared(r.f, r.x)))

(****************************************************************************)
(* kex_gss: a MIC of the session id stands where the other engines have a   *)
(* signature of H.                                                          *)
(****************************************************************************)
GssReplies == {"GSS_HOSTKEY", "GSS_CONTINUE", "GSS_COMPLETE", "GSS_ERROR"}

StartGss(e) == Starts(e, "gss") /\ StartsWith(e, "GSS_INIT", GssReplies)

StartGssGex(e) ==
    /\ Starts(e, "gssgex")
    /\ LET r == Agreement(e)
           asked == [setting.request EXCEPT !.old = FALSE]
       IN  IF e = "server"
           THEN Goes(e, Expecting(r, {"GSS_GROUPREQ"}), <<>>)
           ELSE Goes(e, Expecting([r EXCEPT !.bits = asked], {"GSS_GROUP"}),
                     <<[type |-> "GSS_GROUPREQ", bits |-> asked]>>)

ParseGssGroupreq(e) ==
    /\ Receives(e, "GSS_GROUPREQ")
    /\ SendsGroup(e, Fixed(Packet(e).bits), "GSS_GROUP", "GSS_INIT")

ParseGssGroup(e) == Receives(e, "GSS_GROUP") /\ TakesGroup(e, "GSS_INIT", GssReplies)

\* The null host key stands for the host key.
GssHash(r, K) == <<"null", r.e, r.f, K>>
GssGexHash(r, K) == <<"null", BitsHashed(r), r.p, r.e, r.f, K>>

\* The context may want another round trip; ssh_accept_sec_context may raise.
AcceptsToken(e, r, H) ==
    LET done == WithSecret(r, Shared(r.e, r.x), H)
    IN  \/ Finishes(e, done, <<[type |-> "GSS_COMPLETE", value |-> r.f, mic |-> done.session]>>)
        \/ Goes(e, Expecting(done, {"GSS_CONTINUE", "GSS_COMPLETE", "GSS_ERROR"}),
                <<[type |-> "GSS_CONTINUE"]>>)
        \/ Dies(e, done, "gss")

ParseGssInit(e) ==
    LET r == [t[e] EXCEPT !.e = Packet(e).value]
    IN  /\ Receives(e, "GSS_INIT") /\ r.kex = "gss"
        /\ IF r.e = 0 THEN Dies(e, r, "range")
           ELSE AcceptsToken(e, r, GssHash(r, Shared(r.e, r.x)))

ParseGssGexInit(e) ==
    /\ Receives(e, "GSS_INIT") /\ t[e].kex = "gssgex"
    /\ IF Packet(e).value = 0 THEN Dies(e, t[e], "range")
       ELSE \E x \in Exponents : \E value \in Sent(e, x) :
               LET r == [t[e] EXCEPT !.e = Packet(e).value, !.x = x, !.f = value]
               IN  AcceptsToken(e, r, GssGexHash(r, Shared(r.e, x)))

\* A client of group1 does not read CONTINUE, and one of gex has no send_message.
ParseGssContinue(e) == Receives(e, "GSS_CONTINUE") /\ Dies(e, t[e], "gss")

\* ssh_init_sec_context may raise too.
ChecksMic(e, r, H) ==
    LET done == WithSecret(r, Shared(r.f, r.x), H)
    IN  \/ Dies(e, done, "gss")
        \/ IF MicFits(done, Packet(e).mic) THEN Finishes(e, done, <<>>) ELSE Dies(e, done, "mic")

ParseGssComplete(e) ==
    LET r == [t[e] EXCEPT !.f = Packet(e).value]
    IN  /\ Receives(e, "GSS_COMPLETE") /\ r.kex = "gss"
        /\ IF r.f = 0 THEN Dies(e, r, "range")
           ELSE ChecksMic(e, r, GssHash(r, Shared(r.f, r.x)))

ParseGssGexComplete(e) ==
    LET r == [t[e] EXCEPT !.f = Packet(e).value]
    IN  /\ Receives(e, "GSS_COMPLETE") /\ r.kex = "gssgex"
        /\ IF r.f = 0 THEN Dies(e, r, "range")
           ELSE ChecksMic(e, r, GssGexHash(r, Shared(r.f, r.x)))

(****************************************************************************)
(* What else the loop of run and the packetizer do.                         *)
(****************************************************************************)
\* The exchange expects another packet.
Refuse(e) ==
    /\ t[e].pc = "wait" /\ wire[e] # <<>> /\ t[e].expected # {}
    /\ Packet(e).type \notin t[e].expected
    /\ Dies(e, t[e], "expected")

Stops(e, pc, why) ==
    /\ t' = [t EXCEPT ![e].pc = pc, ![e].why = why]
    /\ UNCHANGED <<setting, wire>>

\* Mutant: the end of the connection is not noticed.
PeerGoneUnseen(e) == FALSE

\* read_all finds the connection closed.
PeerGone(e) ==
    /\ t[e].pc = "wait" /\ wire[e] = <<>> /\ t[Peer(e)].pc = "dead"
    /\ Stops(e, "dead", "eof")

\* handshake_timed_out: complete_handshake stops the timer when run has handled
\* the KEXINIT.
HandshakeTimesOut(e) == t[e].pc = "wait" /\ t[e].timer /\ Stops(e, "dead", "timeout")

\* The other machine hangs.
FallsSilent(e) == e \in setting.silent /\ t[e].pc = "wait" /\ Stops(e, "silent", "none")

ParseKexInit(e) ==
    \/ NothingInCommon(e)
    \/ StartGroup(e) \/ StartEcdh(e) \/ StartGex(e) \/ StartGss(e) \/ StartGssGex(e)

ParseNext(e) ==
    \/ ParseDhInit(e) \/ ParseDhReply(e) \/ ParseEcdhInit(e) \/ ParseEcdhReply(e)
    \/ ParseGexRequest(e) \/ ParseGexRequestOld(e) \/ ParseGexGroup(e)
    \/ ParseGexInit(e) \/ ParseGexReply(e)
    \/ ParseGssGroupreq(e) \/ ParseGssGroup(e) \/ ParseGssInit(e) \/ ParseGssGexInit(e)
    \/ ParseGssContinue(e) \/ ParseGssComplete(e) \/ ParseGssGexComplete(e)

Run(e) == ParseKexInit(e) \/ ParseNext(e) \/ Refuse(e) \/ PeerGone(e)

ExchangeNext == \E e \in Sides : Run(e) \/ HandshakeTimesOut(e) \/ FallsSilent(e)

ExchangeSpec == ExchangeInit /\ [][ExchangeNext]_exchangeVars

\* The transport threads run, and the handshake timers.
ExchangeFairSpec ==
    ExchangeSpec /\ \A e \in Sides : WF_exchangeVars(Run(e)) /\ WF_exchangeVars(HandshakeTimesOut(e))
-----------------------------------------------------------------------------

(* What the ends remember has its type, and an end in the middle of an      *)
(* exchange knows which packet comes next.                                  *)
ExchangeTypeOK ==
    /\ setting \in Settings
    /\ \A e \in Sides :
        /\ t[e].pc \in {"wait", "done", "dead", "silent"}
        /\ t[e].pc = "wait" => t[e].expected # {}
        /\ t[e].kex \in Engines \cup {None}
        /\ t[e].x \in Exponents \cup {None}

\* The request is one the server's limits leave as it is.
Consistent ==
    LET r == setting.request
    IN  IF r.old THEN Smooshed(r.n) = r.n ELSE Fixed(r) = r

\* A gss engine of a later exchange proves only that the session is the same one.
Unproved == t["client"].kex = "gssgex" /\ ~Consistent /\ setting.earlier # None

(* When both ends have agreed, they have agreed on the same: engine, host key *)
(* and, in each direction, cipher (_parse_kex_init).                          *)
SameAlgorithms ==
    LET c == t["client"]  s == t["server"]
    IN  c.kex # None /\ s.kex # None /\ c.pc # "dead" /\ s.pc # "dead" =>
            /\ c.kex = s.kex /\ c.key = s.key
            /\ c.local = s.remote /\ c.remote = s.local

(* A client that goes on to its new keys shares K and H with the server, through *)
(* every engine (_set_K_H, _verify_key).                                         *)
SecretShared ==
    t["client"].pc = "done" /\ ~Unproved =>
        t["client"].K = t["server"].K /\ t["client"].H = t["server"].H

(* A client that goes on has the server's session id, whatever sizes it asked *)
(* for and however often keys were exchanged.                                 *)
SameSession == t["client"].pc = "done" => t["client"].session = t["server"].session

(* An exchange does not fail by itself: with sizes the server can leave as they *)
(* are and no wrong guess, no end dies of a packet it did not expect, of a      *)
(* signature or of a MIC; and of the range only if the other sent such a value. *)
NoFalseAlarm ==
    \A e \in Sides :
        /\ Consistent => t[e].why \notin {"signature", "mic"}
        /\ setting.guess = "none" => t[e].why # "expected"
        /\ t[e].why = "range" => Peer(e) \in setting.strange

(* The prime is of a size the client asked for, if the server has one such, and *)
(* the nearest to the wish from above, if one is there (get_modulus).           *)
GroupFits ==
    LET p == t["server"].p
        r == IF setting.request.old THEN [ClassBits EXCEPT !.n = setting.request.n]
             ELSE setting.request
        able == {b \in setting.pack : b >= r.min /\ b <= r.max}
    IN  p # None /\ Consistent /\ able # {} =>
            /\ p \in able
            /\ \A b \in able : b >= r.n => p >= r.n /\ p <= b

(* An exchange ends: both ends go on to the new keys or fail, unless the other *)
(* machine hangs.                                                              *)
KexEnds == \A e \in Sides : t[e].pc = "wait" ~> t[e].pc # "wait" \/ t[Peer(e)].pc = "silent"

(* An exchange that succeeds leaves the ends with the same algorithms, secret  *)
(* and session id.                                                             *)
EndsAgree == ExchangeTypeOK /\ SameAlgorithms /\ SecretShared /\ SameSession
=============================================================================
