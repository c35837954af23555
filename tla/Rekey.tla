-------------------------------- MODULE Rekey --------------------------------

(******************************************************************************)
(* Key exchange between two transports: the client and the server end of one  *)
(* SSH connection, wetland being the server of a hacker and the client of a   *)
(* container.  Each end has a transport thread that runs Transport.run and    *)
(* user threads that send with _send_user_message.  New keys are negotiated   *)
(* when the connection starts and whenever the packetizer of an end has       *)
(* counted enough packets in one direction.                                   *)
(*                                                                            *)
(* The exchange of one engine is a dialogue of packets the two ends send in   *)
(* turn; the exchange hash H is abstracted to the two KEXINITs that enter it, *)
(* and the keys of both directions to H.                                      *)
(******************************************************************************)
EXTENDS Naturals, Sequences, FiniteSets

Ends == {"client", "server"}
Peer(e) == IF e = "client" THEN "server" ELSE "client"

CONSTANTS
    Preferences,    \* the kex lists the two ends may have
    Moduli,         \* load_server_moduli found a file of primes
    UserMessages,   \* bound on the messages of the users of each end
    Kinds,          \* what users send: "data", "ask" or "call"
    RekeyPackets,   \* Packetizer.REKEY_PACKETS, 2^29
    OverflowMax     \* Packetizer.REKEY_PACKETS_OVERFLOW_MAX, 2^29

\* The packets of an exchange; the client sends the first.
Dialogue == [group |-> <<"DH_INIT", "DH_REPLY">>,
             gex |-> <<"GEX_REQUEST", "GEX_GROUP", "GEX_INIT", "GEX_REPLY">>]
Engines == DOMAIN Dialogue

ASSUME PreferencesAssumption == Preferences \subseteq [Ends -> Seq(Engines)]
ASSUME UsersAssumption ==
    /\ Moduli \in BOOLEAN
    /\ UserMessages \in [Ends -> Nat]
    /\ Kinds \subseteq {"data", "ask", "call"}
ASSUME LimitAssumption == RekeyPackets \in Nat \ {0} /\ OverflowMax \in Nat \ {0}

VARIABLES
    preferred,   \* _preferred_kex of each end
    t,           \* the transport of each end, see Fresh
    wire,        \* packets each end has still to read
    toSend       \* messages the users of each end still want to send

vars == <<preferred, t, wire, toSend>>

NoKey == <<0, 0>>

\* A transport before its thread runs.
Fresh == [
    active     |-> TRUE,
    why        |-> "none",    \* history: what ended it
    intruded   |-> FALSE,     \* history: sent something else inside an exchange
    pc         |-> "start",
    needRekey  |-> FALSE,     \* Packetizer.__need_rekey
    inKex      |-> FALSE,
    clear      |-> FALSE,     \* clear_to_send
    done       |-> FALSE,     \* initial_kex_done
    reset      |-> {},        \* Packetizer.__init_count
    cookies    |-> 0,         \* KEXINITs sent
    localInit  |-> 0,         \* local_kex_init, 0 for None
    remoteInit |-> 0,         \* remote_kex_init
    engine     |-> "none",    \* kex_engine
    expected   |-> {},        \* _expected_packet
    secret     |-> NoKey,     \* K and H
    session    |-> NoKey,     \* session_id
    outKey     |-> NoKey,
    inKey      |-> NoKey,
    sent       |-> 0,
    received   |-> 0,
    overflow   |-> 0]

Init ==
    /\ preferred \in Preferences
    /\ t = [e \in Ends |-> Fresh]
    /\ wire = [e \in Ends |-> <<>>]
    /\ toSend = UserMessages

(****************************************************************************)
(* Packets.                                                                 *)
(****************************************************************************)
Packet(r, type, body) == [type |-> type, key |-> r.outKey, body |-> body]
Plain(r, type) == Packet(r, type, NoKey)

Least(a, b) == IF a < b THEN a ELSE b

\* What send_message counts; only the first time over the limit asks for new keys.
CountSent(r, n) ==
    LET s == Least(r.sent + n, RekeyPackets)
    IN  IF s = RekeyPackets /\ ~r.needRekey
        THEN [r EXCEPT !.sent = s, !.overflow = 0, !.needRekey = TRUE]
        ELSE [r EXCEPT !.sent = s]

\* What read_message counts.
CountReceived(r) ==
    LET n == Least(r.received + 1, RekeyPackets)
    IN  IF r.needRekey THEN [r EXCEPT !.received = n, !.overflow = @ + 1]
        ELSE IF n = RekeyPackets
        THEN [r EXCEPT !.received = n, !.overflow = 0, !.needRekey = TRUE]
        ELSE [r EXCEPT !.received = n]

\* Mutant: the directions that have new keys are not forgotten.
SwitchedForever(r, direction) ==
    [r EXCEPT !.reset = @ \cup {direction},
              !.needRekey = @ /\ r.reset \cup {direction} # {"in", "out"}]

\* Mutant: a wish for new keys outlives them.
SwitchedWishing(r, direction) ==
    [r EXCEPT !.reset = IF @ \cup {direction} = {"in", "out"} THEN {} ELSE @ \cup {direction}]

\* set_outbound_cipher and set_inbound_cipher: a wish for new keys is granted
\* when both directions have them.
Switched(r, direction) ==
    IF r.reset \cup {direction} = {"in", "out"}
    THEN [r EXCEPT !.reset = {}, !.needRekey = FALSE]
    ELSE [r EXCEPT !.reset = @ \cup {direction}]

\* The thread of e goes on as r and sends packets.
Sends(e, r, packets) ==
    /\ t' = [t EXCEPT ![e] = CountSent(r, Len(packets))]
    /\ wire' = [wire EXCEPT ![Peer(e)] = @ \o packets]

Dead(r, why) == [r EXCEPT !.active = FALSE, !.why = why, !.pc = "end"]

\* An exception leaves the loop of run; its packet, if it read one, is gone.
Dies(e, r, why) == t' = [t EXCEPT ![e] = Dead(r, why)]

(****************************************************************************)
(* _send_kex_init: the users are stopped before the packet is sent.         *)
(****************************************************************************)
\* Mutant: the users are not stopped.
WithKexInitUnstopped(r) ==
    [r EXCEPT !.inKex = TRUE, !.cookies = @ + 1, !.localInit = r.cookies + 1]

WithKexInit(r) ==
    [r EXCEPT !.clear = FALSE, !.inKex = TRUE, !.cookies = @ + 1,
              !.localInit = r.cookies + 1]

\* Between its KEXINIT and its new outbound keys an end sends only what the
\* exchange needs.
Mid(r) == r.localInit # 0 /\ (r.secret = NoKey \/ r.outKey # r.secret)

Intruding(r) == [r EXCEPT !.intruded = @ \/ Mid(r)]

KexInit(r) == Packet(r, "KEXINIT", <<r.cookies + 1, 0>>)

\* The start of run: banners are exchanged, then the first KEXINIT.
Start(e) ==
    /\ t[e].pc = "start"
    /\ Sends(e, [WithKexInit(t[e]) EXCEPT !.pc = "top", !.expected = {"KEXINIT"}],
             <<KexInit(t[e])>>)
    /\ UNCHANGED <<preferred, toSend>>

BannerFails(e) ==
    /\ t[e].pc = "start"
    /\ Dies(e, t[e], "banner")
    /\ UNCHANGED <<preferred, wire, toSend>>

\* The top of the loop.
Top(e) ==
    /\ t[e].pc = "top"
    /\ IF t[e].needRekey /\ ~t[e].inKex
       THEN Sends(e, [WithKexInit(t[e]) EXCEPT !.pc = "read"], <<KexInit(t[e])>>)
       ELSE t' = [t EXCEPT ![e].pc = "read"] /\ UNCHANGED wire
    /\ UNCHANGED <<preferred, toSend>>

\* NeedRekeyException: a user has sent too much while read_all waits.
NeedRekey(e) ==
    /\ t[e].pc = "read" /\ wire[e] = <<>> /\ t[e].needRekey /\ ~t[e].inKex
    /\ t' = [t EXCEPT ![e].pc = "top"]
    /\ UNCHANGED <<preferred, wire, toSend>>

(******************************************************************************)
(* Reading: the checks of read_message and of run before a packet is handled. *)
(******************************************************************************)
Next1(e) == Head(wire[e])

\* The transport after it has read the packet and gone past the check of
\* _expected_packet.
Taken(e) == [CountReceived(t[e]) EXCEPT !.expected = {}, !.pc = "top"]

Refusal(e) ==
    LET r == CountReceived(t[e])
    IN  IF Next1(e).key # r.inKey THEN "mac"
        ELSE IF r.overflow >= OverflowMax THEN "ignored"
        ELSE IF r.expected # {} /\ Next1(e).type \notin r.expected THEN "expected"
        ELSE "none"

Refuse(e) ==
    /\ t[e].pc = "read" /\ wire[e] # <<>> /\ Refusal(e) # "none"
    /\ Dies(e, t[e], Refusal(e))
    /\ UNCHANGED <<preferred, wire, toSend>>

\* e reads a packet, becomes r and answers with packets.
Reads(e, types, r, packets) ==
    /\ t[e].pc = "read" /\ wire[e] # <<>> /\ Refusal(e) = "none"
    /\ Next1(e).type \in types
    /\ t' = [t EXCEPT ![e] = CountSent(r, Len(packets))]
    /\ wire' = [wire EXCEPT ![e] = Tail(@), ![Peer(e)] = @ \o packets]
    /\ UNCHANGED <<preferred, toSend>>

\* EOFError: the peer is gone, perhaps with packets unread.
PeerGone(e) ==
    /\ t[e].pc = "read" /\ ~t[Peer(e)].active
    /\ Dies(e, t[e], "eof")
    /\ UNCHANGED <<preferred, wire, toSend>>

(****************************************************************************)
(* _negotiate_keys: a KEXINIT is answered with one unless ours is out; then *)
(* _parse_kex_init agrees on an engine and start_kex starts it.             *)
(****************************************************************************)
\* A server without primes takes the gex engines off its list.
Offered(e) ==
    {k \in Engines : /\ \E i \in DOMAIN preferred[e] : preferred[e][i] = k
                     /\ e = "server" /\ k = "gex" => Moduli}

\* The client's list names k before any l.
Prefers(k, l) ==
    \E i \in DOMAIN preferred["client"] :
        /\ preferred["client"][i] = k
        /\ \A j \in 1 .. i : preferred["client"][j] # l

\* Both ends take the client's first engine that the server has.
Agreed ==
    LET common == Offered("client") \cap Offered("server")
    IN  IF common = {} THEN "none"
        ELSE CHOOSE k \in common : \A l \in common \ {k} : ~Prefers(l, k)

\* Mutant: the KEXINIT that asked for new keys is sent a second time.
AnsweringInitAlways(e) == TRUE

AnsweringInit(e) == t[e].localInit = 0

NegotiateKeys(e) ==
    LET answering == AnsweringInit(e)
        r == IF answering THEN WithKexInit(Taken(e)) ELSE [Taken(e) EXCEPT !.clear = FALSE]
        ours == IF answering THEN <<KexInit(t[e])>> ELSE <<>>
        first == Dialogue[Agreed][1]
        started == [r EXCEPT !.remoteInit = Next1(e).body[1], !.engine = Agreed]
    IN  IF Agreed = "none"
        THEN Reads(e, {"KEXINIT"}, Dead(r, "engine"), ours)
        ELSE IF e = "client"
        THEN Reads(e, {"KEXINIT"}, [started EXCEPT !.expected = {Dialogue[Agreed][2]}],
                   Append(ours, Plain(r, first)))
        ELSE Reads(e, {"KEXINIT"}, [started EXCEPT !.expected = {first}], ours)

(******************************************************************************)
(* parse_next of the engines.  H is made of the KEXINITs in the order client, *)
(* server; the last packet carries the server's signature of it.              *)
(******************************************************************************)
Hash(e, r) ==
    IF e = "client" THEN <<r.localInit, r.remoteInit>> ELSE <<r.remoteInit, r.localInit>>

\* Mutant: every exchange makes a new session id.
WithSecretAnew(e, r) == [r EXCEPT !.secret = Hash(e, r), !.session = Hash(e, r)]

\* _set_K_H: the first hash is the session id.
WithSecret(e, r) ==
    [r EXCEPT !.secret = Hash(e, r),
              !.session = IF r.session = NoKey THEN Hash(e, r) ELSE @]

Position(e) ==
    LET d == Dialogue[t[e].engine]
    IN  CHOOSE i \in 1 .. Len(d) : d[i] = Next1(e).type

KexTypes(e) ==
    IF t[e].engine = "none" THEN {}
    ELSE {Dialogue[t[e].engine][i] : i \in 1 .. Len(Dialogue[t[e].engine])}

\* A packet in the middle is answered with the next one.
KexContinues(e) ==
    LET d == Dialogue[t[e].engine]
        i == Position(e)
    IN  /\ i + 1 < Len(d)
        /\ Reads(e, KexTypes(e), [Taken(e) EXCEPT !.expected = {d[i + 2]}],
                 <<Plain(t[e], d[i + 1])>>)

\* The server's last packet, then _activate_outbound up to its NEWKEYS.
KexReplies(e) ==
    LET d == Dialogue[t[e].engine]
        i == Position(e)
    IN  /\ i + 1 = Len(d)
        /\ Reads(e, KexTypes(e), [WithSecret(e, Taken(e)) EXCEPT !.pc = "switch"],
                 <<Packet(t[e], d[i + 1], Hash(e, t[e])), Plain(t[e], "NEWKEYS")>>)

\* The client verifies the signature over its own hash.
KexEnds(e) ==
    /\ Position(e) = Len(Dialogue[t[e].engine])
    /\ IF Next1(e).body = Hash(e, t[e])
       THEN Reads(e, KexTypes(e), [WithSecret(e, Taken(e)) EXCEPT !.pc = "switch"],
                  <<Plain(t[e], "NEWKEYS")>>)
       ELSE Reads(e, KexTypes(e), Dead(WithSecret(e, Taken(e)), "signature"), <<>>)

ParseNext(e) ==
    /\ t[e].pc = "read" /\ wire[e] # <<>> /\ t[e].expected # {}
    /\ Next1(e).type \in KexTypes(e)
    /\ KexContinues(e) \/ KexReplies(e) \/ KexEnds(e)

\* The rest of _activate_outbound: what was sent between NEWKEYS and here went
\* out with the old keys.
ActivateOutbound(e) ==
    LET r == Switched([t[e] EXCEPT !.outKey = t[e].secret, !.sent = 0], "out")
    IN  /\ t[e].pc = "switch"
        /\ t' = [t EXCEPT ![e] = [r EXCEPT !.inKex = @ /\ r.needRekey,
                                           !.expected = {"NEWKEYS"}, !.pc = "top"]]
        /\ UNCHANGED <<preferred, wire, toSend>>

\* Mutant: the users are let go on only when no new wish for keys has come up.
ParseNewkeysQuiet(e) ==
    LET r == Switched([Taken(e) EXCEPT !.inKey = t[e].secret, !.received = 0,
                                       !.overflow = 0], "in")
    IN  Reads(e, {"NEWKEYS"},
              [r EXCEPT !.localInit = 0, !.remoteInit = 0, !.engine = "none",
                        !.secret = NoKey, !.inKex = @ /\ r.needRekey, !.clear = r.done,
                        !.done = TRUE], <<>>)

\* Mutant: the keys of the inbound direction stay the old ones.
ParseNewkeysOutbound(e) ==
    LET r == Switched(Taken(e), "in")
    IN  Reads(e, {"NEWKEYS"},
              [r EXCEPT !.localInit = 0, !.remoteInit = 0, !.engine = "none",
                        !.secret = NoKey, !.inKex = @ /\ r.needRekey,
                        !.clear = TRUE, !.done = TRUE], <<>>)

\* _parse_newkeys
ParseNewkeys(e) ==
    LET r == Switched([Taken(e) EXCEPT !.inKey = t[e].secret, !.received = 0,
                                       !.overflow = 0], "in")
    IN  Reads(e, {"NEWKEYS"},
              IF t[e].secret = NoKey THEN Dead(Taken(e), "no secret")
              ELSE [r EXCEPT !.localInit = 0, !.remoteInit = 0, !.engine = "none",
                             !.secret = NoKey, !.inKex = @ /\ r.needRekey,
                             !.clear = TRUE, !.done = TRUE], <<>>)

(****************************************************************************)
(* Everything else.  "ask" stands for what a handler answers with           *)
(* _send_message, "call" for what it answers with _send_user_message.       *)
(****************************************************************************)
ReadQuiet(e) == Reads(e, {"data", "answer"}, Taken(e), <<>>)

ReadAsk(e) == Reads(e, {"ask"}, Intruding(Taken(e)), <<Plain(t[e], "answer")>>)

ReadCall(e) == Reads(e, {"call"}, [Taken(e) EXCEPT !.pc = "reply"], <<>>)

\* The handler waits for clear_to_send as a user would.
Reply(e) ==
    /\ t[e].pc = "reply" /\ t[e].clear
    /\ Sends(e, [t[e] EXCEPT !.pc = "top"], <<Plain(t[e], "answer")>>)
    /\ UNCHANGED <<preferred, toSend>>

ReplyTimeout(e) ==
    /\ t[e].pc = "reply" /\ ~t[e].clear
    /\ Dies(e, t[e], "timeout")
    /\ UNCHANGED <<preferred, wire, toSend>>

(****************************************************************************)
(* The users, once start_client or start_server has returned.               *)
(****************************************************************************)
Wants(e) == t[e].done /\ toSend[e] > 0

\* _send_user_message: clear_to_send is tested and the packet sent under
\* clear_to_send_lock.
UserSends(e) ==
    /\ Wants(e) /\ t[e].active /\ t[e].clear
    /\ \E kind \in Kinds : Sends(e, t[e], <<Plain(t[e], kind)>>)
    /\ toSend' = [toSend EXCEPT ![e] = @ - 1]
    /\ UNCHANGED preferred

\* "Dropping user packet because connection is dead", or clear_to_send_timeout.
UserGivesUp(e) ==
    /\ Wants(e) /\ (~t[e].active \/ ~t[e].clear)
    /\ toSend' = [toSend EXCEPT ![e] = @ - 1]
    /\ UNCHANGED <<preferred, t, wire>>

Handle(e) ==
    \/ NegotiateKeys(e) \/ ParseNext(e) \/ ParseNewkeys(e)
    \/ ReadQuiet(e) \/ ReadAsk(e) \/ ReadCall(e)

Run(e) ==
    \/ Start(e) \/ Top(e) \/ NeedRekey(e) \/ Refuse(e) \/ Handle(e)
    \/ PeerGone(e) \/ ActivateOutbound(e) \/ Reply(e) \/ ReplyTimeout(e)

Users(e) == UserSends(e) \/ UserGivesUp(e)

Next == \E e \in Ends : Run(e) \/ BannerFails(e) \/ Users(e)

Spec == Init /\ [][Next]_vars

\* The transport threads run; a user need not send, but what it gave to
\* _send_user_message is sent, dropped or given up.
FairSpec == Spec /\ \A e \in Ends : WF_vars(Run(e)) /\ WF_vars(Users(e))
-----------------------------------------------------------------------------
TypeOK ==
    /\ preferred \in Preferences
    /\ toSend \in [Ends -> Nat]
    /\ \A e \in Ends :
        /\ t[e].needRekey \in BOOLEAN /\ t[e].inKex \in BOOLEAN /\ t[e].clear \in BOOLEAN
        /\ t[e].engine \in Engines \cup {"none"}
        /\ t[e].sent \in 0 .. RekeyPackets /\ t[e].received \in 0 .. RekeyPackets
        /\ t[e].reset \in {{}, {"in"}, {"out"}}

(* A change of keys does not end a connection: no packet is read with other  *)
(* keys than it was written with or comes where another one is expected, and *)
(* both ends hash the same KEXINITs, unless the end that sent it has itself  *)
(* sent something between its KEXINIT and its new keys.                      *)
RekeySurvives ==
    \A e \in Ends :
        /\ t[e].why \notin {"signature", "no secret"}
        /\ t[e].why \in {"mac", "expected"} => t[Peer(e)].intruded

(* Both ends derive the session id from the same, first, exchange.          *)
OneSession ==
    t["client"].session # NoKey /\ t["server"].session # NoKey =>
        t["client"].session = t["server"].session

(* While nothing is under way each end reads with the keys the other writes. *)
SameKeys ==
    (\A e \in Ends : t[e].active /\ t[e].clear /\ wire[e] = <<>>) =>
        \A e \in Ends : t[e].inKey = t[Peer(e)].outKey

(* Messages given to _send_user_message stay out of an exchange, however the *)
(* users and the thread of an end interleave.                                *)
UsersStayOut ==
    [][\A e \in Ends : Mid(t[e]) /\ toSend'[e] < toSend[e] =>
           wire'[Peer(e)] = wire[Peer(e)]]_vars

(* A wish for new keys is granted, or the connection ends.                  *)
WishGranted == \A e \in Ends : t[e].needRekey ~> ~t[e].needRekey \/ ~t[e].active

(* Users stopped for an exchange are let go on, or the connection ends.     *)
UsersLetGo == \A e \in Ends : ~t[e].clear ~> t[e].clear \/ ~t[e].active

(* Both ends come out of every exchange with the same keys and the session id  *)
(* of the first, and with their connection.                                    *)
KeysAgree == TypeOK /\ RekeySurvives /\ OneSession /\ SameKeys

(* An exchange ends for the thread that wished for it and for the users it     *)
(* stopped.                                                                    *)
ExchangeEnds == WishGranted /\ UsersLetGo
=============================================================================
