---------------------------- MODULE RekeyProofs -----------------------------

(****************************************************************************)
(* That a change of keys leaves both ends of a connection with the same     *)
(* keys, for any preferences, limits of the packetizer and users.           *)
(*                                                                          *)
(* The packets of a direction that are not users' form a fixed series: a    *)
(* KEXINIT, the packets of the dialogue, a NEWKEYS, the next KEXINIT and so *)
(* on.  A level counts how far an end has come in the series it sends and   *)
(* how far in the series it reads: 4 * k when k exchanges are over, 1 more  *)
(* after the KEXINIT, 2 and 3 more after packets of the dialogue.  What     *)
(* both levels of an end are follows from its own transport (Stage); what   *)
(* is on the wire is what leads from the level read to the level sent       *)
(* (Flow).                                                                  *)
(****************************************************************************)
EXTENDS Rekey, SequenceTheorems, TLAPS

K(k) == <<k, k>>

UserTypes == {"data", "ask", "call", "answer"}
PacketTypes == UserTypes \cup {"KEXINIT", "NEWKEYS", "DH_INIT", "DH_REPLY", "GEX_REQUEST",
                               "GEX_GROUP", "GEX_INIT", "GEX_REPLY"}
Packets == [type : PacketTypes, key : Nat \X Nat, body : Nat \X Nat]

Fields == {"active", "why", "intruded", "pc", "needRekey", "inKex", "clear", "done", "reset",
           "cookies", "localInit", "remoteInit", "engine", "expected", "secret", "session",
           "outKey", "inKey", "sent", "received", "overflow"}

\* The transport of an end, field by field.
Typed(r) ==
    /\ DOMAIN r = Fields
    /\ r.active \in BOOLEAN /\ r.intruded \in BOOLEAN /\ r.needRekey \in BOOLEAN
    /\ r.inKex \in BOOLEAN /\ r.clear \in BOOLEAN /\ r.done \in BOOLEAN
    /\ r.pc \in {"start", "top", "read", "switch", "reply", "end"}
    /\ r.reset \in {{}, {"in"}, {"out"}}
    /\ r.cookies \in Nat /\ r.localInit \in Nat /\ r.remoteInit \in Nat
    /\ r.engine \in Engines \cup {"none"} /\ r.expected \subseteq PacketTypes
    /\ r.secret \in Nat \X Nat /\ r.session \in Nat \X Nat
    /\ r.outKey \in Nat \X Nat /\ r.inKey \in Nat \X Nat
    /\ r.sent \in 0 .. RekeyPackets /\ r.received \in 0 .. RekeyPackets /\ r.overflow \in Nat

TypeInv ==
    /\ preferred \in Preferences
    /\ DOMAIN t = Ends /\ \A e \in Ends : Typed(t[e])
    /\ wire \in [Ends -> Seq(Packets)]
    /\ toSend \in [Ends -> Nat]

\* The packets of engine g that end p sends: the j-th of them, and the level
\* inside an exchange at which only NEWKEYS is left to send.
Mine(g, p, j) == Dialogue[g][IF p = "client" THEN 2 * j - 1 ELSE 2 * j]
Final(g) == IF g = "gex" THEN 3 ELSE 2

\* Packet m of p leads from level a to level b.  Only an end that intrudes sends
\* a packet of its users inside an exchange.
UserHop(m, intrudes, k, a, b) ==
    /\ m.type \in UserTypes /\ a = b /\ 4 * k <= a /\ a < 4 * k + 4
    /\ intrudes \/ (a = 4 * k /\ k > 0)

InitHop(m, k, a, b) ==
    a = 4 * k /\ b = 4 * k + 1 /\ m.type = "KEXINIT" /\ m.body = <<k + 1, 0>>

DialogueHop(g, p, m, k, a, b) ==
    /\ g # "none"
    /\ \E j \in 1 .. Final(g) - 1 :
           /\ a = 4 * k + j /\ b = 4 * k + j + 1 /\ m.type = Mine(g, p, j)
           /\ p = "server" /\ j + 1 = Final(g) => m.body = K(k + 1)

NewkeysHop(g, m, k, a, b) ==
    g # "none" /\ a = 4 * k + Final(g) /\ b = 4 * k + 4 /\ m.type = "NEWKEYS"

Hop(g, p, intrudes, m, a, b) ==
    \E k \in Nat :
        /\ m.key = K(k)
        /\ \/ UserHop(m, intrudes, k, a, b)
           \/ InitHop(m, k, a, b)
           \/ DialogueHop(g, p, m, k, a, b)
           \/ NewkeysHop(g, m, k, a, b)

Flow(g, p, intrudes, a, b, q) ==
    \E level \in [0 .. Len(q) -> Nat] :
        /\ level[0] = a /\ level[Len(q)] = b
        /\ \A i \in 1 .. Len(q) : Hop(g, p, intrudes, q[i], level[i - 1], level[i])

\* Between two exchanges.
Idle(r) ==
    /\ r.localInit = 0 /\ r.remoteInit = 0 /\ r.engine = "none" /\ r.secret = NoKey
    /\ r.outKey = K(r.cookies) /\ r.inKey = K(r.cookies)
    /\ r.session = (IF r.cookies = 0 THEN NoKey ELSE K(1))
    /\ r.expected = {} /\ r.reset = {} /\ ~r.inKex
    /\ r.pc # "switch" /\ (r.pc = "start" => r.cookies = 0)
    /\ r.cookies = 0 => r.pc \in {"start", "end"} /\ ~r.clear

Opened(r) ==
    /\ r.cookies > 0 /\ r.localInit = r.cookies /\ ~r.clear
    /\ r.inKey = K(r.cookies - 1) /\ r.pc # "start"

\* Before its first exchange an end takes nothing but a KEXINIT.
Awaited(k) == IF k = 1 THEN {"KEXINIT"} ELSE {}

\* Its KEXINIT is out.
Asking(r) ==
    /\ Opened(r) /\ r.inKex /\ r.reset = {} /\ r.pc # "switch"
    /\ r.remoteInit = 0 /\ r.engine = "none" /\ r.secret = NoKey
    /\ r.outKey = K(r.cookies - 1)
    /\ r.session = (IF r.cookies = 1 THEN NoKey ELSE K(1))

Asked(r) == Asking(r) /\ (r.active => r.expected = Awaited(r.cookies))

Joined(g, r) == g # "none" /\ Opened(r) /\ r.remoteInit = r.cookies /\ r.engine = g

\* Both KEXINITs are there: it waits for the j-th packet of its peer.
Talking(g, e, r, j) ==
    /\ Joined(g, r) /\ r.inKex /\ r.reset = {} /\ r.pc # "switch"
    /\ r.secret = NoKey /\ r.outKey = K(r.cookies - 1)
    /\ r.session = (IF r.cookies = 1 THEN NoKey ELSE K(1))
    /\ r.expected = {Mine(g, Peer(e), j)}

\* Its NEWKEYS is out, and it still writes with the old key.
Switching(g, r) ==
    /\ Joined(g, r) /\ r.inKex /\ r.reset = {} /\ r.pc = "switch"
    /\ r.secret = K(r.cookies) /\ r.outKey = K(r.cookies - 1) /\ r.session = K(1)

\* It writes with the new key and reads with the old one.
Renewed(g, r) ==
    /\ Joined(g, r) /\ (r.inKex \/ ~r.needRekey) /\ r.reset = {"out"} /\ r.pc # "switch"
    /\ r.secret = K(r.cookies) /\ r.outKey = K(r.cookies) /\ r.session = K(1)
    /\ r.expected = {"NEWKEYS"}

\* The transport r of e has sent up to level s and read up to level a.
Stage(g, e, r, s, a) ==
    /\ r.active <=> r.pc # "end"
    /\ \/ Idle(r) /\ s = 4 * r.cookies /\ a = 4 * r.cookies
       \/ Asked(r) /\ s = 4 * r.cookies - 3 /\ a = 4 * r.cookies - 4
       \/ \E j \in 1 .. Final(g) - 1 :
              /\ Talking(g, e, r, j)
              /\ s = 4 * r.cookies - 4 + j + IF e = "client" THEN 1 ELSE 0
              /\ a = 4 * r.cookies - 4 + j
       \/ Switching(g, r) /\ s = 4 * r.cookies /\ a = 4 * r.cookies - 4 + Final(g)
       \/ Renewed(g, r) /\ s = 4 * r.cookies /\ a = 4 * r.cookies - 4 + Final(g)

Stages(sent, read) ==
    \A e \in Ends :
        /\ Stage(Agreed, e, t[e], sent[e], read[e])
        /\ t[e].active =>
               Flow(Agreed, Peer(e), t[Peer(e)].intruded, read[e], sent[Peer(e)], wire[e])

Levels == \E sent, read \in [Ends -> Nat] : Stages(sent, read)

RekeyInv == TypeInv /\ RekeySurvives /\ Levels

(****************************************************************************)
(* Ends, engines and packets.                                               *)
(****************************************************************************)
LEMMA EndsFacts ==
    \A e \in Ends : Peer(e) \in Ends /\ Peer(e) # e /\ Peer(Peer(e)) = e
                    /\ \A d \in Ends : d = e \/ d = Peer(e)
BY DEF Ends, Peer

LEMMA EnginesFacts == Engines = {"group", "gex"}
BY DEF Engines, Dialogue

(* Both ends agree on an engine, or on none.                                *)
LEMMA AgreedFacts == ASSUME TypeInv PROVE Agreed \in Engines \cup {"none"}
<1> DEFINE common == Offered("client") \cap Offered("server")
<1>1. common \subseteq {"group", "gex"}
  BY EnginesFacts DEF Offered
<1>2. \A k, l : ~(Prefers(k, l) /\ Prefers(l, k))
  <2> SUFFICES ASSUME NEW k, NEW l, Prefers(k, l), Prefers(l, k) PROVE FALSE
    OBVIOUS
  <2>1. "client" \in Ends /\ preferred \in [Ends -> Seq(Engines)]
    BY PreferencesAssumption DEF TypeInv, Ends
  <2>2. DOMAIN preferred["client"] \subseteq Nat \ {0}
    BY <2>1
  <2>3. PICK i \in DOMAIN preferred["client"] :
            /\ preferred["client"][i] = k
            /\ \A j \in 1 .. i : preferred["client"][j] # l
    BY DEF Prefers
  <2>4. PICK i2 \in DOMAIN preferred["client"] :
            /\ preferred["client"][i2] = l
            /\ \A j \in 1 .. i2 : preferred["client"][j] # k
    BY DEF Prefers
  <2>5. i \in 1 .. i2 \/ i2 \in 1 .. i
    BY <2>2
  <2> QED
    BY <2>3, <2>4, <2>5
<1>3. CASE common = {}
  BY <1>3 DEF Agreed
<1>4. CASE common # {}
  <2>1. \E k \in common : \A l \in common \ {k} : ~Prefers(l, k)
    BY <1>1, <1>2, <1>4
  <2>2. Agreed \in common
    BY <1>4, <2>1 DEF Agreed
  <2> QED
    BY <2>2 DEF Offered
<1> QED
  BY <1>3, <1>4

(* The dialogues, packet by packet.                                         *)
LEMMA DialogueFacts ==
    /\ Mine("group", "client", 1) = "DH_INIT" /\ Mine("group", "server", 1) = "DH_REPLY"
    /\ Mine("gex", "client", 1) = "GEX_REQUEST" /\ Mine("gex", "server", 1) = "GEX_GROUP"
    /\ Mine("gex", "client", 2) = "GEX_INIT" /\ Mine("gex", "server", 2) = "GEX_REPLY"
    /\ Final("group") = 2 /\ Final("gex") = 3
    /\ Dialogue["group"] = <<"DH_INIT", "DH_REPLY">>
    /\ Dialogue["gex"] = <<"GEX_REQUEST", "GEX_GROUP", "GEX_INIT", "GEX_REPLY">>
BY DEF Mine, Final, Dialogue

LEMMA MineFacts ==
    ASSUME NEW g \in Engines, NEW p \in Ends, NEW j \in 1 .. Final(g) - 1
    PROVE  Mine(g, p, j) \in PacketTypes \ (UserTypes \cup {"KEXINIT", "NEWKEYS"})
<1>1. CASE g = "group"
  BY <1>1, DialogueFacts DEF Ends, PacketTypes, UserTypes
<1>2. CASE g = "gex"
  <2>1. j = 1 \/ j = 2
    BY <1>2, DialogueFacts
  <2> QED
    BY <1>2, <2>1, DialogueFacts DEF Ends, PacketTypes, UserTypes
<1> QED
  BY <1>1, <1>2, EnginesFacts

LEMMA FinalFacts == \A g : Final(g) \in {2, 3} /\ (Final(g) = 3 <=> g = "gex")
BY DEF Final

(****************************************************************************)
(* Flows: reading the first packet, writing one more, beginning to intrude. *)
(****************************************************************************)
LEMMA FlowHead ==
    ASSUME NEW g, NEW p, NEW i, NEW a, NEW b, NEW q \in Seq(Packets), q # <<>>,
           Flow(g, p, i, a, b, q)
    PROVE  \E c \in Nat : Hop(g, p, i, Head(q), a, c) /\ Flow(g, p, i, c, b, Tail(q))
<1>1. PICK level \in [0 .. Len(q) -> Nat] :
          /\ level[0] = a /\ level[Len(q)] = b
          /\ \A n \in 1 .. Len(q) : Hop(g, p, i, q[n], level[n - 1], level[n])
  BY DEF Flow
<1>2. Len(q) \in Nat \ {0} /\ Head(q) = q[1] /\ Len(Tail(q)) = Len(q) - 1
      /\ \A n \in 1 .. Len(q) - 1 : Tail(q)[n] = q[n + 1]
  OBVIOUS
<1> DEFINE next == [n \in 0 .. Len(Tail(q)) |-> level[n + 1]]
<1>3. next \in [0 .. Len(Tail(q)) -> Nat] /\ next[0] = level[1] /\ next[Len(Tail(q))] = b
  BY <1>1, <1>2
<1>4. \A n \in 1 .. Len(Tail(q)) : Hop(g, p, i, Tail(q)[n], next[n - 1], next[n])
  <2> SUFFICES ASSUME NEW n \in 1 .. Len(Tail(q))
               PROVE  Hop(g, p, i, Tail(q)[n], next[n - 1], next[n])
    OBVIOUS
  <2>1. Tail(q)[n] = q[n + 1] /\ next[n - 1] = level[n] /\ next[n] = level[n + 1]
    BY <1>2
  <2>2. n + 1 \in 1 .. Len(q) /\ (n + 1) - 1 = n
    BY <1>2
  <2>3. Hop(g, p, i, q[n + 1], level[n], level[n + 1])
    BY <1>1, <2>2
  <2> QED
    BY <2>1, <2>3
<1> HIDE DEF next
<1>5. Flow(g, p, i, level[1], b, Tail(q))
  BY <1>3, <1>4 DEF Flow
<1>6. Hop(g, p, i, Head(q), a, level[1]) /\ level[1] \in Nat
  <2>1. 1 \in 1 .. Len(q) /\ 1 - 1 = 0 /\ 1 \in 0 .. Len(q)
    BY <1>2
  <2>2. Hop(g, p, i, q[1], level[1 - 1], level[1])
    BY <1>1, <2>1
  <2> QED
    BY <1>1, <1>2, <2>1, <2>2
<1> QED
  BY <1>5, <1>6

LEMMA FlowAppend ==
    ASSUME NEW g, NEW p, NEW i, NEW a, NEW b, NEW c \in Nat, NEW q \in Seq(Packets),
           NEW m \in Packets, Flow(g, p, i, a, b, q), Hop(g, p, i, m, b, c)
    PROVE  Append(q, m) \in Seq(Packets) /\ Flow(g, p, i, a, c, Append(q, m))
<1>1. PICK level \in [0 .. Len(q) -> Nat] :
          /\ level[0] = a /\ level[Len(q)] = b
          /\ \A n \in 1 .. Len(q) : Hop(g, p, i, q[n], level[n - 1], level[n])
  BY DEF Flow
<1> DEFINE s == Append(q, m)
<1>2. Len(q) \in Nat /\ s \in Seq(Packets) /\ Len(s) = Len(q) + 1 /\ s[Len(q) + 1] = m
      /\ \A n \in 1 .. Len(q) : s[n] = q[n]
  OBVIOUS
<1> HIDE DEF s
<1> DEFINE next == [n \in 0 .. Len(s) |-> IF n = Len(s) THEN c ELSE level[n]]
<1>3. next \in [0 .. Len(s) -> Nat] /\ next[0] = a /\ next[Len(s)] = c
  BY <1>1, <1>2
<1>4. ASSUME NEW n \in 1 .. Len(s) PROVE Hop(g, p, i, s[n], next[n - 1], next[n])
  <2>1. CASE n = Len(s)
    <3>1. s[n] = m /\ next[n] = c /\ next[n - 1] = b
      BY <1>1, <1>2, <2>1
    <3> QED
      BY <3>1
  <2>2. CASE n # Len(s)
    <3>1. n \in 1 .. Len(q) /\ s[n] = q[n] /\ next[n] = level[n] /\ next[n - 1] = level[n - 1]
      BY <1>2, <2>2
    <3> QED
      BY <1>1, <3>1
  <2> QED
    BY <2>1, <2>2
<1> HIDE DEF next
<1>5. Flow(g, p, i, a, c, s)
  BY <1>3, <1>4 DEF Flow
<1> QED
  BY <1>2, <1>5 DEF s

LEMMA FlowIntrudes ==
    ASSUME NEW g, NEW p, NEW i \in BOOLEAN, NEW j \in BOOLEAN, NEW a, NEW b, NEW q, i => j,
           Flow(g, p, i, a, b, q)
    PROVE  Flow(g, p, j, a, b, q)
<1>1. \A m, c, d : Hop(g, p, i, m, c, d) => Hop(g, p, j, m, c, d)
  <2> SUFFICES ASSUME NEW m, NEW c, NEW d, Hop(g, p, i, m, c, d) PROVE Hop(g, p, j, m, c, d)
    OBVIOUS
  <2>1. PICK k \in Nat :
            /\ m.key = K(k)
            /\ \/ UserHop(m, i, k, c, d) \/ InitHop(m, k, c, d)
               \/ DialogueHop(g, p, m, k, c, d) \/ NewkeysHop(g, m, k, c, d)
    BY DEF Hop
  <2>2. UserHop(m, i, k, c, d) => UserHop(m, j, k, c, d)
    BY DEF UserHop
  <2> QED
    BY <2>1, <2>2 DEF Hop
<1> QED
  BY <1>1 DEF Flow

LEMMA FlowEmpty ==
    /\ \A g, p, i : \A a \in Nat : Flow(g, p, i, a, a, <<>>)
    /\ \A g, p, i, a, b : Flow(g, p, i, a, b, <<>>) => a = b
<1>1. Len(<<>>) = 0 /\ 1 .. 0 = {} /\ 0 \in 0 .. 0
  OBVIOUS
<1>2. ASSUME NEW g, NEW p, NEW i, NEW a \in Nat PROVE Flow(g, p, i, a, a, <<>>)
  <2> DEFINE f == [n \in 0 .. 0 |-> a]
  <2>1. f \in [0 .. 0 -> Nat] /\ f[0] = a
    OBVIOUS
  <2> QED
    BY <1>1, <2>1 DEF Flow
<1>3. ASSUME NEW g, NEW p, NEW i, NEW a, NEW b, Flow(g, p, i, a, b, <<>>) PROVE a = b
  BY <1>1, <1>3 DEF Flow
<1> QED
  BY <1>2, <1>3

(****************************************************************************)
(* What leads away from a level.                                            *)
(****************************************************************************)
LEMMA LevelFacts ==
    ASSUME NEW k \in Nat, k > 0
    PROVE  /\ 4 * k \in Nat /\ 4 * k - 4 \in Nat /\ 4 * k - 3 \in Nat /\ 4 * k - 2 \in Nat
           /\ \A j \in Nat : 4 * k - 4 + j \in Nat
OBVIOUS

(****************************************************************************)
(* Hops.                                                                    *)
(****************************************************************************)
Leads(g, p, i, m, a, b) ==
    /\ \E k \in Nat : m.key = K(k) /\ 4 * k <= a /\ a < 4 * k + 4
    /\ m.type = "KEXINIT" =>
           \E k \in Nat : a = 4 * k /\ b = a + 1 /\ m.body = <<k + 1, 0>>
    /\ m.type = "NEWKEYS" => \E k \in Nat : a = 4 * k + Final(g) /\ b = 4 * k + 4
    /\ m.type \in UserTypes => b = a /\ (i \/ \E k \in Nat : a = 4 * k /\ k > 0)
    /\ m.type \notin UserTypes \cup {"KEXINIT", "NEWKEYS"} =>
           \E k \in Nat : \E j \in 1 .. Final(g) - 1 :
               /\ a = 4 * k + j /\ b = a + 1 /\ m.type = Mine(g, p, j)
               /\ p = "server" /\ j + 1 = Final(g) => m.body = K(k + 1)

LEMMA HopFacts ==
    ASSUME NEW g \in Engines \cup {"none"}, NEW p \in Ends, NEW i \in BOOLEAN, NEW m,
           NEW a \in Nat,
           NEW b \in Nat, Hop(g, p, i, m, a, b)
    PROVE  Leads(g, p, i, m, a, b)
<1>1. PICK k \in Nat :
          /\ m.key = K(k)
          /\ \/ UserHop(m, i, k, a, b) \/ InitHop(m, k, a, b)
             \/ DialogueHop(g, p, m, k, a, b) \/ NewkeysHop(g, m, k, a, b)
  BY DEF Hop
<1>2. Final(g) \in {2, 3}
  BY FinalFacts
<1>3. "KEXINIT" \notin UserTypes /\ "NEWKEYS" \notin UserTypes
  BY DEF UserTypes
<1>4. CASE UserHop(m, i, k, a, b)
  BY <1>1, <1>3, <1>4 DEF UserHop, Leads
<1>5. CASE InitHop(m, k, a, b)
  BY <1>1, <1>3, <1>5 DEF InitHop, Leads
<1>6. CASE DialogueHop(g, p, m, k, a, b)
  <2>1. PICK j \in 1 .. Final(g) - 1 :
            /\ a = 4 * k + j /\ b = 4 * k + j + 1 /\ m.type = Mine(g, p, j)
            /\ p = "server" /\ j + 1 = Final(g) => m.body = K(k + 1)
    BY <1>6 DEF DialogueHop
  <2>2. g # "none" /\ m.type \notin UserTypes \cup {"KEXINIT", "NEWKEYS"}
    BY <1>6, <2>1, MineFacts DEF DialogueHop
  <2>3. 4 * k <= a /\ a < 4 * k + 4 /\ a \in Nat /\ b \in Nat /\ b = a + 1
    BY <1>2, <2>1
  <2> QED
    BY <1>1, <2>1, <2>2, <2>3 DEF Leads
<1>7. CASE NewkeysHop(g, m, k, a, b)
  BY <1>1, <1>2, <1>3, <1>7 DEF NewkeysHop, Leads
<1> QED
  BY <1>1, <1>4, <1>5, <1>6, <1>7

(* A few packets, one after the other.                                      *)
Series(g, p, i, packets, b, c) ==
    \/ packets = <<>> /\ b = c
    \/ \E m \in Packets : packets = <<m>> /\ Hop(g, p, i, m, b, c)
    \/ \E m, n \in Packets : \E d \in Nat :
           packets = <<m, n>> /\ Hop(g, p, i, m, b, d) /\ Hop(g, p, i, n, d, c)

LEMMA FlowSeries ==
    ASSUME NEW g, NEW p, NEW i, NEW a, NEW b, NEW c \in Nat, NEW q \in Seq(Packets),
           NEW packets,
           Flow(g, p, i, a, b, q), Series(g, p, i, packets, b, c)
    PROVE  q \o packets \in Seq(Packets) /\ Flow(g, p, i, a, c, q \o packets)
<1>1. CASE packets = <<>> /\ b = c
  <2>1. q \o packets = q
    BY <1>1
  <2> QED
    BY <1>1, <2>1
<1>2. ASSUME NEW m \in Packets, packets = <<m>>, Hop(g, p, i, m, b, c)
      PROVE  q \o packets \in Seq(Packets) /\ Flow(g, p, i, a, c, q \o packets)
  <2>1. q \o packets = Append(q, m)
    BY <1>2
  <2>2. Append(q, m) \in Seq(Packets) /\ Flow(g, p, i, a, c, Append(q, m))
    BY <1>2, FlowAppend
  <2> QED
    BY <2>1, <2>2
<1>3. ASSUME NEW m \in Packets, NEW n \in Packets, NEW d \in Nat,
             packets = <<m, n>>, Hop(g, p, i, m, b, d), Hop(g, p, i, n, d, c)
      PROVE  q \o packets \in Seq(Packets) /\ Flow(g, p, i, a, c, q \o packets)
  <2>1. Append(q, m) \in Seq(Packets) /\ Flow(g, p, i, a, d, Append(q, m))
    BY <1>3, FlowAppend
  <2> DEFINE s == Append(q, m)
  <2>2. q \o packets = Append(s, n)
    BY <1>3
  <2> HIDE DEF s
  <2>3. s \in Seq(Packets) /\ Flow(g, p, i, a, d, s)
    BY <2>1 DEF s
  <2>4. Append(s, n) \in Seq(Packets) /\ Flow(g, p, i, a, c, Append(s, n))
    BY <1>3, <2>3, FlowAppend
  <2> QED
    BY <2>2, <2>4
<1> QED
  BY <1>1, <1>2, <1>3 DEF Series

(****************************************************************************)
(* Counting packets says nothing about the exchange.                        *)
(****************************************************************************)
Alike(r, q) ==
    /\ q.active = r.active /\ q.why = r.why /\ q.intruded = r.intruded
    /\ q.inKex = r.inKex /\ q.clear = r.clear /\ q.done = r.done /\ q.reset = r.reset
    /\ q.cookies = r.cookies /\ q.localInit = r.localInit /\ q.remoteInit = r.remoteInit
    /\ q.engine = r.engine /\ q.secret = r.secret /\ q.session = r.session
    /\ q.outKey = r.outKey /\ q.inKey = r.inKey

LEMMA CountSentFacts ==
    ASSUME NEW r, Typed(r), NEW n \in Nat
    PROVE  /\ Typed(CountSent(r, n)) /\ Alike(r, CountSent(r, n))
           /\ CountSent(r, n).pc = r.pc /\ CountSent(r, n).expected = r.expected
<1> DEFINE s == Least(r.sent + n, RekeyPackets)
<1>1. s \in 0 .. RekeyPackets
  BY LimitAssumption DEF Typed, Fields, Least
<1>2. CountSent(r, n) = IF s = RekeyPackets /\ ~r.needRekey
                        THEN [r EXCEPT !.sent = s, !.overflow = 0, !.needRekey = TRUE]
                        ELSE [r EXCEPT !.sent = s]
  BY DEF CountSent
<1> HIDE DEF s
<1>3. CASE s = RekeyPackets /\ ~r.needRekey
  <2>1. CountSent(r, n) = [r EXCEPT !.sent = s, !.overflow = 0, !.needRekey = TRUE]
    BY <1>2, <1>3
  <2>2. Typed(CountSent(r, n))
    BY <1>1, <2>1 DEF Typed, Fields
  <2> QED
    BY <2>1, <2>2 DEF Typed, Fields, Alike
<1>4. CASE ~(s = RekeyPackets /\ ~r.needRekey)
  <2>1. CountSent(r, n) = [r EXCEPT !.sent = s]
    BY <1>2, <1>4
  <2>2. Typed(CountSent(r, n))
    BY <1>1, <2>1 DEF Typed, Fields
  <2> QED
    BY <2>1, <2>2 DEF Typed, Fields, Alike
<1> QED
  BY <1>3, <1>4

LEMMA CountReceivedFacts ==
    ASSUME NEW r, Typed(r)
    PROVE  /\ Typed(CountReceived(r)) /\ Alike(r, CountReceived(r))
           /\ CountReceived(r).pc = r.pc /\ CountReceived(r).expected = r.expected
<1> DEFINE n == Least(r.received + 1, RekeyPackets)
<1>1. n \in 0 .. RekeyPackets
  BY LimitAssumption DEF Typed, Fields, Least
<1>2. CountReceived(r) = IF r.needRekey THEN [r EXCEPT !.received = n, !.overflow = @ + 1]
                         ELSE IF n = RekeyPackets
                         THEN [r EXCEPT !.received = n, !.overflow = 0, !.needRekey = TRUE]
                         ELSE [r EXCEPT !.received = n]
  BY DEF CountReceived
<1> HIDE DEF n
<1>3. CASE r.needRekey
  <2>1. CountReceived(r) = [r EXCEPT !.received = n, !.overflow = @ + 1]
    BY <1>2, <1>3
  <2>2. Typed(CountReceived(r))
    BY <1>1, <2>1 DEF Typed, Fields
  <2> QED
    BY <2>1, <2>2 DEF Typed, Fields, Alike
<1>4. CASE ~r.needRekey /\ n = RekeyPackets
  <2>1. CountReceived(r) = [r EXCEPT !.received = n, !.overflow = 0, !.needRekey = TRUE]
    BY <1>2, <1>4
  <2>2. Typed(CountReceived(r))
    BY <1>1, <2>1 DEF Typed, Fields
  <2> QED
    BY <2>1, <2>2 DEF Typed, Fields, Alike
<1>5. CASE ~r.needRekey /\ n # RekeyPackets
  <2>1. CountReceived(r) = [r EXCEPT !.received = n]
    BY <1>2, <1>5
  <2>2. Typed(CountReceived(r))
    BY <1>1, <2>1 DEF Typed, Fields
  <2> QED
    BY <2>1, <2>2 DEF Typed, Fields, Alike
<1> QED
  BY <1>3, <1>4, <1>5

LEMMA TakenFacts ==
    ASSUME TypeInv, NEW e \in Ends
    PROVE  /\ Typed(Taken(e)) /\ Alike(t[e], Taken(e))
           /\ Taken(e).pc = "top" /\ Taken(e).expected = {}
<1> DEFINE r == CountReceived(t[e])
<1>1. Typed(t[e])
  BY DEF TypeInv
<1>2. Typed(r) /\ Alike(t[e], r)
  BY <1>1, CountReceivedFacts
<1>3. Taken(e) = [r EXCEPT !.expected = {}, !.pc = "top"]
  BY DEF Taken
<1> HIDE DEF r
<1>4. Typed(Taken(e))
  BY <1>2, <1>3 DEF Typed, Fields
<1>5. /\ Taken(e).pc = "top" /\ Taken(e).expected = {} /\ Alike(r, Taken(e))
  BY <1>2, <1>3 DEF Typed, Fields, Alike
<1> QED
  BY <1>2, <1>4, <1>5 DEF Alike

LEMMA CountedStage ==
    ASSUME NEW g, NEW e, NEW s, NEW a, NEW r, Typed(r), NEW n \in Nat,
           Stage(g, e, r, s, a), r.reset # {"out"}
    PROVE  Stage(g, e, CountSent(r, n), s, a)
<1> DEFINE q == CountSent(r, n)
<1>1. Alike(r, q) /\ q.pc = r.pc /\ q.expected = r.expected
  BY CountSentFacts
<1> HIDE DEF q
<1>2. Stage(g, e, q, s, a)
  BY <1>1 DEF Stage, Alike, Idle, Opened, Asked, Asking, Joined, Talking, Switching, Renewed
<1> QED
  BY <1>2 DEF q

(****************************************************************************)
(* What a step of an end has to establish.                                  *)
(****************************************************************************)
LEMMA AgreedKept == ASSUME preferred' = preferred PROVE Agreed' = Agreed
BY DEF Agreed, Offered, Prefers

\* A transport that did not end for a reason that RekeySurvives excludes.
Fine(p, r) ==
    /\ r.why \notin {"signature", "no secret"}
    /\ r.why \in {"mac", "expected"} => t[p].intruded

LEMMA FineKept == ASSUME RekeyInv, NEW e \in Ends PROVE Fine(Peer(e), t[e])
BY DEF RekeyInv, RekeySurvives, Fine

LEMMA StepKeeps ==
    ASSUME RekeyInv, NEW sent \in [Ends -> Nat], NEW read \in [Ends -> Nat], Stages(sent,
           read),
           NEW e \in Ends, NEW r, Typed(r), NEW s \in Nat, NEW a \in Nat,
           t' = [t EXCEPT ![e] = r], preferred' = preferred, toSend' \in [Ends -> Nat],
           wire' \in [Ends -> Seq(Packets)],
           t[e].intruded => r.intruded, Fine(Peer(e), r), Stage(Agreed, e, r, s, a),
           t[Peer(e)].active =>
               Flow(Agreed, e, r.intruded, read[Peer(e)], s, wire'[Peer(e)]),
           r.active =>
               Flow(Agreed, Peer(e), t[Peer(e)].intruded, a, sent[Peer(e)], wire'[e])
    PROVE  RekeyInv'
<1> DEFINE p == Peer(e)
<1>0. p \in Ends /\ p # e /\ Peer(p) = e /\ \A d \in Ends : d = e \/ d = p
  BY EndsFacts
<1>1. DOMAIN t' = Ends /\ Typed(t'[e]) /\ Typed(t'[p]) /\ t'[e] = r /\ t'[p] = t[p]
  BY <1>0 DEF RekeyInv, TypeInv
<1>2. TypeInv'
  BY <1>1 DEF RekeyInv, TypeInv
<1>3. RekeySurvives'
  <2> SUFFICES ASSUME NEW d \in Ends
               PROVE  /\ t'[d].why \notin {"signature", "no secret"}
                      /\ t'[d].why \in {"mac", "expected"} => t'[Peer(d)].intruded
    BY DEF RekeySurvives
  <2>1. CASE d = e
    BY <1>0, <1>1, <2>1 DEF Fine
  <2>2. CASE d = p
    BY <1>0, <1>1, <2>2 DEF RekeyInv, RekeySurvives
  <2> QED
    BY <1>0, <2>1, <2>2
<1>4. Levels'
  <2> DEFINE sent2 == [sent EXCEPT ![e] = s]
             read2 == [read EXCEPT ![e] = a]
  <2>1. /\ sent2 \in [Ends -> Nat] /\ read2 \in [Ends -> Nat]
        /\ sent2[e] = s /\ read2[e] = a /\ sent2[p] = sent[p] /\ read2[p] = read[p]
    BY <1>0
  <2> HIDE DEF sent2, read2
  <2>2. Agreed' = Agreed
    BY AgreedKept
  <2>3. ASSUME NEW d \in Ends
        PROVE  /\ Stage(Agreed', d, t'[d], sent2[d], read2[d])
               /\ t'[d].active => Flow(Agreed', Peer(d), t'[Peer(d)].intruded, read2[d],
                                       sent2[Peer(d)], wire'[d])
    <3>1. CASE d = e
      BY <1>0, <1>1, <2>1, <2>2, <3>1
    <3>2. CASE d = p
      <4>1. Stage(Agreed, p, t[p], sent[p], read[p])
        BY <1>0 DEF Stages
      <4> QED
        BY <1>0, <1>1, <2>1, <2>2, <3>2, <4>1
    <3> QED
      BY <1>0, <3>1, <3>2
  <2> QED
    BY <2>1, <2>3 DEF Levels, Stages
<1> QED
  BY <1>2, <1>3, <1>4 DEF RekeyInv

(* A step that sends and reads nothing.                                     *)
LEMMA QuietKeeps ==
    ASSUME RekeyInv, NEW sent \in [Ends -> Nat], NEW read \in [Ends -> Nat], Stages(sent,
           read),
           NEW e \in Ends, NEW r, Typed(r),
           t' = [t EXCEPT ![e] = r], UNCHANGED <<preferred, wire, toSend>>,
           r.intruded = t[e].intruded, Fine(Peer(e), r), r.active => t[e].active,
           Stage(Agreed, e, r, sent[e], read[e])
    PROVE  RekeyInv'
<1>1. Peer(e) \in Ends /\ Peer(Peer(e)) = e
  BY EndsFacts
<1>2. /\ t[Peer(e)].active =>
             Flow(Agreed, e, r.intruded, read[Peer(e)], sent[e], wire'[Peer(e)])
      /\ r.active =>
             Flow(Agreed, Peer(e), t[Peer(e)].intruded, read[e], sent[Peer(e)], wire'[e])
  BY <1>1 DEF Stages
<1>3. sent[e] \in Nat /\ read[e] \in Nat /\ toSend' \in [Ends -> Nat]
      /\ wire' \in [Ends -> Seq(Packets)]
  BY DEF RekeyInv, TypeInv
<1> QED
  BY <1>2, <1>3, StepKeeps

(* A step that sends packets.                                               *)
LEMMA SendKeeps ==
    ASSUME RekeyInv, NEW sent \in [Ends -> Nat], NEW read \in [Ends -> Nat], Stages(sent,
           read),
           NEW e \in Ends, NEW r, Typed(r), NEW packets, Sends(e, r, packets),
           NEW s \in Nat, preferred' = preferred, toSend' \in [Ends -> Nat],
           r.intruded = t[e].intruded, Fine(Peer(e), r), r.active => t[e].active,
           r.reset # {"out"}, Stage(Agreed, e, r, s, read[e]),
           packets \in Seq(Packets), Series(Agreed, e, r.intruded, packets, sent[e], s)
    PROVE  RekeyInv'
<1> DEFINE p == Peer(e)
           q == CountSent(r, Len(packets))
<1>0. p \in Ends /\ p # e /\ Peer(p) = e
  BY EndsFacts
<1>1. Typed(q) /\ Alike(r, q) /\ Stage(Agreed, e, q, s, read[e])
  <2>1. Len(packets) \in Nat
    OBVIOUS
  <2> QED
    BY <2>1, CountSentFacts, CountedStage
<1>2. /\ t' = [t EXCEPT ![e] = q]
      /\ wire' = [wire EXCEPT ![p] = wire[p] \o packets]
  BY DEF Sends
<1> HIDE DEF q
<1>3. /\ wire' \in [Ends -> Seq(Packets)] /\ wire'[e] = wire[e] /\ wire'[p] = wire[p] \o packets
      /\ wire[p] \in Seq(Packets)
  BY <1>0, <1>2 DEF RekeyInv, TypeInv
<1>4. q.intruded = r.intruded /\ q.active = r.active /\ Fine(p, q)
  BY <1>1 DEF Alike, Fine
<1>5. t[p].active => Flow(Agreed, e, q.intruded, read[p], s, wire'[p])
  <2> SUFFICES ASSUME t[p].active PROVE Flow(Agreed, e, q.intruded, read[p], s, wire'[p])
    OBVIOUS
  <2>1. Flow(Agreed, e, r.intruded, read[p], sent[e], wire[p])
    BY <1>0 DEF Stages
  <2> QED
    BY <1>3, <1>4, <2>1, FlowSeries
<1>6. q.active => Flow(Agreed, p, t[p].intruded, read[e], sent[p], wire'[e])
  BY <1>3, <1>4 DEF Stages
<1>7. read[e] \in Nat /\ (t[e].intruded => q.intruded)
  BY <1>4
<1> HIDE DEF p
<1> QED
  BY <1>1, <1>2, <1>3, <1>4, <1>5, <1>6, <1>7, StepKeeps DEF p

(* A step that reads a packet and answers with packets.                     *)
LEMMA ReadHead ==
    ASSUME RekeyInv, NEW sent \in [Ends -> Nat], NEW read \in [Ends -> Nat], Stages(sent,
           read),
           NEW e \in Ends, t[e].pc = "read", wire[e] # <<>>
    PROVE  /\ t[e].active /\ Next1(e) \in Packets
           /\ \E c \in Nat :
                /\ Hop(Agreed, Peer(e), t[Peer(e)].intruded, Next1(e), read[e], c)
                /\ Flow(Agreed, Peer(e), t[Peer(e)].intruded, c, sent[Peer(e)], Tail(wire[e]))
<1>1. t[e].active
  BY DEF Stages, Stage
<1>2. wire[e] \in Seq(Packets)
  BY DEF RekeyInv, TypeInv
<1>3. Flow(Agreed, Peer(e), t[Peer(e)].intruded, read[e], sent[Peer(e)], wire[e])
  BY <1>1 DEF Stages
<1>4. Next1(e) \in Packets
  BY <1>2 DEF Next1
<1> QED
  BY <1>1, <1>2, <1>3, <1>4, FlowHead DEF Next1

LEMMA ReadKeeps ==
    ASSUME RekeyInv, NEW sent \in [Ends -> Nat], NEW read \in [Ends -> Nat], Stages(sent,
           read),
           NEW e \in Ends, NEW r, Typed(r), NEW types, NEW packets,
           Reads(e, types, r, packets), NEW s \in Nat, NEW a \in Nat,
           t[e].intruded => r.intruded, Fine(Peer(e), r),
           r.reset # {"out"}, Stage(Agreed, e, r, s, a),
           packets \in Seq(Packets), Series(Agreed, e, r.intruded, packets, sent[e], s),
           r.active => Flow(Agreed, Peer(e), t[Peer(e)].intruded, a, sent[Peer(e)], Tail(wire[e]))
    PROVE  RekeyInv'
<1> DEFINE p == Peer(e)
           q == CountSent(r, Len(packets))
<1>0. p \in Ends /\ p # e /\ Peer(p) = e
  BY EndsFacts
<1>1. Typed(q) /\ Alike(r, q) /\ Stage(Agreed, e, q, s, a)
  <2>1. Len(packets) \in Nat
    OBVIOUS
  <2> QED
    BY <2>1, CountSentFacts, CountedStage
<1>2. /\ t' = [t EXCEPT ![e] = q] /\ UNCHANGED <<preferred, toSend>>
      /\ wire' = [wire EXCEPT ![e] = Tail(@), ![p] = @ \o packets] /\ wire[e] # <<>>
  BY DEF Reads
<1> HIDE DEF q
<1>3. /\ wire[p] \in Seq(Packets) /\ wire[e] \in Seq(Packets)
      /\ Tail(wire[e]) \in Seq(Packets) /\ wire[p] \o packets \in Seq(Packets)
  BY <1>0, <1>2 DEF RekeyInv, TypeInv
<1>4. /\ wire' \in [Ends -> Seq(Packets)] /\ wire'[e] = Tail(wire[e])
      /\ wire'[p] = wire[p] \o packets
  BY <1>0, <1>2, <1>3 DEF RekeyInv, TypeInv
<1>5. q.intruded = r.intruded /\ q.active = r.active /\ Fine(p, q)
  BY <1>1 DEF Alike, Fine
<1>6. t[p].active => Flow(Agreed, e, q.intruded, read[p], s, wire'[p])
  <2> SUFFICES ASSUME t[p].active PROVE Flow(Agreed, e, q.intruded, read[p], s, wire'[p])
    OBVIOUS
  <2>1. Flow(Agreed, e, t[e].intruded, read[p], sent[e], wire[p])
    BY <1>0 DEF Stages
  <2>2. t[e].intruded \in BOOLEAN /\ r.intruded \in BOOLEAN
    BY DEF RekeyInv, TypeInv, Typed
  <2>3. Flow(Agreed, e, r.intruded, read[p], sent[e], wire[p])
    BY <2>1, <2>2, FlowIntrudes
  <2> QED
    BY <1>3, <1>4, <1>5, <2>3, FlowSeries
<1>7. q.active => Flow(Agreed, p, t[p].intruded, a, sent[p], wire'[e])
  BY <1>4, <1>5
<1>8. toSend' \in [Ends -> Nat] /\ (t[e].intruded => q.intruded) /\ preferred' = preferred
  BY <1>2, <1>5 DEF RekeyInv, TypeInv
<1>9. t' = [t EXCEPT ![e] = q]
  BY <1>2
<1> HIDE DEF p
<1> QED
  BY <1>1, <1>4, <1>5, <1>6, <1>7, <1>8, <1>9, StepKeeps DEF p

(****************************************************************************)
(* Steps that read nothing.                                                 *)
(****************************************************************************)
LEMMA KZero == K(0) = NoKey
BY DEF K, NoKey

LEMMA InitKeeps == ASSUME Init PROVE RekeyInv
<1>1. \A e \in Ends : t[e] = Fresh
  BY DEF Init
<1>2. /\ DOMAIN Fresh = Fields /\ Typed(Fresh)
  BY LimitAssumption DEF Fresh, Fields, Typed, NoKey
<1>3. DOMAIN t = Ends /\ wire \in [Ends -> Seq(Packets)] /\ toSend \in [Ends -> Nat]
      /\ preferred \in Preferences
  BY UsersAssumption DEF Init
<1>4. TypeInv
  BY <1>1, <1>2, <1>3 DEF TypeInv
<1>5. RekeySurvives
  <2>1. \A e \in Ends : t[e].why = "none"
    BY <1>1 DEF Fresh
  <2> QED
    BY <2>1 DEF RekeySurvives
<1> DEFINE zero == [e \in Ends |-> 0]
<1>6. zero \in [Ends -> Nat] /\ \A e \in Ends : zero[e] = 0
  OBVIOUS
<1> HIDE DEF zero
<1>7. Stages(zero, zero)
  <2>1. ASSUME NEW e \in Ends PROVE Stage(Agreed, e, t[e], 0, 0)
    BY <1>1, KZero DEF Stage, Idle, Fresh
  <2>2. ASSUME NEW e \in Ends
        PROVE  Flow(Agreed, Peer(e), t[Peer(e)].intruded, 0, 0, wire[e])
    BY FlowEmpty DEF Init
  <2> QED
    BY <1>6, <2>1, <2>2, EndsFacts DEF Stages
<1> QED
  BY <1>4, <1>5, <1>6, <1>7 DEF RekeyInv, Levels

(* An end that goes on to another place of its loop, or dies.               *)
LEMMA GoesOn ==
    ASSUME RekeyInv, NEW e \in Ends, NEW l \in {"top", "read", "reply"},
           t' = [t EXCEPT ![e] = [t[e] EXCEPT !.pc = l]], UNCHANGED <<preferred, wire, toSend>>,
           t[e].pc \in {"top", "read", "reply"}
    PROVE  RekeyInv'
<1>1. PICK sent \in [Ends -> Nat], read \in [Ends -> Nat] : Stages(sent, read)
  BY DEF RekeyInv, Levels
<1> DEFINE r == [t[e] EXCEPT !.pc = l]
<1>2. Typed(t[e])
  BY DEF RekeyInv, TypeInv
<1>3. Alike(t[e], r) /\ r.pc = l /\ r.expected = t[e].expected /\ r.needRekey = t[e].needRekey
  BY <1>2 DEF Typed, Fields, Alike
<1>4. Typed(r) /\ t' = [t EXCEPT ![e] = r]
  BY <1>2 DEF Typed, Fields
<1> HIDE DEF r
<1>5. Stage(Agreed, e, t[e], sent[e], read[e])
  BY <1>1 DEF Stages
<1>6. Stage(Agreed, e, r, sent[e], read[e])
  BY <1>3, <1>5 DEF Stage, Alike, Idle, Opened, Asked, Asking, Joined, Talking, Switching, Renewed
<1>7. Fine(Peer(e), r) /\ r.intruded = t[e].intruded /\ (r.active => t[e].active)
  BY <1>3, FineKept DEF Fine, Alike
<1> QED
  BY <1>1, <1>4, <1>6, <1>7, QuietKeeps

\* Only that it is dead distinguishes q from r.
Ended(r, q, why) ==
    /\ ~q.active /\ q.why = why /\ q.pc = "end" /\ q.expected = r.expected
    /\ q.intruded = r.intruded /\ q.inKex = r.inKex /\ q.needRekey = r.needRekey
    /\ q.clear = r.clear /\ q.reset = r.reset /\ q.cookies = r.cookies
    /\ q.localInit = r.localInit /\ q.remoteInit = r.remoteInit
    /\ q.engine = r.engine /\ q.secret = r.secret /\ q.session = r.session
    /\ q.outKey = r.outKey /\ q.inKey = r.inKey

LEMMA DeadFacts ==
    ASSUME NEW r, Typed(r), NEW why, NEW q, q = Dead(r, why)
    PROVE  Typed(q) /\ Ended(r, q, why)
<1>1. q = [r EXCEPT !.active = FALSE, !.why = why, !.pc = "end"]
  BY DEF Dead
<1>2. Typed(q)
  BY <1>1 DEF Typed, Fields
<1> QED
  BY <1>1, <1>2 DEF Typed, Fields, Ended

LEMMA DeadStage ==
    ASSUME NEW g, NEW e, NEW s, NEW a, NEW r, Typed(r), NEW why, NEW q, q = Dead(r, why),
           Stage(g, e, r, s, a), r.pc # "switch"
    PROVE  Stage(g, e, q, s, a)
<1>1. Ended(r, q, why)
  BY DeadFacts
<1> QED
  BY <1>1 DEF Ended, Stage, Idle, Opened, Asked, Asking, Joined, Talking, Switching, Renewed

LEMMA DiesKeeps ==
    ASSUME RekeyInv, NEW e \in Ends, NEW why, Dies(e, t[e], why),
           UNCHANGED <<preferred, wire, toSend>>, t[e].pc # "switch",
           why \notin {"signature", "no secret"},
           why \in {"mac", "expected"} => t[Peer(e)].intruded
    PROVE  RekeyInv'
<1>1. PICK sent \in [Ends -> Nat], read \in [Ends -> Nat] : Stages(sent, read)
  BY DEF RekeyInv, Levels
<1> DEFINE r == Dead(t[e], why)
<1>2. Typed(t[e]) /\ Stage(Agreed, e, t[e], sent[e], read[e])
  BY <1>1 DEF RekeyInv, TypeInv, Stages
<1>3. r = Dead(t[e], why) /\ t' = [t EXCEPT ![e] = r]
  BY DEF Dies
<1> HIDE DEF r
<1>4. Typed(r) /\ Ended(t[e], r, why)
  BY <1>2, <1>3, DeadFacts
<1>5. Stage(Agreed, e, r, sent[e], read[e])
  BY <1>2, <1>3, DeadStage
<1>6. Fine(Peer(e), r) /\ r.intruded = t[e].intruded /\ (r.active => t[e].active)
  BY <1>4 DEF Fine, Ended
<1> QED
  BY <1>1, <1>3, <1>4, <1>5, <1>6, QuietKeeps

\* Where it goes on, and what it expects there.
Onward(q, l, x) == [q EXCEPT !.pc = l, !.expected = x]

LEMMA OnwardFacts ==
    ASSUME NEW q, Typed(q), NEW x \in SUBSET PacketTypes, NEW l \in {"top", "read", "switch"},
           NEW r, r = Onward(q, l, x)
    PROVE  Typed(r) /\ Alike(q, r) /\ r.pc = l /\ r.expected = x
<1>1. Typed(r)
  BY DEF Typed, Fields, Onward
<1> QED
  BY <1>1 DEF Typed, Fields, Alike, Onward

(* The KEXINIT with which an end asks for new keys.                         *)
Wishing(r, q) ==
    /\ q.active = r.active /\ q.why = r.why /\ q.intruded = r.intruded
    /\ q.inKex /\ ~q.clear /\ q.reset = r.reset /\ q.pc = r.pc
    /\ q.cookies = r.cookies + 1 /\ q.localInit = r.cookies + 1 /\ q.remoteInit = r.remoteInit
    /\ q.engine = r.engine /\ q.secret = r.secret /\ q.session = r.session
    /\ q.outKey = r.outKey /\ q.inKey = r.inKey /\ q.expected = r.expected

LEMMA WithKexInitFacts ==
    ASSUME NEW r, Typed(r), NEW q, q = WithKexInit(r)
    PROVE  Typed(q) /\ Wishing(r, q)
<1>1. q = [r EXCEPT !.clear = FALSE, !.inKex = TRUE, !.cookies = r.cookies + 1,
                    !.localInit = r.cookies + 1]
  BY DEF WithKexInit
<1>2. Typed(q)
  BY <1>1 DEF Typed, Fields
<1> QED
  BY <1>1, <1>2 DEF Typed, Fields, Wishing

LEMMA IdleLevels ==
    ASSUME NEW r, Typed(r), NEW s, NEW a, NEW g, NEW e, Idle(r), Stage(g, e, r, s, a)
    PROVE  s = 4 * r.cookies /\ a = 4 * r.cookies
BY DEF Stage, Idle, Asked, Asking, Opened, Talking, Joined, Switching, Renewed, Typed

LEMMA KexInitHop ==
    ASSUME NEW g, NEW p, NEW i, NEW r, Typed(r), Idle(r)
    PROVE  KexInit(r) \in Packets /\ Hop(g, p, i, KexInit(r), 4 * r.cookies, 4 * r.cookies + 1)
<1>1. r.cookies \in Nat /\ r.outKey = K(r.cookies)
  BY DEF Typed, Idle
<1> DEFINE m == KexInit(r)
           k == r.cookies
<1>2. m.type = "KEXINIT" /\ m.key = K(k) /\ m.body = <<k + 1, 0>>
  BY <1>1 DEF KexInit, Packet
<1>3. m \in Packets
  BY <1>1 DEF KexInit, Packet, Packets, PacketTypes, K
<1> HIDE DEF m, k
<1>4. k \in Nat
  BY <1>1 DEF k
<1>5. Hop(g, p, i, m, 4 * k, 4 * k + 1)
  BY <1>2, <1>4 DEF Hop, InitHop
<1> QED
  BY <1>3, <1>5 DEF m, k

LEMMA AskKeeps ==
    ASSUME RekeyInv, NEW e \in Ends, Idle(t[e]), t[e].active, NEW l \in {"top", "read"},
           NEW q, q = WithKexInit(t[e]), NEW r, Typed(r), Alike(q, r), r.pc = l,
           r.expected = Awaited(q.cookies),
           Sends(e, r, <<KexInit(t[e])>>), UNCHANGED <<preferred, toSend>>
    PROVE  RekeyInv'
<1>1. PICK sent \in [Ends -> Nat], read \in [Ends -> Nat] : Stages(sent, read)
  BY DEF RekeyInv, Levels
<1> DEFINE k == t[e].cookies
<1>2. Typed(t[e]) /\ k \in Nat /\ Stage(Agreed, e, t[e], sent[e], read[e])
  BY <1>1 DEF RekeyInv, TypeInv, Typed, Stages
<1>3. Typed(q) /\ Wishing(t[e], q)
  BY <1>2, WithKexInitFacts
<1>4. sent[e] = 4 * k /\ read[e] = 4 * k
  BY <1>2, IdleLevels
<1>7. KexInit(t[e]) \in Packets
      /\ Hop(Agreed, e, r.intruded, KexInit(t[e]), 4 * k, 4 * k + 1)
  BY <1>2, KexInitHop
<1>8. /\ r.active /\ r.why = t[e].why /\ r.intruded = t[e].intruded /\ r.inKex /\ ~r.clear
      /\ r.reset = {} /\ r.cookies = k + 1 /\ r.localInit = k + 1 /\ r.remoteInit = 0
      /\ r.engine = "none" /\ r.secret = NoKey /\ r.outKey = K(k) /\ r.inKey = K(k)
      /\ r.session = (IF k = 0 THEN NoKey ELSE K(1)) /\ r.expected = Awaited(k + 1)
  <2>1. /\ q.active /\ q.why = t[e].why /\ q.intruded = t[e].intruded /\ q.inKex /\ ~q.clear
        /\ q.reset = {} /\ q.cookies = k + 1 /\ q.localInit = k + 1 /\ q.remoteInit = 0
        /\ q.engine = "none" /\ q.secret = NoKey /\ q.outKey = K(k) /\ q.inKey = K(k)
        /\ q.session = (IF k = 0 THEN NoKey ELSE K(1))
    BY <1>3 DEF Wishing, Idle
  <2>2. Awaited(q.cookies) = Awaited(k + 1)
    BY <2>1
  <2> QED
    BY <2>1, <2>2 DEF Alike
<1> HIDE DEF k
<1>10. Asked(r)
  BY <1>2, <1>8 DEF Asked, Asking, Opened
<1>11. Stage(Agreed, e, r, 4 * k + 1, read[e])
  BY <1>2, <1>4, <1>8, <1>10 DEF Stage
<1>12. Fine(Peer(e), r)
  BY <1>8, FineKept DEF Fine
<1>13. /\ <<KexInit(t[e])>> \in Seq(Packets)
       /\ Series(Agreed, e, r.intruded, <<KexInit(t[e])>>, sent[e], 4 * k + 1)
  BY <1>4, <1>7 DEF Series
<1>14. 4 * k + 1 \in Nat /\ r.reset # {"out"}
  BY <1>2, <1>8
<1>15. toSend' \in [Ends -> Nat] /\ preferred' = preferred /\ r.intruded = t[e].intruded
       /\ (r.active => t[e].active)
  BY <1>8 DEF RekeyInv, TypeInv
<1> QED
  BY <1>1, <1>11, <1>12, <1>13, <1>14, <1>15, SendKeeps

LEMMA StartKeeps == ASSUME RekeyInv, NEW e \in Ends, Start(e) PROVE RekeyInv'
<1>1. PICK sent \in [Ends -> Nat], read \in [Ends -> Nat] : Stages(sent, read)
  BY DEF RekeyInv, Levels
<1>2. t[e].pc = "start" /\ Typed(t[e]) /\ Stage(Agreed, e, t[e], sent[e], read[e])
  BY <1>1 DEF Start, RekeyInv, TypeInv, Stages
<1>3. Idle(t[e]) /\ t[e].active /\ t[e].cookies = 0
  BY <1>2 DEF Stage, Idle, Asked, Asking, Talking, Switching, Renewed, Joined, Opened
<1> DEFINE q == WithKexInit(t[e])
           r == Onward(q, "top", {"KEXINIT"})
<1>4. Sends(e, r, <<KexInit(t[e])>>) /\ UNCHANGED <<preferred, toSend>>
  BY DEF Start, Onward
<1>5. q = WithKexInit(t[e]) /\ r = Onward(q, "top", {"KEXINIT"})
  OBVIOUS
<1> HIDE DEF q, r
<1>6. Typed(q) /\ Wishing(t[e], q)
  BY <1>2, <1>5, WithKexInitFacts
<1>7. {"KEXINIT"} \in SUBSET PacketTypes
  BY DEF PacketTypes
<1>8. Typed(r) /\ Alike(q, r) /\ r.pc = "top" /\ r.expected = {"KEXINIT"}
  BY <1>5, <1>6, <1>7, OnwardFacts
<1>9. Awaited(q.cookies) = {"KEXINIT"}
  BY <1>3, <1>6 DEF Wishing, Awaited
<1> QED
  BY <1>3, <1>4, <1>5, <1>8, <1>9, AskKeeps

LEMMA TopKeeps == ASSUME RekeyInv, NEW e \in Ends, Top(e) PROVE RekeyInv'
<1>1. PICK sent \in [Ends -> Nat], read \in [Ends -> Nat] : Stages(sent, read)
  BY DEF RekeyInv, Levels
<1>2. t[e].pc = "top" /\ Typed(t[e]) /\ Stage(Agreed, e, t[e], sent[e], read[e])
  BY <1>1 DEF Top, RekeyInv, TypeInv, Stages
<1>3. CASE t[e].needRekey /\ ~t[e].inKex
  <2>1. Idle(t[e]) /\ t[e].active /\ t[e].cookies # 0 /\ t[e].expected = {}
    BY <1>2, <1>3 DEF Stage, Idle, Asked, Asking, Talking, Switching, Renewed
  <2> DEFINE q == WithKexInit(t[e])
             r == [q EXCEPT !.pc = "read"]
  <2>2. Sends(e, r, <<KexInit(t[e])>>) /\ UNCHANGED <<preferred, toSend>>
    BY <1>3 DEF Top
  <2>3. q = WithKexInit(t[e]) /\ r = [q EXCEPT !.pc = "read"]
    OBVIOUS
  <2> HIDE DEF q, r
  <2>4. Typed(q) /\ Wishing(t[e], q)
    BY <1>2, <2>3, WithKexInitFacts
  <2>5. Typed(r)
    BY <2>3, <2>4 DEF Typed, Fields
  <2>6. Alike(q, r) /\ r.pc = "read" /\ r.expected = q.expected
    BY <2>3, <2>4 DEF Typed, Fields, Alike
  <2>7. t[e].cookies \in Nat
    BY <1>2 DEF Typed
  <2>8. Awaited(q.cookies) = {} /\ q.expected = {}
    BY <2>1, <2>4, <2>7 DEF Wishing, Awaited
  <2> QED
    BY <2>1, <2>2, <2>3, <2>5, <2>6, <2>8, AskKeeps
<1>4. CASE ~(t[e].needRekey /\ ~t[e].inKex)
  <2>1. t' = [t EXCEPT ![e] = [t[e] EXCEPT !.pc = "read"]] /\ UNCHANGED <<preferred, wire, toSend>>
    BY <1>4 DEF Top
  <2> QED
    BY <1>2, <2>1, GoesOn
<1> QED
  BY <1>3, <1>4

LEMMA NeedRekeyKeeps == ASSUME RekeyInv, NEW e \in Ends, NeedRekey(e) PROVE RekeyInv'
<1>1. t' = [t EXCEPT ![e] = [t[e] EXCEPT !.pc = "top"]] /\ UNCHANGED <<preferred, wire, toSend>>
      /\ t[e].pc = "read"
  BY DEF NeedRekey
<1> QED
  BY <1>1, GoesOn

LEMMA GoneKeeps ==
    ASSUME RekeyInv, NEW e \in Ends, BannerFails(e) \/ PeerGone(e) \/ ReplyTimeout(e)
    PROVE  RekeyInv'
<1>1. PICK why \in {"banner", "eof", "timeout"} : Dies(e, t[e], why)
  BY DEF BannerFails, PeerGone, ReplyTimeout
<1>2. UNCHANGED <<preferred, wire, toSend>> /\ t[e].pc # "switch"
  BY DEF BannerFails, PeerGone, ReplyTimeout
<1> QED
  BY <1>1, <1>2, DiesKeeps

LEMMA GivesUpKeeps == ASSUME RekeyInv, NEW e \in Ends, UserGivesUp(e) PROVE RekeyInv'
<1>1. UNCHANGED <<preferred, t, wire>> /\ toSend' = [toSend EXCEPT ![e] = @ - 1] /\ toSend[e] > 0
  BY DEF UserGivesUp, Wants
<1>2. TypeInv'
  BY <1>1 DEF RekeyInv, TypeInv
<1>3. RekeySurvives'
  BY <1>1 DEF RekeyInv, RekeySurvives
<1>4. Agreed' = Agreed
  BY <1>1, AgreedKept
<1>5. Levels'
  BY <1>1, <1>4 DEF RekeyInv, Levels, Stages
<1> QED
  BY <1>2, <1>3, <1>5 DEF RekeyInv

(* Between two exchanges users, and a handler that answers, send with the   *)
(* key of the exchange that is over.                                        *)
LEMMA PlainFacts ==
    ASSUME NEW r, Typed(r), NEW type \in PacketTypes
    PROVE  /\ Plain(r, type) \in Packets /\ Plain(r, type).type = type
           /\ Plain(r, type).key = r.outKey
BY DEF Typed, Plain, Packet, Packets, NoKey

LEMMA UserHops ==
    ASSUME NEW g, NEW e, NEW i, NEW r, Typed(r), Idle(r), r.cookies # 0,
           NEW type \in UserTypes
    PROVE  Plain(r, type) \in Packets
           /\ Hop(g, e, i, Plain(r, type), 4 * r.cookies, 4 * r.cookies)
<1>1. type \in PacketTypes
  BY DEF PacketTypes
<1> DEFINE m == Plain(r, type)
           k == r.cookies
<1>2. m \in Packets /\ m.type = type /\ m.key = K(k) /\ k \in Nat /\ k # 0
  BY <1>1, PlainFacts DEF Idle, Typed
<1> HIDE DEF m, k
<1>3. Hop(g, e, i, m, 4 * k, 4 * k)
  BY <1>2 DEF Hop, UserHop
<1> QED
  BY <1>2, <1>3 DEF m, k

LEMMA SayKeeps ==
    ASSUME RekeyInv, NEW e \in Ends, Idle(t[e]), t[e].cookies # 0, t[e].active,
           NEW type \in UserTypes,
           NEW r, Typed(r), Alike(t[e], r), r.pc \in {"top", "read", "reply"},
           r.expected = t[e].expected, Sends(e, r, <<Plain(t[e], type)>>),
           toSend' \in [Ends -> Nat], preferred' = preferred
    PROVE  RekeyInv'
<1>1. PICK sent \in [Ends -> Nat], read \in [Ends -> Nat] : Stages(sent, read)
  BY DEF RekeyInv, Levels
<1> DEFINE k == t[e].cookies
<1>2. Typed(t[e]) /\ k \in Nat /\ Stage(Agreed, e, t[e], sent[e], read[e])
  BY <1>1 DEF RekeyInv, TypeInv, Typed, Stages
<1>3. sent[e] = 4 * k /\ read[e] = 4 * k
  BY <1>2, IdleLevels
<1>4. Idle(r)
  BY DEF Idle, Alike
<1>5. Stage(Agreed, e, r, sent[e], read[e]) /\ r.reset # {"out"}
  <2>1. r.active /\ r.cookies = k
    BY DEF Alike
  <2>2. {"out"} # {}
    OBVIOUS
  <2> QED
    BY <1>3, <1>4, <2>1, <2>2 DEF Stage, Idle
<1>6. Fine(Peer(e), r) /\ r.intruded = t[e].intruded
  BY FineKept DEF Fine, Alike
<1>7. /\ Plain(t[e], type) \in Packets
      /\ Hop(Agreed, e, r.intruded, Plain(t[e], type), 4 * k, 4 * k)
  BY <1>2, UserHops
<1>8. /\ <<Plain(t[e], type)>> \in Seq(Packets)
      /\ Series(Agreed, e, r.intruded, <<Plain(t[e], type)>>, sent[e], sent[e])
  BY <1>3, <1>7 DEF Series
<1>9. sent[e] \in Nat /\ (r.active => t[e].active)
  OBVIOUS
<1> QED
  BY <1>1, <1>5, <1>6, <1>8, <1>9, SendKeeps

LEMMA ClearIsIdle ==
    ASSUME RekeyInv, NEW e \in Ends, t[e].clear
    PROVE  Idle(t[e]) /\ t[e].cookies # 0
<1>1. PICK sent \in [Ends -> Nat], read \in [Ends -> Nat] : Stages(sent, read)
  BY DEF RekeyInv, Levels
<1>2. Stage(Agreed, e, t[e], sent[e], read[e])
  BY <1>1 DEF Stages
<1> QED
  BY <1>2 DEF Stage, Idle, Asked, Asking, Talking, Switching, Renewed, Joined, Opened

LEMMA SendsKeeps ==
    ASSUME RekeyInv, NEW e \in Ends, UserSends(e) \/ Reply(e)
    PROVE  RekeyInv'
<1>0. t[e].clear /\ preferred' = preferred /\ Typed(t[e])
  BY DEF UserSends, Reply, RekeyInv, TypeInv
<1>1. Idle(t[e]) /\ t[e].cookies # 0
  BY <1>0, ClearIsIdle
<1>2. CASE UserSends(e)
  <2>1. PICK kind \in Kinds : Sends(e, t[e], <<Plain(t[e], kind)>>)
    BY <1>2 DEF UserSends
  <2>2. kind \in UserTypes
    BY UsersAssumption DEF UserTypes
  <2>3. Alike(t[e], t[e])
    BY DEF Alike
  <2>4. t[e].active
    BY <1>2 DEF UserSends
  <2>5. toSend' \in [Ends -> Nat]
    BY <1>2 DEF UserSends, Wants, RekeyInv, TypeInv
  <2>6. t[e].pc \in {"top", "read", "reply"}
    <3>1. PICK sent \in [Ends -> Nat], read \in [Ends -> Nat] : Stages(sent, read)
      BY DEF RekeyInv, Levels
    <3>2. Stage(Agreed, e, t[e], sent[e], read[e])
      BY <3>1 DEF Stages
    <3> QED
      BY <1>0, <1>1, <2>4, <3>2 DEF Stage, Idle, Typed
  <2> QED
    BY <1>0, <1>1, <2>1, <2>2, <2>3, <2>4, <2>5, <2>6, SayKeeps
<1>3. CASE Reply(e)
  <2> DEFINE r == [t[e] EXCEPT !.pc = "top"]
  <2>1. Sends(e, r, <<Plain(t[e], "answer")>>) /\ t[e].pc = "reply" /\ toSend' = toSend
    BY <1>3 DEF Reply
  <2>2. Typed(r)
    BY <1>0 DEF Typed, Fields
  <2>3. Alike(t[e], r) /\ r.pc = "top" /\ r.expected = t[e].expected
    BY <1>0 DEF Alike, Typed, Fields
  <2>4. t[e].active
    <3>1. PICK sent \in [Ends -> Nat], read \in [Ends -> Nat] : Stages(sent, read)
      BY DEF RekeyInv, Levels
    <3> QED
      BY <2>1, <3>1 DEF Stages, Stage
  <2> HIDE DEF r
  <2>5. "answer" \in UserTypes /\ toSend' \in [Ends -> Nat]
    BY <2>1 DEF UserTypes, RekeyInv, TypeInv
  <2> QED
    BY <1>0, <1>1, <2>1, <2>2, <2>3, <2>4, <2>5, SayKeeps
<1> QED
  BY <1>2, <1>3

(* The outbound key changes after NEWKEYS was sent.                         *)
LEMMA ActivateKeeps == ASSUME RekeyInv, NEW e \in Ends, ActivateOutbound(e) PROVE RekeyInv'
<1>1. PICK sent \in [Ends -> Nat], read \in [Ends -> Nat] : Stages(sent, read)
  BY DEF RekeyInv, Levels
<1>2. t[e].pc = "switch" /\ Typed(t[e]) /\ Stage(Agreed, e, t[e], sent[e], read[e])
  BY <1>1 DEF ActivateOutbound, RekeyInv, TypeInv, Stages
<1>3. Switching(Agreed, t[e]) /\ t[e].active
      /\ sent[e] = 4 * t[e].cookies /\ read[e] = 4 * t[e].cookies - 4 + Final(Agreed)
  BY <1>2 DEF Stage, Idle, Asked, Asking, Talking, Switching, Renewed
<1> DEFINE u == [t[e] EXCEPT !.outKey = t[e].secret, !.sent = 0]
           q == Switched(u, "out")
           r == [q EXCEPT !.inKex = @ /\ q.needRekey, !.expected = {"NEWKEYS"}, !.pc = "top"]
<1>4. t' = [t EXCEPT ![e] = r] /\ UNCHANGED <<preferred, wire, toSend>>
  BY DEF ActivateOutbound
<1>5. Typed(u)
  BY <1>2, LimitAssumption DEF Typed, Fields
<1>6. /\ u.active = t[e].active /\ u.why = t[e].why /\ u.intruded = t[e].intruded
      /\ u.inKex = t[e].inKex /\ u.clear = t[e].clear /\ u.reset = t[e].reset
      /\ u.cookies = t[e].cookies /\ u.localInit = t[e].localInit
      /\ u.remoteInit = t[e].remoteInit /\ u.engine = t[e].engine
      /\ u.secret = t[e].secret /\ u.session = t[e].session
      /\ u.outKey = t[e].secret /\ u.inKey = t[e].inKey
  BY <1>2 DEF Typed, Fields
<1> HIDE DEF u
<1>7. q = [u EXCEPT !.reset = {"out"}]
  <2>1. u.reset = {}
    BY <1>3, <1>6 DEF Switching
  <2>2. u.reset \cup {"out"} = {"out"} /\ {"out"} # {"in", "out"}
    BY <2>1
  <2> QED
    BY <2>2 DEF Switched
<1> HIDE DEF q
<1>8. Typed(q)
  BY <1>5, <1>7 DEF Typed, Fields
<1>9. /\ q.active = t[e].active /\ q.why = t[e].why /\ q.intruded = t[e].intruded
      /\ q.inKex = t[e].inKex /\ q.clear = t[e].clear /\ q.reset = {"out"}
      /\ q.cookies = t[e].cookies /\ q.localInit = t[e].localInit
      /\ q.remoteInit = t[e].remoteInit /\ q.engine = t[e].engine
      /\ q.secret = t[e].secret /\ q.session = t[e].session
      /\ q.outKey = t[e].secret /\ q.inKey = t[e].inKey
  BY <1>5, <1>6, <1>7 DEF Typed, Fields
<1>10. Typed(r)
  <2>1. {"NEWKEYS"} \subseteq PacketTypes
    BY DEF PacketTypes
  <2> QED
    BY <1>8, <2>1 DEF Typed, Fields
<1>11. /\ r.active = t[e].active /\ r.why = t[e].why /\ r.intruded = t[e].intruded
       /\ r.clear = t[e].clear /\ r.reset = {"out"}
       /\ r.cookies = t[e].cookies /\ r.localInit = t[e].localInit
       /\ r.remoteInit = t[e].remoteInit /\ r.engine = t[e].engine
       /\ r.secret = t[e].secret /\ r.session = t[e].session
       /\ r.outKey = t[e].secret /\ r.inKey = t[e].inKey
       /\ r.expected = {"NEWKEYS"} /\ r.pc = "top"
  BY <1>8, <1>9 DEF Typed, Fields
<1>12. r.inKex \/ ~r.needRekey
  <2>1. r.inKex = (q.inKex /\ q.needRekey) /\ r.needRekey = q.needRekey
    BY <1>8 DEF Typed, Fields
  <2> QED
    BY <1>3, <1>9, <2>1 DEF Switching
<1> HIDE DEF r
<1>13. Renewed(Agreed, r)
  BY <1>3, <1>11, <1>12 DEF Renewed, Switching, Joined, Opened
<1>14. Stage(Agreed, e, r, sent[e], read[e])
  BY <1>3, <1>11, <1>13 DEF Stage
<1>15. Fine(Peer(e), r) /\ r.intruded = t[e].intruded /\ (r.active => t[e].active)
  BY <1>11, FineKept DEF Fine
<1> QED
  BY <1>1, <1>4, <1>10, <1>14, <1>15, QuietKeeps

(****************************************************************************)
(* Reading: what the first packet on the wire can be.                       *)
(****************************************************************************)
\* At the start of the k-th exchange.
AtIdle(i, m, k, a, c) ==
    /\ m.key = K(k)
    /\ \/ m.type = "KEXINIT" /\ m.body = <<k + 1, 0>> /\ c = a + 1
       \/ m.type \in UserTypes /\ c = a /\ (i \/ k > 0)

LEMMA HeadIdle ==
    ASSUME NEW g \in Engines \cup {"none"}, NEW p \in Ends, NEW i \in BOOLEAN, NEW m,
           NEW k \in Nat, NEW c \in Nat, NEW a, a = 4 * k, Hop(g, p, i, m, a, c)
    PROVE  AtIdle(i, m, k, a, c)
<1>1. a \in Nat /\ a = 4 * k
  OBVIOUS
<1>2. Leads(g, p, i, m, a, c)
  BY <1>1, HopFacts
<1>3. PICK k1 \in Nat : m.key = K(k1) /\ 4 * k1 <= a /\ a < 4 * k1 + 4
  BY <1>1, <1>2 DEF Leads
<1>4. m.key = K(k)
  BY <1>1, <1>3
<1>5. CASE m.type = "KEXINIT"
  <2>1. PICK k2 \in Nat : a = 4 * k2 /\ c = a + 1 /\ m.body = <<k2 + 1, 0>>
    BY <1>1, <1>2, <1>5 DEF Leads
  <2>2. k2 = k
    BY <1>1, <2>1
  <2> QED
    BY <1>1, <1>4, <1>5, <2>1, <2>2 DEF AtIdle
<1>6. CASE m.type = "NEWKEYS"
  <2>1. PICK k2 \in Nat : a = 4 * k2 + Final(g)
    BY <1>1, <1>2, <1>6 DEF Leads
  <2> QED
    BY <1>1, <2>1, FinalFacts
<1>7. CASE m.type \in UserTypes
  <2>1. c = a /\ (i \/ \E k2 \in Nat : a = 4 * k2 /\ k2 > 0)
    BY <1>1, <1>2, <1>7 DEF Leads
  <2>2. i \/ k > 0
    BY <1>1, <2>1
  <2> QED
    BY <1>1, <1>4, <1>7, <2>1, <2>2 DEF AtIdle
<1>8. CASE m.type \notin UserTypes \cup {"KEXINIT", "NEWKEYS"}
  <2>1. PICK k2 \in Nat : \E j \in 1 .. Final(g) - 1 : a = 4 * k2 + j
    BY <1>1, <1>2, <1>8 DEF Leads
  <2> QED
    BY <1>1, <2>1, FinalFacts
<1> QED
  BY <1>5, <1>6, <1>7, <1>8

LEMMA HeadTalking ==
    ASSUME NEW g \in Engines \cup {"none"}, NEW p \in Ends, NEW i \in BOOLEAN, NEW m,
           NEW k \in Nat, NEW j \in 1 .. Final(g) - 1, NEW c \in Nat,
           Hop(g, p, i, m, 4 * k + j, c)
    PROVE  /\ m.key = K(k)
           /\ \/ /\ m.type = Mine(g, p, j) /\ c = 4 * k + j + 1
                 /\ p = "server" /\ j + 1 = Final(g) => m.body = K(k + 1)
              \/ m.type \in UserTypes /\ i
<1> DEFINE a == 4 * k + j
<1>0. Final(g) \in {2, 3}
  BY FinalFacts
<1>1. a \in Nat /\ a = 4 * k + j /\ (j = 1 \/ j = 2) /\ j < Final(g)
  BY <1>0
<1> HIDE DEF a
<1>2. Leads(g, p, i, m, a, c)
  BY <1>1, HopFacts
<1>3. PICK k1 \in Nat : m.key = K(k1) /\ 4 * k1 <= a /\ a < 4 * k1 + 4
  BY <1>1, <1>2 DEF Leads
<1>4. m.key = K(k)
  <2>1. k1 = k
    BY <1>1, <1>3
  <2> QED
    BY <1>3, <2>1
<1>5. CASE m.type = "KEXINIT"
  <2>1. PICK k2 \in Nat : a = 4 * k2
    BY <1>1, <1>2, <1>5 DEF Leads
  <2> QED
    BY <1>1, <2>1
<1>6. CASE m.type = "NEWKEYS"
  <2>1. PICK k2 \in Nat : a = 4 * k2 + Final(g)
    BY <1>1, <1>2, <1>6 DEF Leads
  <2> QED
    BY <1>0, <1>1, <2>1
<1>7. CASE m.type \in UserTypes
  <2>1. i \/ \E k2 \in Nat : a = 4 * k2
    BY <1>1, <1>2, <1>7 DEF Leads
  <2>2. i
    BY <1>1, <2>1
  <2> QED
    BY <1>4, <1>7, <2>2
<1>8. CASE m.type \notin UserTypes \cup {"KEXINIT", "NEWKEYS"}
  <2>2. PICK k2 \in Nat : \E n \in 1 .. Final(g) - 1 :
            /\ a = 4 * k2 + n /\ c = a + 1 /\ m.type = Mine(g, p, n)
            /\ p = "server" /\ n + 1 = Final(g) => m.body = K(k2 + 1)
    BY <1>1, <1>2, <1>8 DEF Leads
  <2>3. PICK n \in 1 .. Final(g) - 1 :
            /\ a = 4 * k2 + n /\ c = a + 1 /\ m.type = Mine(g, p, n)
            /\ p = "server" /\ n + 1 = Final(g) => m.body = K(k2 + 1)
    BY <2>2
  <2>4. n = 1 \/ n = 2
    BY <1>0
  <2>5. k2 = k /\ n = j
    BY <1>1, <2>3, <2>4
  <2> QED
    BY <1>1, <1>4, <2>3, <2>5
<1> QED
  BY <1>5, <1>6, <1>7, <1>8

LEMMA HeadRenewed ==
    ASSUME NEW g \in Engines \cup {"none"}, NEW p \in Ends, NEW i \in BOOLEAN, NEW m,
           NEW k \in Nat, NEW c \in Nat, Hop(g, p, i, m, 4 * k + Final(g), c)
    PROVE  /\ m.key = K(k)
           /\ \/ m.type = "NEWKEYS" /\ c = 4 * k + 4
              \/ m.type \in UserTypes /\ i
<1> DEFINE a == 4 * k + Final(g)
<1>0. Final(g) \in {2, 3}
  BY FinalFacts
<1>1. a \in Nat /\ a = 4 * k + Final(g)
  BY <1>0
<1> HIDE DEF a
<1>2. Leads(g, p, i, m, a, c)
  BY <1>1, HopFacts
<1>3. PICK k1 \in Nat : m.key = K(k1) /\ 4 * k1 <= a /\ a < 4 * k1 + 4
  BY <1>1, <1>2 DEF Leads
<1>4. m.key = K(k)
  <2>1. k1 = k
    BY <1>0, <1>1, <1>3
  <2> QED
    BY <1>3, <2>1
<1>5. CASE m.type = "KEXINIT"
  <2>1. PICK k2 \in Nat : a = 4 * k2
    BY <1>1, <1>2, <1>5 DEF Leads
  <2> QED
    BY <1>0, <1>1, <2>1
<1>6. CASE m.type = "NEWKEYS"
  <2>1. PICK k2 \in Nat : a = 4 * k2 + Final(g) /\ c = 4 * k2 + 4
    BY <1>1, <1>2, <1>6 DEF Leads
  <2> QED
    BY <1>0, <1>1, <1>4, <1>6, <2>1
<1>7. CASE m.type \in UserTypes
  <2>1. i \/ \E k2 \in Nat : a = 4 * k2
    BY <1>1, <1>2, <1>7 DEF Leads
  <2>2. i
    BY <1>0, <1>1, <2>1
  <2> QED
    BY <1>4, <1>7, <2>2
<1>8. CASE m.type \notin UserTypes \cup {"KEXINIT", "NEWKEYS"}
  <2>1. PICK k2 \in Nat : \E n \in 1 .. Final(g) - 1 : a = 4 * k2 + n
    BY <1>1, <1>2, <1>8 DEF Leads
  <2> QED
    BY <1>0, <1>1, <2>1
<1> QED
  BY <1>5, <1>6, <1>7, <1>8

(****************************************************************************)
(* What an end that reads can find.  The check of _expected_packet refuses  *)
(* what a peer that intrudes has sent, and nothing else is ever refused.    *)
(****************************************************************************)
\* The head m takes the transport r of e from level a to level c.
FindsIdle(r, m, s, a, c) ==
    /\ Idle(r) /\ r.cookies # 0 /\ s = 4 * r.cookies /\ a = s
    /\ \/ m.type = "KEXINIT" /\ m.body = <<r.cookies + 1, 0>> /\ c = a + 1
       \/ m.type \in UserTypes /\ c = a

FindsAsked(r, m, s, a, c, intrudes) ==
    /\ Asked(r) /\ s = 4 * r.cookies - 3 /\ a = 4 * r.cookies - 4
    /\ \/ m.type = "KEXINIT" /\ m.body = <<r.cookies, 0>> /\ c = a + 1
       \/ m.type \in UserTypes /\ c = a /\ (r.cookies # 1 \/ intrudes)

FindsTalking(g, e, r, m, s, a, c, intrudes) ==
    \E j \in 1 .. Final(g) - 1 :
        /\ Talking(g, e, r, j)
        /\ s = 4 * r.cookies - 4 + j + IF e = "client" THEN 1 ELSE 0
        /\ a = 4 * r.cookies - 4 + j
        /\ \/ /\ m.type = Mine(g, Peer(e), j) /\ c = a + 1
              /\ Peer(e) = "server" /\ j + 1 = Final(g) => m.body = K(r.cookies)
           \/ m.type \in UserTypes /\ intrudes

FindsRenewed(g, r, m, s, a, c, intrudes) ==
    /\ Renewed(g, r) /\ s = 4 * r.cookies
    /\ \/ m.type = "NEWKEYS" /\ c = 4 * r.cookies
       \/ m.type \in UserTypes /\ intrudes

Finds(g, e, r, m, s, a, c, intrudes) ==
    /\ m.key = r.inKey
    /\ \/ FindsIdle(r, m, s, a, c)
       \/ FindsAsked(r, m, s, a, c, intrudes)
       \/ FindsTalking(g, e, r, m, s, a, c, intrudes)
       \/ FindsRenewed(g, r, m, s, a, c, intrudes)

LEMMA HeadFits ==
    ASSUME NEW g \in Engines \cup {"none"}, NEW e \in Ends, NEW i \in BOOLEAN, NEW m,
           NEW r, Typed(r),
           NEW s, NEW a \in Nat, NEW c \in Nat, Stage(g, e, r, s, a), r.pc = "read",
           Hop(g, Peer(e), i, m, a, c)
    PROVE  Finds(g, e, r, m, s, a, c, i)
<1>0. Peer(e) \in Ends /\ r.cookies \in Nat
  BY EndsFacts DEF Typed
<1>1. CASE Idle(r) /\ s = 4 * r.cookies /\ a = 4 * r.cookies
  <2>1. r.cookies # 0 /\ r.inKey = K(r.cookies)
    BY <1>1 DEF Idle
  <2>3. AtIdle(i, m, r.cookies, a, c)
    BY <1>0, <1>1, HeadIdle
  <2> QED
    BY <1>1, <2>1, <2>3 DEF AtIdle, Finds, FindsIdle
<1>2. CASE Asked(r) /\ s = 4 * r.cookies - 3 /\ a = 4 * r.cookies - 4
  <2> DEFINE k == r.cookies - 1
  <2>1. k \in Nat /\ r.cookies = k + 1 /\ r.inKey = K(k) /\ a = 4 * k
    BY <1>0, <1>2 DEF Asked, Asking, Opened
  <2> HIDE DEF k
  <2>3. AtIdle(i, m, k, a, c)
    BY <1>0, <2>1, HeadIdle
  <2>4. k > 0 => r.cookies # 1
    BY <2>1
  <2>5. FindsAsked(r, m, s, a, c, i)
    BY <1>2, <2>1, <2>3, <2>4 DEF AtIdle, FindsAsked
  <2> QED
    BY <2>1, <2>3, <2>5 DEF AtIdle, Finds
<1>3. ASSUME NEW j \in 1 .. Final(g) - 1, Talking(g, e, r, j),
             s = 4 * r.cookies - 4 + j + IF e = "client" THEN 1 ELSE 0,
             a = 4 * r.cookies - 4 + j
      PROVE  Finds(g, e, r, m, s, a, c, i)
  <2> DEFINE k == r.cookies - 1
  <2>1. k \in Nat /\ r.cookies = k + 1 /\ r.inKey = K(k)
    <3>1. Opened(r)
      BY <1>3 DEF Talking, Joined
    <3>2. r.cookies > 0 /\ r.inKey = K(r.cookies - 1)
      BY <3>1 DEF Opened
    <3> QED
      BY <1>0, <3>2
  <2> HIDE DEF k
  <2>2. a = 4 * k + j
    BY <1>3, <2>1, FinalFacts
  <2>3. Hop(g, Peer(e), i, m, 4 * k + j, c)
    BY <2>2
  <2>4. /\ m.key = K(k)
        /\ \/ /\ m.type = Mine(g, Peer(e), j) /\ c = 4 * k + j + 1
              /\ Peer(e) = "server" /\ j + 1 = Final(g) => m.body = K(k + 1)
           \/ m.type \in UserTypes /\ i
    BY <1>0, <2>1, <2>3, HeadTalking
  <2>5. FindsTalking(g, e, r, m, s, a, c, i)
    BY <1>3, <2>1, <2>2, <2>4 DEF FindsTalking
  <2> QED
    BY <2>1, <2>4, <2>5 DEF Finds
<1>4. CASE Switching(g, r)
  BY <1>4 DEF Switching
<1>5. CASE Renewed(g, r) /\ s = 4 * r.cookies /\ a = 4 * r.cookies - 4 + Final(g)
  <2> DEFINE k == r.cookies - 1
  <2>1. k \in Nat /\ r.cookies = k + 1 /\ r.inKey = K(k)
    BY <1>0, <1>5 DEF Renewed, Joined, Opened
  <2> HIDE DEF k
  <2>2. a = 4 * k + Final(g)
    BY <1>5, <2>1, FinalFacts
  <2>3. Hop(g, Peer(e), i, m, 4 * k + Final(g), c)
    BY <2>2
  <2>4. /\ m.key = K(k)
        /\ \/ m.type = "NEWKEYS" /\ c = 4 * k + 4
           \/ m.type \in UserTypes /\ i
    BY <1>0, <2>1, <2>3, HeadRenewed
  <2>5. FindsRenewed(g, r, m, s, a, c, i)
    BY <1>5, <2>1, <2>4 DEF FindsRenewed
  <2> QED
    BY <2>1, <2>4, <2>5 DEF Finds
<1> QED
  BY <1>1, <1>2, <1>3, <1>4, <1>5 DEF Stage

LEMMA ReaderFinds ==
    ASSUME RekeyInv, NEW sent \in [Ends -> Nat], NEW read \in [Ends -> Nat], Stages(sent,
           read),
           NEW e \in Ends, t[e].pc = "read", wire[e] # <<>>
    PROVE  /\ Next1(e) \in Packets /\ t[e].active
           /\ \E c \in Nat :
                /\ Finds(Agreed, e, t[e], Next1(e), sent[e], read[e], c, t[Peer(e)].intruded)
                /\ Flow(Agreed, Peer(e), t[Peer(e)].intruded, c, sent[Peer(e)], Tail(wire[e]))
<1>1. /\ t[e].active /\ Next1(e) \in Packets
      /\ \E c \in Nat :
             /\ Hop(Agreed, Peer(e), t[Peer(e)].intruded, Next1(e), read[e], c)
             /\ Flow(Agreed, Peer(e), t[Peer(e)].intruded, c, sent[Peer(e)], Tail(wire[e]))
  BY ReadHead
<1>2. PICK c \in Nat :
          /\ Hop(Agreed, Peer(e), t[Peer(e)].intruded, Next1(e), read[e], c)
          /\ Flow(Agreed, Peer(e), t[Peer(e)].intruded, c, sent[Peer(e)], Tail(wire[e]))
  BY <1>1
<1>3. /\ Agreed \in Engines \cup {"none"} /\ t[Peer(e)].intruded \in BOOLEAN /\ Typed(t[e])
      /\ read[e] \in Nat /\ Stage(Agreed, e, t[e], sent[e], read[e])
  BY AgreedFacts, EndsFacts DEF RekeyInv, TypeInv, Typed, Stages
<1>4. Finds(Agreed, e, t[e], Next1(e), sent[e], read[e], c, t[Peer(e)].intruded)
  BY <1>2, <1>3, HeadFits
<1> QED
  BY <1>1, <1>2, <1>4

(* A packet is refused only because of too many ignored ones, or because    *)
(* the peer has intruded.                                                   *)
LEMMA RefuseKeeps == ASSUME RekeyInv, NEW e \in Ends, Refuse(e) PROVE RekeyInv'
<1>1. PICK sent \in [Ends -> Nat], read \in [Ends -> Nat] : Stages(sent, read)
  BY DEF RekeyInv, Levels
<1>2. t[e].pc = "read" /\ wire[e] # <<>> /\ Refusal(e) # "none" /\ Dies(e, t[e], Refusal(e))
      /\ UNCHANGED <<preferred, wire, toSend>> /\ Typed(t[e])
  BY DEF Refuse, RekeyInv, TypeInv
<1>3. PICK c \in Nat :
          Finds(Agreed, e, t[e], Next1(e), sent[e], read[e], c, t[Peer(e)].intruded)
  BY <1>1, <1>2, ReaderFinds
<1>4. t[e].active
  BY <1>1, <1>2, ReaderFinds
<1> DEFINE r == CountReceived(t[e])
<1>5. Alike(t[e], r) /\ r.expected = t[e].expected
  BY <1>2, CountReceivedFacts
<1>6. Refusal(e) = IF Next1(e).key # r.inKey THEN "mac"
                   ELSE IF r.overflow >= OverflowMax THEN "ignored"
                   ELSE IF r.expected # {} /\ Next1(e).type \notin r.expected THEN "expected"
                   ELSE "none"
  BY DEF Refusal
<1> HIDE DEF r
<1>7. Next1(e).key = t[e].inKey /\ r.inKey = t[e].inKey
  BY <1>3, <1>5 DEF Finds, Alike
<1>8. t[e].expected # {} /\ Next1(e).type \notin t[e].expected => t[Peer(e)].intruded
  <2> DEFINE m == Next1(e)
             i == t[Peer(e)].intruded
             q == t[e]
  <2>1. CASE FindsIdle(q, m, sent[e], read[e], c)
    BY <2>1 DEF FindsIdle, Idle
  <2>2. CASE FindsAsked(q, m, sent[e], read[e], c, i)
    BY <1>4, <2>2 DEF FindsAsked, Asked, Awaited
  <2>3. CASE FindsTalking(Agreed, e, q, m, sent[e], read[e], c, i)
    BY <2>3 DEF FindsTalking, Talking
  <2>4. CASE FindsRenewed(Agreed, q, m, sent[e], read[e], c, i)
    BY <2>4 DEF FindsRenewed, Renewed
  <2> QED
    BY <1>3, <2>1, <2>2, <2>3, <2>4 DEF Finds
<1>9. Refusal(e) \notin {"signature", "no secret"}
      /\ (Refusal(e) \in {"mac", "expected"} => t[Peer(e)].intruded)
  BY <1>5, <1>6, <1>7, <1>8
<1> QED
  BY <1>2, <1>9, DiesKeeps

(****************************************************************************)
(* Reading: a packet that is not refused.                                   *)
(****************************************************************************)
LEMMA AcceptedFacts ==
    ASSUME RekeyInv, NEW e \in Ends, Refusal(e) = "none"
    PROVE  t[e].expected = {} \/ Next1(e).type \in t[e].expected
<1> DEFINE r == CountReceived(t[e])
<1>1. r.expected = t[e].expected
  BY CountReceivedFacts DEF RekeyInv, TypeInv
<1>2. Refusal(e) = IF Next1(e).key # r.inKey THEN "mac"
                   ELSE IF r.overflow >= OverflowMax THEN "ignored"
                   ELSE IF r.expected # {} /\ Next1(e).type \notin r.expected THEN "expected"
                   ELSE "none"
  BY DEF Refusal
<1> HIDE DEF r
<1> QED
  BY <1>1, <1>2

(* What the transport keeps when it takes a packet of users.                *)
Still(r, q) ==
    /\ q.active = r.active /\ q.inKex = r.inKex /\ q.clear = r.clear /\ q.reset = r.reset
    /\ q.cookies = r.cookies /\ q.localInit = r.localInit /\ q.remoteInit = r.remoteInit
    /\ q.engine = r.engine /\ q.secret = r.secret /\ q.session = r.session
    /\ q.outKey = r.outKey /\ q.inKey = r.inKey

\* Where an end takes a packet of its peer's users.
Takes(r) == r.active /\ ((Idle(r) /\ r.cookies # 0) \/ (Asked(r) /\ r.cookies # 1))

LEMMA UserTaken ==
    ASSUME RekeyInv, NEW sent \in [Ends -> Nat], NEW read \in [Ends -> Nat], Stages(sent,
           read),
           NEW e \in Ends, t[e].pc = "read", wire[e] # <<>>, Refusal(e) = "none",
           Next1(e).type \in UserTypes
    PROVE  /\ Takes(t[e])
           /\ Flow(Agreed, Peer(e), t[Peer(e)].intruded, read[e], sent[Peer(e)], Tail(wire[e]))
<1> DEFINE m == Next1(e)
           i == t[Peer(e)].intruded
           q == t[e]
           f == Tail(wire[e])
           g == Agreed
<1>0. q.active
  BY ReaderFinds
<1>1. PICK c \in Nat : Finds(g, e, q, m, sent[e], read[e], c, i)
                       /\ Flow(g, Peer(e), i, c, sent[Peer(e)], f)
  BY ReaderFinds
<1>2. q.expected = {} \/ m.type \in q.expected
  BY AcceptedFacts
<1>3. m.type \in UserTypes /\ m.type # "KEXINIT" /\ m.type # "NEWKEYS"
  BY DEF UserTypes
<1>4. g \in Engines \cup {"none"} /\ Peer(e) \in Ends
  BY AgreedFacts, EndsFacts DEF RekeyInv
<1> HIDE DEF m, i, q, f, g
<1>5. CASE FindsIdle(q, m, sent[e], read[e], c)
  <2>1. Idle(q) /\ q.cookies # 0 /\ c = read[e]
    BY <1>3, <1>5 DEF FindsIdle
  <2> QED
    BY <1>0, <1>1, <2>1 DEF Takes, q, f, i, g
<1>6. CASE FindsAsked(q, m, sent[e], read[e], c, i)
  <2>1. Asked(q) /\ c = read[e]
    BY <1>3, <1>6 DEF FindsAsked
  <2>2. q.cookies # 1
    BY <1>0, <1>2, <1>3, <2>1 DEF Asked, Awaited
  <2> QED
    BY <1>0, <1>1, <2>1, <2>2 DEF Takes, q, f, i, g
<1>7. CASE FindsTalking(g, e, q, m, sent[e], read[e], c, i)
  <2>1. PICK j \in 1 .. Final(g) - 1 : Talking(g, e, q, j)
    BY <1>7 DEF FindsTalking
  <2>2. g \in Engines /\ q.expected = {Mine(g, Peer(e), j)}
    BY <1>4, <2>1 DEF Talking, Joined
  <2>3. Mine(g, Peer(e), j) \notin UserTypes
    BY <1>4, <2>2, MineFacts
  <2> QED
    BY <1>2, <1>3, <2>2, <2>3
<1>8. CASE FindsRenewed(g, q, m, sent[e], read[e], c, i)
  BY <1>2, <1>3, <1>8 DEF FindsRenewed, Renewed
<1> QED
  BY <1>1, <1>5, <1>6, <1>7, <1>8 DEF Finds

LEMMA TakenStage ==
    ASSUME NEW g, NEW e, NEW q, Typed(q), NEW r, NEW s, NEW a, Stage(g, e, q, s, a), Takes(q),
           Still(q, r), r.expected = {}, r.pc \in {"top", "reply"}
    PROVE  Stage(g, e, r, s, a) /\ r.reset # {"out"}
<1>1. r.active /\ q.active
  BY DEF Takes, Still
<1>2. r.pc # "end" /\ r.pc # "start" /\ r.pc # "switch" /\ {"out"} # {}
  OBVIOUS
<1>3. CASE Idle(q) /\ q.cookies # 0
  <2>1. s = 4 * q.cookies /\ a = 4 * q.cookies
    BY <1>3, IdleLevels
  <2>2. Idle(r) /\ r.cookies = q.cookies /\ r.reset = {}
    BY <1>2, <1>3 DEF Idle, Still
  <2> QED
    BY <1>1, <1>2, <2>1, <2>2 DEF Stage
<1>4. CASE Asked(q) /\ q.cookies # 1
  <2>1. s = 4 * q.cookies - 3 /\ a = 4 * q.cookies - 4
    BY <1>4 DEF Stage, Idle, Asked, Asking, Opened, Talking, Joined, Switching, Renewed
  <2>2. Asked(r) /\ r.cookies = q.cookies /\ r.reset = {}
    BY <1>2, <1>4 DEF Asked, Asking, Opened, Still, Awaited
  <2> QED
    BY <1>1, <1>2, <2>1, <2>2 DEF Stage
<1> QED
  BY <1>3, <1>4 DEF Takes

LEMMA ReadQuietKeeps ==
    ASSUME RekeyInv, NEW e \in Ends, ReadQuiet(e) \/ ReadCall(e)
    PROVE  RekeyInv'
<1>1. PICK sent \in [Ends -> Nat], read \in [Ends -> Nat] : Stages(sent, read)
  BY DEF RekeyInv, Levels
<1> DEFINE called == [Taken(e) EXCEPT !.pc = "reply"]
<1>2. PICK r \in {Taken(e), called}, types \in {{"data", "answer"}, {"call"}} :
          Reads(e, types, r, <<>>)
  BY DEF ReadQuiet, ReadCall
<1>3. TypeInv /\ Typed(t[e]) /\ Stage(Agreed, e, t[e], sent[e], read[e])
  BY <1>1 DEF RekeyInv, TypeInv, Stages
<1>4. Typed(Taken(e)) /\ Alike(t[e], Taken(e)) /\ Taken(e).pc = "top" /\ Taken(e).expected = {}
  BY <1>3, TakenFacts
<1>5. Typed(called)
  BY <1>4 DEF Typed, Fields
<1>6. Alike(t[e], called) /\ called.pc = "reply" /\ called.expected = {}
  BY <1>4 DEF Typed, Fields, Alike
<1>7. Typed(r) /\ Alike(t[e], r) /\ r.pc \in {"top", "reply"} /\ r.expected = {}
  BY <1>2, <1>4, <1>5, <1>6
<1> HIDE DEF called
<1>8. t[e].pc = "read" /\ wire[e] # <<>> /\ Refusal(e) = "none" /\ Next1(e).type \in UserTypes
  BY <1>2 DEF Reads, UserTypes
<1>9. Takes(t[e])
      /\ Flow(Agreed, Peer(e), t[Peer(e)].intruded, read[e], sent[Peer(e)], Tail(wire[e]))
  BY <1>1, <1>8, UserTaken
<1>10. Still(t[e], r)
  BY <1>7 DEF Alike, Still
<1>11. Stage(Agreed, e, r, sent[e], read[e]) /\ r.reset # {"out"}
  BY <1>3, <1>7, <1>9, <1>10, TakenStage
<1>12. Fine(Peer(e), r) /\ (t[e].intruded => r.intruded)
  BY <1>7, FineKept DEF Fine, Alike
<1>13. <<>> \in Seq(Packets) /\ Series(Agreed, e, r.intruded, <<>>, sent[e], sent[e])
       /\ sent[e] \in Nat /\ read[e] \in Nat
  BY DEF Series
<1> QED
  BY <1>1, <1>2, <1>7, <1>9, <1>11, <1>12, <1>13, ReadKeeps

LEMMA AnswerHop ==
    ASSUME NEW g, NEW e, NEW r, Typed(r), NEW s, NEW a, Takes(r), Stage(g, e, r, s, a), NEW i,
           Mid(r) => i
    PROVE  Plain(r, "answer") \in Packets /\ Hop(g, e, i, Plain(r, "answer"), s, s)
<1>1. "answer" \in UserTypes /\ "answer" \in PacketTypes
  BY DEF UserTypes, PacketTypes
<1>2. CASE Idle(r) /\ r.cookies # 0
  <2>1. s = 4 * r.cookies
    BY <1>2, IdleLevels
  <2> QED
    BY <1>1, <1>2, <2>1, UserHops
<1>3. CASE Asked(r) /\ r.cookies # 1
  <2> DEFINE k == r.cookies - 1
             m == Plain(r, "answer")
  <2>1. s = 4 * r.cookies - 3
    BY <1>3 DEF Stage, Idle, Asked, Asking, Opened, Talking, Joined, Switching, Renewed
  <2>2. m \in Packets /\ m.type = "answer" /\ m.key = r.outKey
    BY <1>1, PlainFacts
  <2>3. Mid(r)
    BY <1>3 DEF Mid, Asked, Asking, Opened, Typed
  <2>4. r.outKey = K(k) /\ k \in Nat /\ s = 4 * k + 1
    BY <1>3, <2>1 DEF Asked, Asking, Opened, Typed
  <2> HIDE DEF k, m
  <2>5. Hop(g, e, i, m, s, s)
    BY <1>1, <2>2, <2>3, <2>4 DEF Hop, UserHop
  <2> QED
    BY <2>2, <2>5 DEF m
<1> QED
  BY <1>2, <1>3 DEF Takes

LEMMA ReadAskKeeps == ASSUME RekeyInv, NEW e \in Ends, ReadAsk(e) PROVE RekeyInv'
<1>1. PICK sent \in [Ends -> Nat], read \in [Ends -> Nat] : Stages(sent, read)
  BY DEF RekeyInv, Levels
<1> DEFINE q == Taken(e)
           r == Intruding(q)
           m == Plain(t[e], "answer")
<1>2. Reads(e, {"ask"}, r, <<m>>)
  BY DEF ReadAsk
<1>3. TypeInv /\ Typed(t[e]) /\ Stage(Agreed, e, t[e], sent[e], read[e])
  BY <1>1 DEF RekeyInv, TypeInv, Stages
<1>4. Typed(q) /\ Alike(t[e], q) /\ q.pc = "top" /\ q.expected = {}
  BY <1>3, TakenFacts
<1>5. r = [q EXCEPT !.intruded = q.intruded \/ Mid(q)] /\ q.intruded \in BOOLEAN
  BY <1>4 DEF Intruding, Typed
<1> HIDE DEF q, r
<1>6. q.intruded \/ Mid(q) \in BOOLEAN
  BY <1>5 DEF Mid
<1>7. Typed(r)
  BY <1>4, <1>5, <1>6 DEF Typed, Fields
<1>8. Still(q, r) /\ r.pc = "top" /\ r.expected = {} /\ r.why = q.why
      /\ r.intruded = (q.intruded \/ Mid(q))
  BY <1>4, <1>5 DEF Typed, Fields, Still
<1>9. Still(t[e], r) /\ (Mid(t[e]) <=> Mid(q)) /\ q.intruded = t[e].intruded /\ q.why = t[e].why
  BY <1>4, <1>8 DEF Still, Alike, Mid
<1>10. t[e].pc = "read" /\ wire[e] # <<>> /\ Refusal(e) = "none" /\ Next1(e).type \in UserTypes
  BY <1>2 DEF Reads, UserTypes
<1>11. Takes(t[e])
       /\ Flow(Agreed, Peer(e), t[Peer(e)].intruded, read[e], sent[Peer(e)], Tail(wire[e]))
  BY <1>1, <1>10, UserTaken
<1>12. r.pc \in {"top", "reply"}
  BY <1>8
<1>13. Stage(Agreed, e, r, sent[e], read[e]) /\ r.reset # {"out"}
  BY <1>3, <1>8, <1>9, <1>11, <1>12, TakenStage
<1>14. Mid(t[e]) => r.intruded
  BY <1>8, <1>9
<1>15. m \in Packets /\ Hop(Agreed, e, r.intruded, m, sent[e], sent[e])
  BY <1>3, <1>11, <1>14, AnswerHop
<1>16. Fine(Peer(e), r) /\ (t[e].intruded => r.intruded)
  BY <1>8, <1>9, FineKept DEF Fine
<1> HIDE DEF m
<1>17. <<m>> \in Seq(Packets) /\ Series(Agreed, e, r.intruded, <<m>>, sent[e], sent[e])
       /\ sent[e] \in Nat /\ read[e] \in Nat
  BY <1>15 DEF Series
<1> QED
  BY <1>1, <1>2, <1>7, <1>11, <1>13, <1>16, <1>17, ReadKeeps

(****************************************************************************)
(* A KEXINIT is read: both sides have one now.                              *)
(****************************************************************************)
Answered(e) ==
    IF AnsweringInit(e) THEN WithKexInit(Taken(e)) ELSE [Taken(e) EXCEPT !.clear = FALSE]

Ours(e) == IF AnsweringInit(e) THEN <<KexInit(t[e])>> ELSE <<>>

\* The transport r of e before _parse_kex_init, and what it has answered.
Ready(e, r, ours, s, f) ==
    /\ Typed(r) /\ Asking(r) /\ r.pc = "top" /\ r.active
    /\ r.intruded = t[e].intruded /\ r.why = t[e].why
    /\ Next1(e).body[1] = r.cookies
    /\ \/ ours = <<>> /\ s = 4 * r.cookies - 3
       \/ \E m \in Packets :
              ours = <<m>> /\ Hop(Agreed, e, r.intruded, m, s, 4 * r.cookies - 3)
    /\ Flow(Agreed, Peer(e), t[Peer(e)].intruded, 4 * r.cookies - 3, f, Tail(wire[e]))

LEMMA NegotiatesReady ==
    ASSUME RekeyInv, NEW sent \in [Ends -> Nat], NEW read \in [Ends -> Nat], Stages(sent,
           read),
           NEW e \in Ends, t[e].pc = "read", wire[e] # <<>>, Refusal(e) = "none",
           Next1(e).type = "KEXINIT"
    PROVE  Ready(e, Answered(e), Ours(e), sent[e], sent[Peer(e)])
<1> DEFINE m == Next1(e)
           i == t[Peer(e)].intruded
           q == t[e]
           u == Taken(e)
           r == Answered(e)
           f == Tail(wire[e])
           g == Agreed
<1>0. q.active /\ Typed(q) /\ TypeInv
  BY ReaderFinds DEF RekeyInv, TypeInv
<1>1. PICK c \in Nat : Finds(g, e, q, m, sent[e], read[e], c, i)
                       /\ Flow(g, Peer(e), i, c, sent[Peer(e)], f)
  BY ReaderFinds
<1>2. q.expected = {} \/ m.type \in q.expected
  BY AcceptedFacts
<1>3. m.type \notin UserTypes /\ m.type # "NEWKEYS" /\ m.type = "KEXINIT"
  BY DEF UserTypes
<1>4. g \in Engines \cup {"none"} /\ Peer(e) \in Ends
  BY AgreedFacts, EndsFacts DEF RekeyInv
<1>5. Typed(u) /\ Alike(q, u) /\ u.pc = "top" /\ u.expected = {}
  BY <1>0, TakenFacts
<1>6. r = (IF q.localInit = 0 THEN WithKexInit(u) ELSE [u EXCEPT !.clear = FALSE])
      /\ Ours(e) = (IF q.localInit = 0 THEN <<KexInit(q)>> ELSE <<>>)
  BY DEF Answered, Ours, AnsweringInit
<1>7. q.cookies \in Nat
  BY <1>0 DEF Typed
<1> HIDE DEF m, i, q, f, g, u, r
<1>8. CASE FindsIdle(q, m, sent[e], read[e], c)
  <2> DEFINE k == q.cookies
  <2>1. Idle(q) /\ k # 0 /\ sent[e] = 4 * k /\ m.body = <<k + 1, 0>> /\ c = 4 * k + 1
    BY <1>3, <1>8 DEF FindsIdle
  <2>2. r = WithKexInit(u) /\ Ours(e) = <<KexInit(q)>>
    BY <1>6, <2>1 DEF Idle
  <2>3. Typed(r) /\ Wishing(u, r)
    BY <1>5, <2>2, WithKexInitFacts
  <2>4. KexInit(q) \in Packets /\ Hop(g, e, r.intruded, KexInit(q), 4 * k, 4 * k + 1)
    BY <1>0, <2>1, KexInitHop
  <2>5. /\ r.pc = "top" /\ r.active /\ r.intruded = q.intruded /\ r.why = q.why
        /\ r.cookies = k + 1 /\ r.localInit = k + 1 /\ ~r.clear /\ r.inKey = K(k)
        /\ r.inKex /\ r.reset = {} /\ r.remoteInit = 0 /\ r.engine = "none"
        /\ r.secret = NoKey /\ r.outKey = K(k) /\ r.session = K(1)
    BY <1>0, <1>5, <2>1, <2>3 DEF Wishing, Alike, Idle
  <2>11. k \in Nat /\ k # 0
    BY <1>7, <2>1
  <2> HIDE DEF k
  <2>6. (k + 1) - 1 = k /\ k + 1 > 0 /\ k + 1 # 1 /\ 4 * (k + 1) - 3 = 4 * k + 1
    BY <2>11
  <2>7. Asking(r)
    BY <2>5, <2>6 DEF Asking, Opened
  <2>8. m.body[1] = r.cookies /\ 4 * r.cookies - 3 = 4 * k + 1
    BY <2>1, <2>5, <2>6
  <2>9. Flow(g, Peer(e), i, 4 * r.cookies - 3, sent[Peer(e)], f)
    BY <1>1, <2>1, <2>8
  <2>10. \E n \in Packets :
             Ours(e) = <<n>> /\ Hop(g, e, r.intruded, n, sent[e], 4 * r.cookies - 3)
    BY <2>1, <2>2, <2>4, <2>8
  <2> QED
    BY <2>3, <2>5, <2>7, <2>8, <2>9, <2>10 DEF Ready, m, i, q, f, g, r
<1>9. CASE FindsAsked(q, m, sent[e], read[e], c, i)
  <2> DEFINE k == q.cookies
  <2>1. Asked(q) /\ sent[e] = 4 * k - 3 /\ m.body = <<k, 0>> /\ c = read[e] + 1
        /\ read[e] = 4 * k - 4
    BY <1>3, <1>9 DEF FindsAsked
  <2>2. r = [u EXCEPT !.clear = FALSE] /\ Ours(e) = <<>>
    BY <1>6, <1>7, <2>1 DEF Asked, Asking, Opened
  <2>3. Typed(r)
    BY <1>5, <2>2 DEF Typed, Fields
  <2>4. /\ r.pc = "top" /\ r.active = u.active /\ r.intruded = u.intruded /\ r.why = u.why
        /\ r.cookies = u.cookies /\ r.localInit = u.localInit /\ ~r.clear /\ r.inKey = u.inKey
        /\ r.inKex = u.inKex /\ r.reset = u.reset /\ r.remoteInit = u.remoteInit
        /\ r.engine = u.engine /\ r.secret = u.secret /\ r.outKey = u.outKey
        /\ r.session = u.session
    BY <1>5, <2>2 DEF Typed, Fields
  <2>5. Asking(r) /\ r.active /\ r.intruded = q.intruded /\ r.why = q.why /\ r.cookies = k
    BY <1>0, <1>5, <2>1, <2>4 DEF Asked, Asking, Opened, Alike
  <2>6. m.body[1] = r.cookies /\ 4 * r.cookies - 3 = c /\ sent[e] = 4 * r.cookies - 3
    <3>1. m.body[1] = k /\ r.cookies = k /\ k \in Nat
      BY <1>7, <2>1, <2>5
    <3>2. c = read[e] + 1 /\ read[e] = 4 * k - 4 /\ sent[e] = 4 * k - 3
      BY <2>1
    <3> HIDE DEF k
    <3>3. c = 4 * k - 3
      BY <3>1, <3>2
    <3> QED
      BY <3>1, <3>2, <3>3
  <2>7. Flow(g, Peer(e), i, 4 * r.cookies - 3, sent[Peer(e)], f)
    BY <1>1, <2>6
  <2> QED
    BY <2>2, <2>3, <2>4, <2>5, <2>6, <2>7 DEF Ready, m, i, q, f, g, r
<1>10. CASE FindsTalking(g, e, q, m, sent[e], read[e], c, i)
  <2>1. PICK j \in 1 .. Final(g) - 1 : Talking(g, e, q, j)
    BY <1>10 DEF FindsTalking
  <2>2. g \in Engines /\ q.expected = {Mine(g, Peer(e), j)}
    BY <1>4, <2>1 DEF Talking, Joined
  <2>3. Mine(g, Peer(e), j) # "KEXINIT"
    BY <1>4, <2>2, MineFacts
  <2> QED
    BY <1>2, <1>3, <2>2, <2>3
<1>11. CASE FindsRenewed(g, q, m, sent[e], read[e], c, i)
  BY <1>2, <1>3, <1>11 DEF FindsRenewed, Renewed
<1> QED
  BY <1>1, <1>8, <1>9, <1>10, <1>11 DEF Finds

LEMMA PairFacts ==
    ASSUME NEW m \in Packets, NEW n \in Packets
    PROVE  Append(<<m>>, n) = <<m, n>>
<1>1. ASSUME NEW q \in Seq(Packets), Len(q) = 1, q[1] = m
      PROVE  Append(q, n) = <<m, n>>
  <2> DEFINE s == Append(q, n)
  <2>1. s \in Seq(Packets) /\ Len(s) = Len(q) + 1 /\ s[Len(q) + 1] = n
        /\ \A x \in 1 .. Len(q) : s[x] = q[x]
    OBVIOUS
  <2> HIDE DEF s
  <2>2. s \in Seq(Packets) /\ Len(s) = 2 /\ s[1] = m /\ s[2] = n
    BY <1>1, <2>1
  <2>3. /\ <<m, n>> \in Seq(Packets) /\ Len(<<m, n>>) = 2
        /\ <<m, n>>[1] = m /\ <<m, n>>[2] = n
    OBVIOUS
  <2>4. \A x \in 1 .. 2 : x = 1 \/ x = 2
    OBVIOUS
  <2>5. s = <<m, n>>
    BY <2>2, <2>3, <2>4, SeqEqual
  <2> QED
    BY <2>5 DEF s
<1>2. <<m>> \in Seq(Packets) /\ Len(<<m>>) = 1 /\ <<m>>[1] = m
  OBVIOUS
<1> QED
  BY <1>1, <1>2

LEMMA ReadySeries ==
    ASSUME NEW e, NEW r, NEW ours, NEW s, NEW f, Ready(e, r, ours, s, f)
    PROVE  /\ ours \in Seq(Packets)
           /\ Series(Agreed, e, r.intruded, ours, s, 4 * r.cookies - 3)
           /\ \A m \in Packets, d \in Nat :
                  Hop(Agreed, e, r.intruded, m, 4 * r.cookies - 3, d) =>
                      /\ Append(ours, m) \in Seq(Packets)
                      /\ Series(Agreed, e, r.intruded, Append(ours, m), s, d)
<1> DEFINE b == 4 * r.cookies - 3
           i == r.intruded
           g == Agreed
<1>1. \/ ours = <<>> /\ s = b
      \/ \E m \in Packets : ours = <<m>> /\ Hop(g, e, i, m, s, b)
  BY DEF Ready
<1>2. b \in Nat
  BY DEF Ready, Typed, Asking, Opened
<1> HIDE DEF b, i, g
<1>3. CASE ours = <<>> /\ s = b
  <2>1. ours \in Seq(Packets) /\ Series(g, e, i, ours, s, b)
    BY <1>3 DEF Series
  <2>2. ASSUME NEW m \in Packets, NEW d \in Nat, Hop(g, e, i, m, b, d)
        PROVE  Append(ours, m) \in Seq(Packets) /\ Series(g, e, i, Append(ours, m), s, d)
    <3>1. Append(ours, m) = <<m>>
      BY <1>3
    <3> QED
      BY <1>3, <2>2, <3>1 DEF Series
  <2> QED
    BY <2>1, <2>2 DEF b, i, g
<1>4. ASSUME NEW n \in Packets, ours = <<n>>, Hop(g, e, i, n, s, b)
      PROVE  /\ ours \in Seq(Packets) /\ Series(g, e, i, ours, s, b)
             /\ \A m \in Packets, d \in Nat :
                    Hop(g, e, i, m, b, d) =>
                        /\ Append(ours, m) \in Seq(Packets)
                        /\ Series(g, e, i, Append(ours, m), s, d)
  <2>1. ours \in Seq(Packets) /\ Series(g, e, i, ours, s, b)
    BY <1>4 DEF Series
  <2>2. ASSUME NEW m \in Packets, NEW d \in Nat, Hop(g, e, i, m, b, d)
        PROVE  Append(ours, m) \in Seq(Packets) /\ Series(g, e, i, Append(ours, m), s, d)
    <3>0. Append(<<n>>, m) = <<n, m>>
      BY PairFacts
    <3>1. Append(ours, m) = <<n, m>>
      BY <1>4, <3>0
    <3>2. Append(ours, m) \in Seq(Packets)
      BY <1>4, <2>2
    <3> QED
      BY <1>2, <1>4, <2>2, <3>1, <3>2 DEF Series
  <2> QED
    BY <2>1, <2>2
<1> QED
  BY <1>1, <1>3, <1>4 DEF b, i, g

(****************************************************************************)
(* _parse_kex_init.                                                         *)
(****************************************************************************)
\* The transport goes on as q with engine g, waiting for a packet of type x.
Begins(q, r, g, x) ==
    /\ Typed(r) /\ Joined(g, r) /\ r.active /\ r.pc = "top" /\ r.inKex /\ r.reset = {}
    /\ r.secret = NoKey /\ r.outKey = K(r.cookies - 1) /\ r.cookies = q.cookies
    /\ r.session = (IF r.cookies = 1 THEN NoKey ELSE K(1)) /\ r.expected = {x}
    /\ r.intruded = q.intruded /\ r.why = q.why

LEMMA BeginsFacts ==
    ASSUME NEW q, Typed(q), Asking(q), q.pc = "top", q.active, NEW g \in Engines,
           NEW x \in PacketTypes, NEW r,
           r = [q EXCEPT !.remoteInit = q.cookies, !.engine = g, !.expected = {x}]
    PROVE  Begins(q, r, g, x)
<1>1. Typed(r)
  BY DEF Typed, Fields
<1>2. /\ r.active = q.active /\ r.why = q.why /\ r.intruded = q.intruded /\ r.pc = q.pc
      /\ r.inKex = q.inKex /\ r.clear = q.clear /\ r.reset = q.reset
      /\ r.cookies = q.cookies /\ r.localInit = q.localInit /\ r.remoteInit = q.cookies
      /\ r.engine = g /\ r.expected = {x} /\ r.secret = q.secret /\ r.session = q.session
      /\ r.outKey = q.outKey /\ r.inKey = q.inKey
  BY DEF Typed, Fields
<1>3. g # "none"
  BY EnginesFacts
<1> QED
  BY <1>1, <1>2, <1>3 DEF Begins, Asking, Opened, Joined

LEMMA TalkingStage ==
    ASSUME NEW g \in Engines, NEW e \in Ends, NEW q, NEW r, NEW k, NEW s, k = q.cookies,
           Begins(q, r, g, Mine(g, Peer(e), 1)),
           s = 4 * k - 3 + IF e = "client" THEN 1 ELSE 0
    PROVE  Stage(g, e, r, s, 4 * k - 3) /\ r.reset # {"out"}
<1>1. Talking(g, e, r, 1) /\ r.cookies = k /\ k \in Nat /\ k > 0
  BY DEF Begins, Talking, Joined, Opened, Typed
<1>2. Final(g) \in {2, 3}
  BY FinalFacts
<1>3. 1 \in 1 .. Final(g) - 1
  BY <1>2
<1>4. /\ s = 4 * r.cookies - 4 + 1 + IF e = "client" THEN 1 ELSE 0
      /\ 4 * k - 3 = 4 * r.cookies - 4 + 1
  BY <1>1
<1>5. r.active /\ r.pc # "end" /\ r.reset # {"out"}
  BY DEF Begins
<1> QED
  BY <1>1, <1>3, <1>4, <1>5 DEF Stage

LEMMA NegotiateKeeps == ASSUME RekeyInv, NEW e \in Ends, NegotiateKeys(e) PROVE RekeyInv'
<1>1. PICK sent \in [Ends -> Nat], read \in [Ends -> Nat] : Stages(sent, read)
  BY DEF RekeyInv, Levels
<1> DEFINE q == Answered(e)
           ours == Ours(e)
           g == Agreed
           k == q.cookies
           first == Dialogue[g][1]
           r == [q EXCEPT !.remoteInit = Next1(e).body[1], !.engine = g]
           rc == [r EXCEPT !.expected = {Dialogue[g][2]}]
           rs == [r EXCEPT !.expected = {first}]
<1>2. /\ g = "none" => Reads(e, {"KEXINIT"}, Dead(q, "engine"), ours)
      /\ g # "none" /\ e = "client" =>
             Reads(e, {"KEXINIT"}, rc, Append(ours, Plain(q, first)))
      /\ g # "none" /\ e # "client" => Reads(e, {"KEXINIT"}, rs, ours)
  BY DEF NegotiateKeys, Answered, Ours
<1>3. t[e].pc = "read" /\ wire[e] # <<>> /\ Refusal(e) = "none" /\ Next1(e).type = "KEXINIT"
  BY <1>2 DEF Reads
<1>4. Ready(e, q, ours, sent[e], sent[Peer(e)])
  BY <1>1, <1>3, NegotiatesReady
<1>5. g \in Engines \cup {"none"} /\ e \in {"client", "server"}
  BY AgreedFacts DEF RekeyInv, Ends
<1> HIDE DEF q, ours, g
<1>6. /\ Typed(q) /\ Asking(q) /\ q.pc = "top" /\ q.active /\ q.intruded = t[e].intruded
      /\ q.why = t[e].why /\ Next1(e).body[1] = k /\ k \in Nat /\ k > 0
      /\ Flow(g, Peer(e), t[Peer(e)].intruded, 4 * k - 3, sent[Peer(e)], Tail(wire[e]))
  BY <1>4 DEF Ready, Asking, Opened, Typed, g
<1>7. ours \in Seq(Packets) /\ Series(g, e, q.intruded, ours, sent[e], 4 * k - 3)
      /\ 4 * k - 3 \in Nat /\ 4 * k - 4 \in Nat /\ 4 * k - 2 \in Nat
  <2>1. ours \in Seq(Packets) /\ Series(g, e, q.intruded, ours, sent[e], 4 * k - 3)
    BY <1>4, ReadySeries DEF g
  <2>2. 4 * k - 3 \in Nat /\ 4 * k - 4 \in Nat /\ 4 * k - 2 \in Nat
    BY <1>6, LevelFacts
  <2> QED
    BY <2>1, <2>2
<1>8. Fine(Peer(e), q)
  BY <1>6, FineKept DEF Fine
<1>9. CASE g = "none"
  <2> DEFINE d == Dead(q, "engine")
  <2>1. d = Dead(q, "engine") /\ Reads(e, {"KEXINIT"}, d, ours)
    BY <1>2, <1>9
  <2> HIDE DEF d
  <2>2. Typed(d) /\ Ended(q, d, "engine")
    BY <1>6, <2>1, DeadFacts
  <2>3. Asked(d) /\ d.cookies = k
    BY <1>6, <2>2 DEF Asked, Asking, Opened, Ended
  <2>4. Stage(Agreed, e, d, 4 * k - 3, 4 * k - 4)
    BY <2>2, <2>3 DEF Stage, Ended
  <2>5. Fine(Peer(e), d) /\ d.intruded = q.intruded /\ ~d.active /\ d.reset # {"out"}
    BY <1>6, <2>2 DEF Fine, Ended, Asking
  <2> QED
    BY <1>1, <1>6, <1>7, <2>1, <2>2, <2>4, <2>5, ReadKeeps DEF g
<1>10. CASE g # "none" /\ e = "client"
  <2> DEFINE m == Plain(q, first)
  <2>1. g \in Engines /\ Peer(e) = "server" /\ Mine(g, Peer(e), 1) = Dialogue[g][2]
        /\ Mine(g, e, 1) = first /\ Final(g) \in {2, 3} /\ 1 \in 1 .. Final(g) - 1
    BY <1>5, <1>10, DialogueFacts, EnginesFacts DEF Peer, Mine
  <2>2. Dialogue[g][2] \in PacketTypes /\ first \in PacketTypes
    BY <2>1, MineFacts, EndsFacts
  <2>3. rc = [q EXCEPT !.remoteInit = k, !.engine = g, !.expected = {Dialogue[g][2]}]
    BY <1>6 DEF Typed, Fields
  <2>4. Begins(q, rc, g, Dialogue[g][2])
    BY <1>6, <2>1, <2>2, <2>3, BeginsFacts
  <2>5. m \in Packets /\ m.type = first /\ m.key = K(k - 1)
    BY <1>6, <2>2, PlainFacts DEF Asking
  <2>6. Reads(e, {"KEXINIT"}, rc, Append(ours, m))
    BY <1>2, <1>10
  <2> HIDE DEF rc, m, r, first
  <2>7. Stage(g, e, rc, 4 * k - 2, 4 * k - 3) /\ rc.reset # {"out"}
    <3>1. 4 * k - 2 = 4 * k - 3 + IF e = "client" THEN 1 ELSE 0
      BY <1>6, <1>10
    <3> QED
      BY <1>6, <2>1, <2>4, <3>1, TalkingStage
  <2>8. Hop(g, e, q.intruded, m, 4 * k - 3, 4 * k - 2)
    <3> DEFINE n == k - 1
    <3>1. n \in Nat /\ 4 * k - 3 = 4 * n + 1 /\ 4 * k - 2 = 4 * n + 1 + 1 /\ m.key = K(n)
      BY <1>6, <2>5
    <3> HIDE DEF n
    <3>2. DialogueHop(g, e, m, n, 4 * n + 1, 4 * n + 1 + 1)
      BY <1>10, <2>1, <2>5 DEF DialogueHop
    <3> QED
      BY <3>1, <3>2 DEF Hop
  <2>9. Append(ours, m) \in Seq(Packets)
        /\ Series(g, e, q.intruded, Append(ours, m), sent[e], 4 * k - 2)
    BY <1>4, <1>7, <2>5, <2>8, ReadySeries DEF g
  <2>10. /\ Typed(rc) /\ rc.intruded = q.intruded /\ Fine(Peer(e), rc)
    BY <1>8, <2>4 DEF Begins, Fine
  <2> QED
    BY <1>1, <1>6, <1>7, <2>6, <2>7, <2>9, <2>10, ReadKeeps DEF g
<1>11. CASE g # "none" /\ e # "client"
  <2>1. g \in Engines /\ e = "server" /\ Peer(e) = "client" /\ Mine(g, Peer(e), 1) = first
    BY <1>5, <1>11 DEF Peer, Mine
  <2>2. first \in PacketTypes
    <3>1. 1 \in 1 .. Final(g) - 1
      BY FinalFacts
    <3> QED
      BY <2>1, <3>1, MineFacts, EndsFacts
  <2>3. rs = [q EXCEPT !.remoteInit = k, !.engine = g, !.expected = {first}]
    BY <1>6 DEF Typed, Fields
  <2>4. Begins(q, rs, g, first)
    BY <1>6, <2>1, <2>2, <2>3, BeginsFacts
  <2>5. Reads(e, {"KEXINIT"}, rs, ours)
    BY <1>2, <1>11
  <2> HIDE DEF rs, r, first
  <2>6. Stage(g, e, rs, 4 * k - 3, 4 * k - 3) /\ rs.reset # {"out"}
    <3>1. 4 * k - 3 = 4 * k - 3 + IF e = "client" THEN 1 ELSE 0
      BY <1>6, <1>11
    <3> QED
      BY <1>6, <2>1, <2>4, <3>1, TalkingStage
  <2>7. /\ Typed(rs) /\ rs.intruded = q.intruded /\ Fine(Peer(e), rs)
    BY <1>8, <2>4 DEF Begins, Fine
  <2> QED
    BY <1>1, <1>6, <1>7, <2>5, <2>6, <2>7, ReadKeeps DEF g
<1> QED
  BY <1>9, <1>10, <1>11

(****************************************************************************)
(* The packets of the dialogue.                                             *)
(****************************************************************************)
\* The j-th packet of the peer is there for an end that waits for it.
Hears(e, j, s, f) ==
    /\ Talking(Agreed, e, t[e], j) /\ t[e].active /\ Next1(e).type = Mine(Agreed, Peer(e), j)
    /\ s = 4 * t[e].cookies - 4 + j + IF e = "client" THEN 1 ELSE 0
    /\ Peer(e) = "server" /\ j + 1 = Final(Agreed) => Next1(e).body = K(t[e].cookies)
    /\ Flow(Agreed, Peer(e), t[Peer(e)].intruded, 4 * t[e].cookies - 4 + (j + 1), f,
            Tail(wire[e]))

LEMMA KexTypesFacts ==
    ASSUME NEW e \in Ends, t[e].engine \in Engines \cup {"none"}, NEW x \in KexTypes(e)
    PROVE  t[e].engine \in Engines /\ x \notin UserTypes \cup {"KEXINIT", "NEWKEYS"}
<1>1. t[e].engine \in Engines
  BY DEF KexTypes
<1>2. CASE t[e].engine = "group"
  <2>1. Len(Dialogue["group"]) = 2
    BY DialogueFacts
  <2>2. PICK n \in 1 .. 2 : x = Dialogue["group"][n]
    BY <1>1, <1>2, <2>1 DEF KexTypes
  <2>3. n = 1 \/ n = 2
    BY <2>2
  <2> QED
    BY <1>1, <2>2, <2>3, DialogueFacts DEF UserTypes
<1>3. CASE t[e].engine = "gex"
  <2>1. Len(Dialogue["gex"]) = 4
    BY DialogueFacts
  <2>2. PICK n \in 1 .. 4 : x = Dialogue["gex"][n]
    BY <1>1, <1>3, <2>1 DEF KexTypes
  <2>3. n = 1 \/ n = 2 \/ n = 3 \/ n = 4
    BY <2>2
  <2> QED
    BY <1>1, <2>2, <2>3, DialogueFacts DEF UserTypes
<1> QED
  BY <1>1, <1>2, <1>3, EnginesFacts

LEMMA ParseHears ==
    ASSUME RekeyInv, NEW sent \in [Ends -> Nat], NEW read \in [Ends -> Nat], Stages(sent,
           read),
           NEW e \in Ends, t[e].pc = "read", wire[e] # <<>>, Refusal(e) = "none",
           Next1(e).type \in KexTypes(e)
    PROVE  /\ Agreed \in Engines /\ t[e].engine = Agreed
           /\ \E j \in 1 .. Final(Agreed) - 1 : Hears(e, j, sent[e], sent[Peer(e)])
<1> DEFINE m == Next1(e)
           i == t[Peer(e)].intruded
           q == t[e]
           f == Tail(wire[e])
           g == Agreed
<1>0. q.active /\ Typed(q)
  BY ReaderFinds DEF RekeyInv, TypeInv
<1>1. PICK c \in Nat : Finds(g, e, q, m, sent[e], read[e], c, i)
                       /\ Flow(g, Peer(e), i, c, sent[Peer(e)], f)
  BY ReaderFinds
<1>2. q.engine \in Engines /\ m.type \notin UserTypes /\ m.type # "KEXINIT" /\ m.type # "NEWKEYS"
  BY <1>0, KexTypesFacts DEF Typed
<1>3. g \in Engines \cup {"none"}
  BY AgreedFacts DEF RekeyInv
<1> HIDE DEF m, i, q, f, g
<1>4. FindsTalking(g, e, q, m, sent[e], read[e], c, i)
  BY <1>1, <1>2 DEF Finds, FindsIdle, FindsAsked, FindsRenewed
<1>5. PICK j \in 1 .. Final(g) - 1 :
          /\ Talking(g, e, q, j)
          /\ sent[e] = 4 * q.cookies - 4 + j + IF e = "client" THEN 1 ELSE 0
          /\ read[e] = 4 * q.cookies - 4 + j
          /\ m.type = Mine(g, Peer(e), j) /\ c = read[e] + 1
          /\ Peer(e) = "server" /\ j + 1 = Final(g) => m.body = K(q.cookies)
  BY <1>2, <1>4 DEF FindsTalking
<1>6. g \in Engines /\ q.engine = g
  BY <1>3, <1>5 DEF Talking, Joined
<1>7. c = 4 * q.cookies - 4 + (j + 1)
  <2>1. q.cookies \in Nat /\ j \in Nat
    BY <1>0, <1>5, FinalFacts DEF Typed
  <2> DEFINE k == q.cookies
  <2>2. read[e] = 4 * k - 4 + j /\ c = read[e] + 1 /\ k \in Nat
    BY <1>5, <2>1
  <2> HIDE DEF k
  <2>3. c = 4 * k - 4 + (j + 1)
    BY <2>1, <2>2
  <2> QED
    BY <2>3 DEF k
<1>8. Flow(g, Peer(e), i, 4 * q.cookies - 4 + (j + 1), sent[Peer(e)], f)
  BY <1>1, <1>7
<1>9. Hears(e, j, sent[e], sent[Peer(e)])
  BY <1>0, <1>5, <1>8 DEF Hears, m, i, q, f, g
<1> QED
  BY <1>5, <1>6, <1>9 DEF g, q

(* The place of the packet in the dialogue.                                 *)
LEMMA PositionFacts ==
    ASSUME NEW e \in Ends, Agreed \in Engines, t[e].engine = Agreed,
           NEW j \in 1 .. Final(Agreed) - 1,
           Next1(e).type = Mine(Agreed, Peer(e), j), NEW n, n = Position(e),
           NEW l, l = Len(Dialogue[Agreed])
    PROVE  /\ n = (IF e = "server" THEN 2 * j - 1 ELSE 2 * j) /\ l = 2 * (Final(Agreed) - 1)
           /\ Dialogue[Agreed][n] = Mine(Agreed, Peer(e), j)
           /\ e = "server" => Dialogue[Agreed][n + 1] = Mine(Agreed, e, j)
           /\ j + 1 < Final(Agreed) =>
                  /\ e = "client" => Dialogue[Agreed][n + 1] = Mine(Agreed, e, j + 1)
                  /\ Dialogue[Agreed][n + 2] = Mine(Agreed, Peer(e), j + 1)
<1> DEFINE d == Dialogue[Agreed]
           x == Next1(e).type
<1>1. n = CHOOSE i \in 1 .. Len(d) : d[i] = x
  BY DEF Position
<1>2. CASE Agreed = "group"
  <2>1. d = <<"DH_INIT", "DH_REPLY">> /\ Len(d) = 2 /\ Final(Agreed) = 2 /\ j = 1
    BY <1>2, DialogueFacts
  <2> HIDE DEF d
  <2>2. CASE e = "client"
    <3>1. x = "DH_REPLY" /\ Peer(e) = "server"
      BY <1>2, <2>1, <2>2, DialogueFacts DEF Peer
    <3>2. n = 2
      BY <1>1, <2>1, <3>1
    <3> QED
      BY <1>2, <2>1, <2>2, <3>1, <3>2, DialogueFacts DEF d
  <2>3. CASE e = "server"
    <3>1. x = "DH_INIT" /\ Peer(e) = "client"
      BY <1>2, <2>1, <2>3, DialogueFacts DEF Peer
    <3>2. n = 1
      BY <1>1, <2>1, <3>1
    <3>3. d[n] = "DH_INIT" /\ d[n + 1] = "DH_REPLY" /\ l = 2 /\ n = 2 * j - 1
          /\ ~(j + 1 < Final(Agreed))
      BY <2>1, <3>2 DEF d
    <3>4. Mine(Agreed, "client", j) = "DH_INIT" /\ Mine(Agreed, "server", j) = "DH_REPLY"
      BY <1>2, <2>1, DialogueFacts
    <3> QED
      BY <2>1, <2>3, <3>1, <3>3, <3>4 DEF d
  <2> QED
    BY <2>2, <2>3 DEF Ends
<1>3. CASE Agreed = "gex"
  <2>1. d = <<"GEX_REQUEST", "GEX_GROUP", "GEX_INIT", "GEX_REPLY">> /\ Len(d) = 4
        /\ Final(Agreed) = 3 /\ (j = 1 \/ j = 2)
    BY <1>3, DialogueFacts
  <2> HIDE DEF d
  <2>2. CASE e = "client" /\ j = 1
    <3>1. x = "GEX_GROUP" /\ Peer(e) = "server"
      BY <1>3, <2>1, <2>2, DialogueFacts DEF Peer
    <3>2. n = 2
      BY <1>1, <2>1, <3>1
    <3> QED
      BY <1>3, <2>1, <2>2, <3>1, <3>2, DialogueFacts DEF d
  <2>3. CASE e = "client" /\ j = 2
    <3>1. x = "GEX_REPLY" /\ Peer(e) = "server"
      BY <1>3, <2>1, <2>3, DialogueFacts DEF Peer
    <3>2. n = 4
      BY <1>1, <2>1, <3>1
    <3> QED
      BY <1>3, <2>1, <2>3, <3>1, <3>2, DialogueFacts DEF d
  <2>4. CASE e = "server" /\ j = 1
    <3>1. x = "GEX_REQUEST" /\ Peer(e) = "client"
      BY <1>3, <2>1, <2>4, DialogueFacts DEF Peer
    <3>2. n = 1
      BY <1>1, <2>1, <3>1
    <3> QED
      BY <1>3, <2>1, <2>4, <3>1, <3>2, DialogueFacts DEF d
  <2>5. CASE e = "server" /\ j = 2
    <3>1. x = "GEX_INIT" /\ Peer(e) = "client"
      BY <1>3, <2>1, <2>5, DialogueFacts DEF Peer
    <3>2. n = 3
      BY <1>1, <2>1, <3>1
    <3> QED
      BY <1>3, <2>1, <2>5, <3>1, <3>2, DialogueFacts DEF d
  <2> QED
    BY <2>1, <2>2, <2>3, <2>4, <2>5 DEF Ends
<1> QED
  BY <1>2, <1>3, EnginesFacts

LEMMA TakenTalking ==
    ASSUME TypeInv, NEW e \in Ends, NEW g, NEW j, Talking(g, e, t[e], j), t[e].active,
           NEW x \in PacketTypes, NEW r, r = [Taken(e) EXCEPT !.expected = {x}]
    PROVE  Begins(t[e], r, g, x) /\ r.active
<1> DEFINE q == Taken(e)
<1>1. Typed(q) /\ Alike(t[e], q) /\ q.pc = "top"
  BY TakenFacts
<1>2. r = [q EXCEPT !.expected = {x}]
  OBVIOUS
<1> HIDE DEF q
<1>3. Typed(r)
  BY <1>1, <1>2 DEF Typed, Fields
<1>4. Alike(q, r) /\ r.pc = "top" /\ r.expected = {x}
  BY <1>1, <1>2 DEF Typed, Fields, Alike
<1>5. Alike(t[e], r)
  BY <1>1, <1>4 DEF Alike
<1>6. Joined(g, r) /\ r.inKex /\ r.reset = {} /\ r.secret = NoKey
      /\ r.outKey = K(r.cookies - 1) /\ r.session = (IF r.cookies = 1 THEN NoKey ELSE K(1))
  <2>1. Joined(g, r)
    <3>1. Joined(g, t[e])
      BY DEF Talking
    <3> QED
      BY <1>4, <1>5, <3>1 DEF Alike, Joined, Opened
  <2> QED
    BY <1>5, <2>1 DEF Alike, Talking
<1>7. r.active /\ r.cookies = t[e].cookies /\ r.intruded = t[e].intruded /\ r.why = t[e].why
  BY <1>5 DEF Alike
<1> QED
  BY <1>3, <1>4, <1>6, <1>7 DEF Begins

LEMMA ContinuesKeeps ==
    ASSUME RekeyInv, NEW e \in Ends, ParseNext(e), KexContinues(e)
    PROVE  RekeyInv'
<1>1. PICK sent \in [Ends -> Nat], read \in [Ends -> Nat] : Stages(sent, read)
  BY DEF RekeyInv, Levels
<1> DEFINE g == Agreed
           n == Position(e)
           d == Dialogue[t[e].engine]
           x == d[n + 1]
           z == d[n + 2]
           r == [Taken(e) EXCEPT !.expected = {z}]
           m == Plain(t[e], x)
           l == Len(d)
           k == t[e].cookies
<1>2. n + 1 < l /\ Reads(e, KexTypes(e), r, <<m>>)
  BY DEF KexContinues
<1>3. t[e].pc = "read" /\ wire[e] # <<>> /\ Refusal(e) = "none" /\ Next1(e).type \in KexTypes(e)
  BY <1>2 DEF Reads
<1>4. g \in Engines /\ t[e].engine = g
      /\ \E j \in 1 .. Final(g) - 1 : Hears(e, j, sent[e], sent[Peer(e)])
  BY <1>1, <1>3, ParseHears
<1>5. PICK j \in 1 .. Final(g) - 1 : Hears(e, j, sent[e], sent[Peer(e)])
  BY <1>4
<1>6. /\ Talking(g, e, t[e], j) /\ t[e].active /\ Next1(e).type = Mine(g, Peer(e), j)
      /\ sent[e] = 4 * k - 4 + j + IF e = "client" THEN 1 ELSE 0
      /\ Flow(g, Peer(e), t[Peer(e)].intruded, 4 * k - 4 + (j + 1), sent[Peer(e)], Tail(wire[e]))
  BY <1>5 DEF Hears
<1>7. n = Position(e) /\ l = Len(Dialogue[g]) /\ x = Dialogue[g][n + 1] /\ z = Dialogue[g][n + 2]
      /\ r = [Taken(e) EXCEPT !.expected = {z}] /\ m = Plain(t[e], x)
  BY <1>4
<1> HIDE DEF n, d, x, z, r, m, l
<1>8. /\ n = (IF e = "server" THEN 2 * j - 1 ELSE 2 * j) /\ l = 2 * (Final(g) - 1)
      /\ e = "server" => x = Mine(g, e, j)
      /\ j + 1 < Final(g) =>
             (e = "client" => x = Mine(g, e, j + 1)) /\ z = Mine(g, Peer(e), j + 1)
  BY <1>4, <1>6, <1>7, PositionFacts
<1>9. e \in {"client", "server"} /\ Final(g) \in {2, 3} /\ j \in Nat
  BY FinalFacts DEF Ends
<1>10. j + 1 < Final(g) /\ j + 1 \in 1 .. Final(g) - 1
  BY <1>2, <1>8, <1>9
<1> DEFINE y == IF e = "client" THEN j + 1 ELSE j
           b == k - 1
<1>11. /\ x = Mine(g, e, y) /\ y \in 1 .. Final(g) - 1 /\ (e = "server" => y + 1 # Final(g))
       /\ z = Mine(g, Peer(e), j + 1)
  BY <1>8, <1>9, <1>10
<1>12. /\ k \in Nat /\ b \in Nat /\ t[e].outKey = K(b) /\ Typed(t[e]) /\ TypeInv
       /\ 4 * k - 4 = 4 * b
  <2>1. TypeInv /\ Typed(t[e])
    BY DEF RekeyInv, TypeInv
  <2>2. k \in Nat /\ t[e].outKey = K(b)
    BY <1>6, <2>1 DEF Talking, Typed
  <2>3. k > 0
    BY <1>6 DEF Talking, Joined, Opened
  <2> QED
    BY <2>1, <2>2, <2>3
<1>13. sent[e] = 4 * b + y /\ y \in Nat
  <2>1. sent[e] = 4 * k - 4 + j + (IF e = "client" THEN 1 ELSE 0)
    BY <1>6
  <2> HIDE DEF b, k
  <2>2. sent[e] = 4 * b + j + (IF e = "client" THEN 1 ELSE 0)
    BY <1>12, <2>1
  <2>3. CASE e = "client"
    BY <1>9, <1>12, <2>2, <2>3
  <2>4. CASE e # "client"
    BY <1>9, <1>12, <2>2, <2>4
  <2> QED
    BY <2>3, <2>4
<1>14. x \in PacketTypes /\ z \in PacketTypes
  BY <1>4, <1>10, <1>11, MineFacts, EndsFacts
<1>15. m \in Packets /\ m.type = x /\ m.key = K(b)
  BY <1>7, <1>12, <1>14, PlainFacts
<1> HIDE DEF y, b, k, g
<1>16. Hop(g, e, r.intruded, m, 4 * b + y, 4 * b + y + 1)
  <2>1. DialogueHop(g, e, m, b, 4 * b + y, 4 * b + y + 1)
    <3>1. g # "none"
      BY <1>4, EnginesFacts
    <3> QED
      BY <1>11, <1>15, <3>1 DEF DialogueHop
  <2> QED
    BY <1>12, <1>15, <2>1 DEF Hop
<1>17. Begins(t[e], r, g, z)
  BY <1>6, <1>7, <1>12, <1>14, TakenTalking
<1>18. r.active /\ r.cookies = k /\ r.reset # {"out"} /\ Typed(r) /\ r.intruded = t[e].intruded
       /\ r.why = t[e].why /\ r.pc # "end"
  BY <1>17 DEF Begins, k
<1>19. Talking(g, e, r, j + 1)
  BY <1>11, <1>17 DEF Begins, Talking
<1>20. Stage(g, e, r, 4 * b + y + 1, 4 * k - 4 + (j + 1))
  <2>1. 4 * b + y + 1 = 4 * r.cookies - 4 + (j + 1) + IF e = "client" THEN 1 ELSE 0
    BY <1>9, <1>12, <1>18 DEF y
  <2> QED
    BY <1>10, <1>18, <1>19, <2>1 DEF Stage
<1>21. <<m>> \in Seq(Packets) /\ Series(g, e, r.intruded, <<m>>, sent[e], 4 * b + y + 1)
       /\ 4 * b + y + 1 \in Nat /\ 4 * k - 4 + (j + 1) \in Nat
  BY <1>9, <1>12, <1>13, <1>15, <1>16 DEF Series
<1>22. Fine(Peer(e), r)
  BY <1>18, FineKept DEF Fine
<1>23. Flow(g, Peer(e), t[Peer(e)].intruded, 4 * k - 4 + (j + 1), sent[Peer(e)], Tail(wire[e]))
  BY <1>6 DEF k
<1> QED
  BY <1>1, <1>2, <1>18, <1>20, <1>21, <1>22, <1>23, ReadKeeps DEF g

(* The end has the hash: it sends NEWKEYS.                                  *)
Hashed(q, r, h, n) ==
    /\ r.active = q.active /\ r.why = q.why /\ r.intruded = q.intruded
    /\ r.inKex = q.inKex /\ r.clear = q.clear /\ r.reset = q.reset
    /\ r.cookies = q.cookies /\ r.localInit = q.localInit /\ r.remoteInit = q.remoteInit
    /\ r.engine = q.engine /\ r.secret = h /\ r.session = n
    /\ r.outKey = q.outKey /\ r.inKey = q.inKey /\ r.pc = "switch"

LEMMA HashedFacts ==
    ASSUME NEW q, Typed(q), NEW h \in Nat \X Nat, NEW n \in Nat \X Nat, NEW r,
           r = [q EXCEPT !.secret = h, !.session = n, !.pc = "switch"]
    PROVE  Typed(r) /\ Hashed(q, r, h, n)
<1>1. Typed(r)
  BY DEF Typed, Fields
<1> QED
  BY <1>1 DEF Typed, Fields, Hashed

LEMMA SecretFacts ==
    ASSUME TypeInv, NEW e \in Ends, NEW g, NEW j, Talking(g, e, t[e], j), t[e].active,
           NEW r, r = [WithSecret(e, Taken(e)) EXCEPT !.pc = "switch"]
    PROVE  /\ Typed(r) /\ Switching(g, r) /\ r.active /\ r.cookies = t[e].cookies
           /\ r.intruded = t[e].intruded /\ r.why = t[e].why /\ r.reset # {"out"}
           /\ r.pc = "switch" /\ Hash(e, t[e]) = K(t[e].cookies)
<1> DEFINE q == Taken(e)
           k == t[e].cookies
           h == Hash(e, q)
           n == IF q.session = NoKey THEN h ELSE q.session
<1>1. Typed(q) /\ Alike(t[e], q) /\ q.pc = "top"
  BY TakenFacts
<1>2. r = [q EXCEPT !.secret = h, !.session = n, !.pc = "switch"]
  BY <1>1 DEF WithSecret, Typed, Fields
<1> HIDE DEF q
<1>3. q.localInit = k /\ q.remoteInit = k /\ k \in Nat /\ k > 0
      /\ t[e].localInit = k /\ t[e].remoteInit = k
  BY <1>1 DEF Talking, Joined, Opened, Alike, TypeInv, Typed
<1>4. h = K(k) /\ Hash(e, t[e]) = K(k)
  BY <1>3 DEF Hash, K
<1>5. n = K(1)
  <2>1. q.session = IF k = 1 THEN NoKey ELSE K(1)
    BY <1>1 DEF Talking, Alike
  <2>2. K(1) # NoKey
    BY DEF K, NoKey
  <2> QED
    BY <1>4, <2>1, <2>2
<1> HIDE DEF h, n, k
<1>6. K(k) \in Nat \X Nat /\ K(1) \in Nat \X Nat
  BY <1>3 DEF K
<1>7. Typed(r) /\ Hashed(q, r, h, n)
  <2>1. h \in Nat \X Nat /\ n \in Nat \X Nat
    BY <1>4, <1>5, <1>6
  <2> QED
    BY <1>1, <1>2, <2>1, HashedFacts
<1>8. /\ r.active = q.active /\ r.why = q.why /\ r.intruded = q.intruded
      /\ r.inKex = q.inKex /\ r.clear = q.clear /\ r.reset = q.reset
      /\ r.cookies = q.cookies /\ r.localInit = q.localInit /\ r.remoteInit = q.remoteInit
      /\ r.engine = q.engine /\ r.secret = K(k) /\ r.session = K(1)
      /\ r.outKey = q.outKey /\ r.inKey = q.inKey /\ r.pc = "switch"
  BY <1>4, <1>5, <1>7 DEF Hashed
<1>9. r.cookies = k /\ r.active /\ r.reset = {} /\ r.why = t[e].why
      /\ r.intruded = t[e].intruded /\ {"out"} # {}
  BY <1>1, <1>8 DEF Alike, Talking, k
<1>10. Switching(g, r)
  <2>1. Joined(g, r)
    <3>1. Joined(g, t[e])
      BY DEF Talking
    <3> QED
      BY <1>1, <1>8, <3>1 DEF Alike, Joined, Opened
  <2>2. r.outKey = K(r.cookies - 1) /\ r.inKex
    <3>1. t[e].outKey = K(t[e].cookies - 1) /\ t[e].inKex
      BY DEF Talking
    <3>2. r.outKey = t[e].outKey /\ r.cookies = t[e].cookies /\ r.inKex = t[e].inKex
      BY <1>1, <1>8 DEF Alike
    <3> QED
      BY <3>1, <3>2
  <2>3. r.pc = "switch" /\ r.secret = K(r.cookies) /\ r.session = K(1)
    BY <1>8, <1>9
  <2> QED
    BY <1>9, <2>1, <2>2, <2>3 DEF Switching
<1> QED
  BY <1>4, <1>7, <1>8, <1>9, <1>10 DEF k

LEMMA NewkeysSent ==
    ASSUME NEW g \in Engines, NEW e \in Ends, NEW j \in 1 .. Final(g) - 1, NEW i,
           Talking(g, e, t[e], j), j + 1 = Final(g), Typed(t[e])
    PROVE  /\ Plain(t[e], "NEWKEYS") \in Packets
           /\ Hop(g, e, i, Plain(t[e], "NEWKEYS"), 4 * t[e].cookies - 4 + Final(g),
                  4 * t[e].cookies)
<1> DEFINE m == Plain(t[e], "NEWKEYS")
           b == t[e].cookies - 1
<1>1. "NEWKEYS" \in PacketTypes
  BY DEF PacketTypes
<1>2. m \in Packets /\ m.type = "NEWKEYS" /\ m.key = t[e].outKey
  BY <1>1, PlainFacts
<1>3. b \in Nat /\ t[e].outKey = K(b) /\ 4 * t[e].cookies - 4 + Final(g) = 4 * b + Final(g)
      /\ 4 * t[e].cookies = 4 * b + 4
  BY FinalFacts DEF Typed, Talking, Joined, Opened
<1>4. g # "none"
  BY EnginesFacts
<1> HIDE DEF m, b
<1>5. NewkeysHop(g, m, b, 4 * b + Final(g), 4 * b + 4)
  BY <1>2, <1>4 DEF NewkeysHop
<1>6. Hop(g, e, i, m, 4 * b + Final(g), 4 * b + 4)
  BY <1>2, <1>3, <1>5 DEF Hop
<1> QED
  BY <1>2, <1>3, <1>6 DEF m

\* The dialogue is over for e, which answers with packets.
LEMMA SwitchKeeps ==
    ASSUME RekeyInv, NEW sent \in [Ends -> Nat], NEW read \in [Ends -> Nat], Stages(sent,
           read),
           NEW e \in Ends, Agreed \in Engines, NEW j \in 1 .. Final(Agreed) - 1,
           j + 1 = Final(Agreed), Hears(e, j, sent[e], sent[Peer(e)]),
           NEW r, r = [WithSecret(e, Taken(e)) EXCEPT !.pc = "switch"],
           NEW types, NEW packets, Reads(e, types, r, packets), packets \in Seq(Packets),
           Series(Agreed, e, t[e].intruded, packets, sent[e], 4 * t[e].cookies)
    PROVE  RekeyInv'
<1> DEFINE g == Agreed
           k == t[e].cookies
<1>1. /\ Talking(g, e, t[e], j) /\ t[e].active
      /\ Flow(g, Peer(e), t[Peer(e)].intruded, 4 * k - 4 + (j + 1), sent[Peer(e)], Tail(wire[e]))
  BY DEF Hears
<1>2. TypeInv /\ Typed(t[e]) /\ k \in Nat /\ k > 0
  <2>1. TypeInv /\ Typed(t[e])
    BY DEF RekeyInv, TypeInv
  <2>2. k > 0
    BY <1>1 DEF Talking, Joined, Opened
  <2> QED
    BY <2>1, <2>2 DEF Typed
<1>3. /\ Typed(r) /\ Switching(g, r) /\ r.active /\ r.cookies = k
      /\ r.intruded = t[e].intruded /\ r.why = t[e].why /\ r.reset # {"out"} /\ r.pc = "switch"
  BY <1>1, <1>2, SecretFacts
<1> DEFINE a == 4 * k - 4 + Final(g)
<1>4. a \in Nat /\ 4 * k \in Nat /\ 4 * k - 4 + (j + 1) = a
  <2> DEFINE y == Final(g)
  <2>1. (y = 2 \/ y = 3) /\ j + 1 = y
    BY FinalFacts
  <2> HIDE DEF y, k
  <2>2. 4 * k \in Nat /\ 4 * k - 4 + y \in Nat
    BY <1>2, <2>1, LevelFacts
  <2> QED
    BY <2>1, <2>2 DEF y
<1>5. Stage(g, e, r, 4 * k, a)
  BY <1>3 DEF Stage
<1>6. Flow(g, Peer(e), t[Peer(e)].intruded, a, sent[Peer(e)], Tail(wire[e]))
  BY <1>1, <1>4
<1> HIDE DEF a
<1>7. Fine(Peer(e), r) /\ (t[e].intruded => r.intruded)
  BY <1>3, FineKept DEF Fine
<1>8. Series(g, e, r.intruded, packets, sent[e], 4 * k)
  BY <1>3
<1> QED
  BY <1>3, <1>4, <1>5, <1>6, <1>7, <1>8, ReadKeeps

LEMMA RepliesKeeps == ASSUME RekeyInv, NEW e \in Ends, ParseNext(e), KexReplies(e) PROVE RekeyInv'
<1>1. PICK sent \in [Ends -> Nat], read \in [Ends -> Nat] : Stages(sent, read)
  BY DEF RekeyInv, Levels
<1> DEFINE g == Agreed
           n == Position(e)
           d == Dialogue[t[e].engine]
           x == d[n + 1]
           h == Hash(e, t[e])
           r == [WithSecret(e, Taken(e)) EXCEPT !.pc = "switch"]
           m == Packet(t[e], x, h)
           o == Plain(t[e], "NEWKEYS")
           l == Len(d)
           k == t[e].cookies
<1>2. n + 1 = l /\ Reads(e, KexTypes(e), r, <<m, o>>)
  BY DEF KexReplies
<1>3. t[e].pc = "read" /\ wire[e] # <<>> /\ Refusal(e) = "none" /\ Next1(e).type \in KexTypes(e)
  BY <1>2 DEF Reads
<1>4. g \in Engines /\ t[e].engine = g
      /\ \E j \in 1 .. Final(g) - 1 : Hears(e, j, sent[e], sent[Peer(e)])
  BY <1>1, <1>3, ParseHears
<1>5. PICK j \in 1 .. Final(g) - 1 : Hears(e, j, sent[e], sent[Peer(e)])
  BY <1>4
<1>6. /\ Talking(g, e, t[e], j) /\ t[e].active /\ Next1(e).type = Mine(g, Peer(e), j)
      /\ sent[e] = 4 * k - 4 + j + IF e = "client" THEN 1 ELSE 0
  BY <1>5 DEF Hears
<1>7. n = Position(e) /\ l = Len(Dialogue[g]) /\ x = Dialogue[g][n + 1]
      /\ r = [WithSecret(e, Taken(e)) EXCEPT !.pc = "switch"]
      /\ m = [type |-> x, key |-> t[e].outKey, body |-> h] /\ o = Plain(t[e], "NEWKEYS")
      /\ h = Hash(e, t[e])
  BY <1>4 DEF Packet
<1> HIDE DEF n, d, x, r, m, l, h, o
<1>8. /\ n = (IF e = "server" THEN 2 * j - 1 ELSE 2 * j) /\ l = 2 * (Final(g) - 1)
      /\ e = "server" => x = Mine(g, e, j)
  BY <1>4, <1>6, <1>7, PositionFacts
<1>9. e \in {"client", "server"} /\ Final(g) \in {2, 3} /\ j \in Nat
  BY FinalFacts DEF Ends
<1>10. e = "server" /\ j + 1 = Final(g) /\ x = Mine(g, e, j)
  BY <1>2, <1>8, <1>9
<1>11. TypeInv /\ Typed(t[e])
  BY DEF RekeyInv, TypeInv
<1>12. h = K(k)
  BY <1>6, <1>7, <1>11, SecretFacts
<1> DEFINE b == k - 1
<1>13. /\ k \in Nat /\ b \in Nat /\ t[e].outKey = K(b) /\ 4 * k - 4 = 4 * b /\ b + 1 = k
  <2>1. k \in Nat /\ t[e].outKey = K(b)
    BY <1>6, <1>11 DEF Talking, Typed
  <2>2. k > 0
    BY <1>6 DEF Talking, Joined, Opened
  <2> QED
    BY <2>1, <2>2
<1>14. m \in Packets /\ m.type = x /\ m.key = K(b) /\ m.body = K(b + 1)
  <2>1. x \in PacketTypes
    BY <1>4, <1>10, MineFacts
  <2>2. h \in Nat \X Nat /\ t[e].outKey \in Nat \X Nat
    BY <1>11, <1>12, <1>13 DEF K, Typed
  <2> QED
    BY <1>7, <1>12, <1>13, <2>1, <2>2 DEF Packets
<1>15. sent[e] = 4 * b + j
  BY <1>6, <1>9, <1>10, <1>13
<1> HIDE DEF b, g, k
<1> DEFINE i == t[e].intruded
<1>16. Hop(g, e, i, m, 4 * b + j, 4 * b + j + 1)
  <2>1. g # "none"
    BY <1>4, EnginesFacts
  <2>2. DialogueHop(g, e, m, b, 4 * b + j, 4 * b + j + 1)
    BY <1>10, <1>14, <2>1 DEF DialogueHop
  <2> QED
    BY <1>13, <1>14, <2>2 DEF Hop
<1>17. o \in Packets /\ Hop(g, e, i, o, 4 * k - 4 + Final(g), 4 * k)
  <2>1. /\ Plain(t[e], "NEWKEYS") \in Packets
        /\ Hop(g, e, i, Plain(t[e], "NEWKEYS"), 4 * t[e].cookies - 4 + Final(g),
               4 * t[e].cookies)
    BY <1>4, <1>6, <1>10, <1>11, NewkeysSent
  <2> QED
    BY <1>7, <2>1 DEF k
<1>18. 4 * k - 4 + Final(g) = 4 * b + j + 1 /\ 4 * b + j + 1 \in Nat
  BY <1>9, <1>10, <1>13
<1>19. Hop(g, e, i, o, 4 * b + j + 1, 4 * k)
  BY <1>17, <1>18
<1> HIDE DEF i
<1>20. <<m, o>> \in Seq(Packets) /\ Series(g, e, i, <<m, o>>, sent[e], 4 * k)
  BY <1>14, <1>15, <1>16, <1>17, <1>18, <1>19 DEF Series
<1> QED
  BY <1>1, <1>2, <1>4, <1>5, <1>7, <1>10, <1>20, SwitchKeeps DEF g, k, i

LEMMA EndsKeeps == ASSUME RekeyInv, NEW e \in Ends, ParseNext(e), KexEnds(e) PROVE RekeyInv'
<1>1. PICK sent \in [Ends -> Nat], read \in [Ends -> Nat] : Stages(sent, read)
  BY DEF RekeyInv, Levels
<1> DEFINE g == Agreed
           n == Position(e)
           d == Dialogue[t[e].engine]
           r == [WithSecret(e, Taken(e)) EXCEPT !.pc = "switch"]
           o == Plain(t[e], "NEWKEYS")
           l == Len(d)
           k == t[e].cookies
<1>2. /\ n = l
      /\ Next1(e).body = Hash(e, t[e]) => Reads(e, KexTypes(e), r, <<o>>)
  BY DEF KexEnds
<1>3. t[e].pc = "read" /\ wire[e] # <<>> /\ Refusal(e) = "none" /\ Next1(e).type \in KexTypes(e)
  BY DEF KexEnds, Reads
<1>4. g \in Engines /\ t[e].engine = g
      /\ \E j \in 1 .. Final(g) - 1 : Hears(e, j, sent[e], sent[Peer(e)])
  BY <1>1, <1>3, ParseHears
<1>5. PICK j \in 1 .. Final(g) - 1 : Hears(e, j, sent[e], sent[Peer(e)])
  BY <1>4
<1>6. /\ Talking(g, e, t[e], j) /\ t[e].active /\ Next1(e).type = Mine(g, Peer(e), j)
      /\ sent[e] = 4 * k - 4 + j + IF e = "client" THEN 1 ELSE 0
      /\ Peer(e) = "server" /\ j + 1 = Final(g) => Next1(e).body = K(k)
  BY <1>5 DEF Hears
<1>7. n = Position(e) /\ l = Len(Dialogue[g])
      /\ r = [WithSecret(e, Taken(e)) EXCEPT !.pc = "switch"]
      /\ o = Plain(t[e], "NEWKEYS")
  BY <1>4
<1> HIDE DEF n, d, r, l, o
<1>8. n = (IF e = "server" THEN 2 * j - 1 ELSE 2 * j) /\ l = 2 * (Final(g) - 1)
  BY <1>4, <1>6, <1>7, PositionFacts
<1>9. e \in {"client", "server"} /\ Final(g) \in {2, 3} /\ j \in Nat
  BY FinalFacts DEF Ends
<1>10. e = "client" /\ Peer(e) = "server" /\ j + 1 = Final(g)
  <2>1. j = 1 \/ j = 2
    BY <1>9
  <2> DEFINE y == Final(g)
  <2>5. n = l /\ (y = 2 \/ y = 3)
    BY <1>2, <1>9
  <2>6. n = (IF e = "server" THEN 2 * j - 1 ELSE 2 * j) /\ l = 2 * (y - 1)
    BY <1>8
  <2> HIDE DEF y
  <2>7. e # "server"
    <3> SUFFICES ASSUME e = "server" PROVE FALSE
      OBVIOUS
    <3>1. 2 * j - 1 = 2 * (y - 1)
      BY <2>5, <2>6
    <3> QED
      BY <2>1, <2>5, <3>1
  <2>2. e = "client"
    BY <1>9, <2>7
  <2>3. 2 * j = 2 * (y - 1)
    BY <2>2, <2>5, <2>6
  <2>4. j + 1 = Final(g)
    BY <2>1, <2>3, <2>5 DEF y
  <2> QED
    BY <2>2, <2>4 DEF Peer
<1>11. TypeInv /\ Typed(t[e])
  BY DEF RekeyInv, TypeInv
<1>12. Hash(e, t[e]) = K(k)
  BY <1>6, <1>7, <1>11, SecretFacts
<1>13. Reads(e, KexTypes(e), r, <<o>>)
  BY <1>2, <1>6, <1>10, <1>12
<1> DEFINE i == t[e].intruded
<1>14. o \in Packets /\ Hop(g, e, i, o, 4 * k - 4 + Final(g), 4 * k)
  <2>1. /\ Plain(t[e], "NEWKEYS") \in Packets
        /\ Hop(g, e, i, Plain(t[e], "NEWKEYS"), 4 * t[e].cookies - 4 + Final(g),
               4 * t[e].cookies)
    BY <1>4, <1>6, <1>10, <1>11, NewkeysSent
  <2> QED
    BY <1>7, <2>1
<1>15. sent[e] = 4 * k - 4 + Final(g)
  <2>1. k \in Nat
    BY <1>11 DEF Typed
  <2> QED
    BY <1>6, <1>9, <1>10, <2>1
<1> HIDE DEF g, k, i
<1>16. <<o>> \in Seq(Packets) /\ Series(g, e, i, <<o>>, sent[e], 4 * k)
  BY <1>14, <1>15 DEF Series
<1> QED
  BY <1>1, <1>4, <1>5, <1>7, <1>10, <1>13, <1>16, SwitchKeeps DEF g, k, i

(****************************************************************************)
(* NEWKEYS is read: the exchange is over.                                   *)
(****************************************************************************)
LEMMA NewkeysFound ==
    ASSUME RekeyInv, NEW sent \in [Ends -> Nat], NEW read \in [Ends -> Nat], Stages(sent,
           read),
           NEW e \in Ends, t[e].pc = "read", wire[e] # <<>>, Refusal(e) = "none",
           Next1(e).type = "NEWKEYS"
    PROVE  /\ Renewed(Agreed, t[e]) /\ t[e].active /\ sent[e] = 4 * t[e].cookies
           /\ Flow(Agreed, Peer(e), t[Peer(e)].intruded, 4 * t[e].cookies, sent[Peer(e)],
                   Tail(wire[e]))
<1> DEFINE m == Next1(e)
           i == t[Peer(e)].intruded
           q == t[e]
           f == Tail(wire[e])
           g == Agreed
<1>0. q.active
  BY ReaderFinds
<1>1. PICK c \in Nat : Finds(g, e, q, m, sent[e], read[e], c, i)
                       /\ Flow(g, Peer(e), i, c, sent[Peer(e)], f)
  BY ReaderFinds
<1>2. q.expected = {} \/ m.type \in q.expected
  BY AcceptedFacts
<1>3. m.type \notin UserTypes /\ m.type # "KEXINIT" /\ m.type = "NEWKEYS"
  BY DEF UserTypes
<1>4. g \in Engines \cup {"none"} /\ Peer(e) \in Ends
  BY AgreedFacts, EndsFacts DEF RekeyInv
<1> HIDE DEF m, i, q, f, g
<1>5. ~FindsTalking(g, e, q, m, sent[e], read[e], c, i)
  <2> SUFFICES ASSUME FindsTalking(g, e, q, m, sent[e], read[e], c, i) PROVE FALSE
    OBVIOUS
  <2>1. PICK j \in 1 .. Final(g) - 1 : Talking(g, e, q, j)
    BY DEF FindsTalking
  <2>2. g \in Engines /\ q.expected = {Mine(g, Peer(e), j)}
    BY <1>4, <2>1 DEF Talking, Joined
  <2>3. Mine(g, Peer(e), j) # "NEWKEYS"
    BY <1>4, <2>2, MineFacts
  <2> QED
    BY <1>2, <1>3, <2>2, <2>3
<1>6. FindsRenewed(g, q, m, sent[e], read[e], c, i)
  BY <1>1, <1>3, <1>5 DEF Finds, FindsIdle, FindsAsked
<1>7. Renewed(g, q) /\ sent[e] = 4 * q.cookies /\ c = 4 * q.cookies
  BY <1>3, <1>6 DEF FindsRenewed
<1> QED
  BY <1>0, <1>1, <1>7 DEF i, q, f, g

LEMMA NewkeysKeeps == ASSUME RekeyInv, NEW e \in Ends, ParseNewkeys(e) PROVE RekeyInv'
<1>1. PICK sent \in [Ends -> Nat], read \in [Ends -> Nat] : Stages(sent, read)
  BY DEF RekeyInv, Levels
<1> DEFINE q == Taken(e)
           n == t[e].secret
           k == t[e].cookies
           u == [q EXCEPT !.inKey = n, !.received = 0, !.overflow = 0]
           w == Switched(u, "in")
           r == [w EXCEPT !.localInit = 0, !.remoteInit = 0, !.engine = "none",
                          !.secret = NoKey, !.inKex = @ /\ w.needRekey,
                          !.clear = TRUE, !.done = TRUE]
<1>2. Reads(e, {"NEWKEYS"}, IF n = NoKey THEN Dead(q, "no secret") ELSE r, <<>>)
  BY DEF ParseNewkeys
<1>3. t[e].pc = "read" /\ wire[e] # <<>> /\ Refusal(e) = "none" /\ Next1(e).type = "NEWKEYS"
  BY <1>2 DEF Reads
<1>4. /\ Renewed(Agreed, t[e]) /\ t[e].active /\ sent[e] = 4 * k
      /\ Flow(Agreed, Peer(e), t[Peer(e)].intruded, 4 * k, sent[Peer(e)], Tail(wire[e]))
  BY <1>1, <1>3, NewkeysFound
<1>5. TypeInv /\ Typed(t[e])
  BY DEF RekeyInv, TypeInv
<1>6. k \in Nat /\ k > 0 /\ n = K(k) /\ n # NoKey /\ n \in Nat \X Nat
  <2>1. k > 0 /\ n = K(k)
    BY <1>4 DEF Renewed, Joined, Opened
  <2> QED
    BY <1>5, <2>1 DEF Typed, K, NoKey
<1>7. Reads(e, {"NEWKEYS"}, r, <<>>)
  BY <1>2, <1>6
<1>8. Typed(q) /\ Alike(t[e], q) /\ q.pc = "top" /\ q.expected = {}
  BY <1>5, TakenFacts
<1> HIDE DEF q, n, k
<1>9. Typed(u)
  BY <1>6, <1>8, LimitAssumption DEF Typed, Fields
<1>10. /\ u.active = q.active /\ u.why = q.why /\ u.intruded = q.intruded /\ u.pc = q.pc
       /\ u.reset = q.reset /\ u.cookies = q.cookies /\ u.session = q.session
       /\ u.outKey = q.outKey /\ u.inKey = n /\ u.expected = q.expected
  BY <1>8 DEF Typed, Fields
<1> HIDE DEF u
<1>11. w = [u EXCEPT !.reset = {}, !.needRekey = FALSE]
  <2>1. u.reset = {"out"}
    BY <1>4, <1>8, <1>10 DEF Renewed, Alike
  <2>2. u.reset \cup {"in"} = {"in", "out"}
    BY <2>1
  <2> QED
    BY <2>2 DEF Switched
<1> HIDE DEF w
<1>12. Typed(w)
  BY <1>9, <1>11 DEF Typed, Fields
<1>13. /\ w.active = q.active /\ w.why = q.why /\ w.intruded = q.intruded /\ w.pc = q.pc
       /\ w.reset = {} /\ w.cookies = q.cookies /\ w.session = q.session /\ ~w.needRekey
       /\ w.outKey = q.outKey /\ w.inKey = n /\ w.expected = q.expected
  BY <1>9, <1>10, <1>11 DEF Typed, Fields
<1>14. r = [w EXCEPT !.localInit = 0, !.remoteInit = 0, !.engine = "none",
                     !.secret = NoKey, !.inKex = FALSE, !.clear = TRUE, !.done = TRUE]
  BY <1>12, <1>13 DEF Typed, Fields
<1> HIDE DEF r
<1>15. Typed(r)
  BY <1>12, <1>14 DEF Typed, Fields, NoKey
<1>16. /\ r.active = w.active /\ r.why = w.why /\ r.intruded = w.intruded /\ r.pc = w.pc
       /\ r.reset = w.reset /\ r.cookies = w.cookies /\ r.session = w.session
       /\ r.outKey = w.outKey /\ r.inKey = w.inKey /\ r.expected = w.expected
       /\ r.localInit = 0 /\ r.remoteInit = 0 /\ r.engine = "none" /\ r.secret = NoKey
       /\ ~r.inKex
  BY <1>12, <1>14 DEF Typed, Fields
<1>17. /\ r.active = t[e].active /\ r.why = t[e].why /\ r.intruded = t[e].intruded
       /\ r.pc = "top" /\ r.reset = {} /\ r.cookies = k /\ r.session = t[e].session
       /\ r.outKey = t[e].outKey /\ r.inKey = n /\ r.expected = {}
  BY <1>8, <1>13, <1>16 DEF Alike, k
<1>18. t[e].session = K(1) /\ t[e].outKey = K(k)
  BY <1>4 DEF Renewed, k
<1>19. Idle(r)
  BY <1>6, <1>16, <1>17, <1>18 DEF Idle
<1>20. Stage(Agreed, e, r, 4 * k, 4 * k) /\ r.reset # {"out"}
  <2>1. {"out"} # {} /\ r.pc # "end" /\ r.active
    BY <1>4, <1>17
  <2> QED
    BY <1>17, <1>19, <2>1 DEF Stage
<1>21. Fine(Peer(e), r) /\ (t[e].intruded => r.intruded)
  BY <1>17, FineKept DEF Fine
<1>22. /\ <<>> \in Seq(Packets) /\ 4 * k \in Nat
       /\ Series(Agreed, e, r.intruded, <<>>, sent[e], 4 * k)
  <2>1. sent[e] = 4 * k
    BY <1>4
  <2> QED
    BY <1>6, <2>1 DEF Series
<1> QED
  BY <1>1, <1>4, <1>7, <1>15, <1>20, <1>21, <1>22, ReadKeeps

(****************************************************************************)
(* All steps, and what follows.                                             *)
(****************************************************************************)
LEMMA NextKeeps == ASSUME RekeyInv, [Next]_vars PROVE RekeyInv'
<1>1. CASE UNCHANGED vars
  <2>1. UNCHANGED <<preferred, t, wire, toSend>>
    BY <1>1 DEF vars
  <2>2. Agreed' = Agreed
    BY <2>1, AgreedKept
  <2>3. TypeInv' /\ RekeySurvives'
    BY <2>1 DEF RekeyInv, TypeInv, RekeySurvives
  <2>4. Levels'
    BY <2>1, <2>2 DEF RekeyInv, Levels, Stages
  <2> QED
    BY <2>3, <2>4 DEF RekeyInv
<1>2. CASE Next
  <2>1. PICK e \in Ends : Run(e) \/ BannerFails(e) \/ Users(e)
    BY <1>2 DEF Next
  <2>2. CASE Start(e)
    BY <2>2, StartKeeps
  <2>3. CASE Top(e)
    BY <2>3, TopKeeps
  <2>4. CASE NeedRekey(e)
    BY <2>4, NeedRekeyKeeps
  <2>5. CASE Refuse(e)
    BY <2>5, RefuseKeeps
  <2>6. CASE NegotiateKeys(e)
    BY <2>6, NegotiateKeeps
  <2>7. CASE ParseNext(e)
    <3>1. KexContinues(e) \/ KexReplies(e) \/ KexEnds(e)
      BY <2>7 DEF ParseNext
    <3> QED
      BY <2>7, <3>1, ContinuesKeeps, RepliesKeeps, EndsKeeps
  <2>8. CASE ParseNewkeys(e)
    BY <2>8, NewkeysKeeps
  <2>9. CASE ReadQuiet(e) \/ ReadCall(e)
    BY <2>9, ReadQuietKeeps
  <2>10. CASE ReadAsk(e)
    BY <2>10, ReadAskKeeps
  <2>11. CASE BannerFails(e) \/ PeerGone(e) \/ ReplyTimeout(e)
    BY <2>11, GoneKeeps
  <2>12. CASE ActivateOutbound(e)
    BY <2>12, ActivateKeeps
  <2>13. CASE UserSends(e) \/ Reply(e)
    BY <2>13, SendsKeeps
  <2>14. CASE UserGivesUp(e)
    BY <2>14, GivesUpKeeps
  <2> QED
    BY <2>1, <2>2, <2>3, <2>4, <2>5, <2>6, <2>7, <2>8, <2>9, <2>10, <2>11, <2>12, <2>13,
       <2>14 DEF Run, Handle, Users
<1> QED
  BY <1>1, <1>2

LEMMA RekeyInvariant == Spec => []RekeyInv
<1>1. Init => RekeyInv
  BY InitKeeps
<1>2. RekeyInv /\ [Next]_vars => RekeyInv'
  BY NextKeeps
<1> QED
  BY <1>1, <1>2, PTL DEF Spec

LEMMA InvSameKeys == ASSUME RekeyInv PROVE SameKeys
<1> SUFFICES ASSUME \A e \in Ends : t[e].active /\ t[e].clear /\ wire[e] = <<>>, NEW e \in Ends
             PROVE  t[e].inKey = t[Peer(e)].outKey
  BY DEF SameKeys
<1>1. PICK sent \in [Ends -> Nat], read \in [Ends -> Nat] : Stages(sent, read)
  BY DEF RekeyInv, Levels
<1> DEFINE p == Peer(e)
           q == t[e]
           r == t[p]
<1>2. p \in Ends
  BY EndsFacts
<1>3. Idle(q) /\ Idle(r)
  BY <1>2, ClearIsIdle
<1>4. /\ Stage(Agreed, e, q, sent[e], read[e]) /\ Stage(Agreed, p, r, sent[p], read[p])
      /\ Flow(Agreed, p, r.intruded, read[e], sent[p], <<>>)
      /\ Typed(q) /\ Typed(r)
  BY <1>1, <1>2 DEF Stages, RekeyInv, TypeInv
<1> HIDE DEF p, q, r
<1>5. read[e] = 4 * q.cookies /\ sent[p] = 4 * r.cookies
  BY <1>3, <1>4, IdleLevels
<1>6. read[e] = sent[p]
  BY <1>4, FlowEmpty
<1>7. q.cookies \in Nat /\ r.cookies \in Nat
  BY <1>4 DEF Typed
<1>8. q.cookies = r.cookies
  BY <1>5, <1>6, <1>7
<1>9. q.inKey = r.outKey
  BY <1>3, <1>8 DEF Idle
<1> QED
  BY <1>9 DEF p, q, r

LEMMA InvOneSession == ASSUME RekeyInv PROVE OneSession
<1>1. PICK sent \in [Ends -> Nat], read \in [Ends -> Nat] : Stages(sent, read)
  BY DEF RekeyInv, Levels
<1>2. ASSUME NEW e \in Ends PROVE t[e].session \in {NoKey, K(1)}
  <2>1. Stage(Agreed, e, t[e], sent[e], read[e])
    BY <1>1 DEF Stages
  <2> QED
    BY <2>1 DEF Stage, Idle, Asked, Asking, Talking, Switching, Renewed
<1> QED
  BY <1>2 DEF OneSession, Ends

LEMMA InvTypeOK == ASSUME RekeyInv PROVE TypeOK
BY DEF RekeyInv, TypeInv, Typed, TypeOK

(* Both ends come out of every exchange with the same keys and the session  *)
(* id of the first, and a change of keys does not end the connection of an  *)
(* end whose peer keeps to the exchange.                                    *)
THEOREM KeysStayEqual == Spec => []KeysAgree
<1>1. RekeyInv => KeysAgree
  BY InvTypeOK, InvOneSession, InvSameKeys DEF KeysAgree, RekeyInv
<1> QED
  BY <1>1, RekeyInvariant, PTL

(* Between its KEXINIT and its new keys an end sends nothing of its users.  *)
THEOREM UsersKeptOut == Spec => UsersStayOut
<1> DEFINE Stays == \A e \in Ends : Mid(t[e]) /\ toSend'[e] < toSend[e] =>
                        wire'[Peer(e)] = wire[Peer(e)]
<1>1. ASSUME RekeyInv, [Next]_vars PROVE [Stays]_vars
  <2> SUFFICES ASSUME Next, NEW e \in Ends, Mid(t[e]), toSend'[e] < toSend[e]
               PROVE  wire'[Peer(e)] = wire[Peer(e)]
    BY <1>1
  <2>1. PICK d \in Ends : Run(d) \/ BannerFails(d) \/ Users(d)
    BY DEF Next
  <2>2. toSend[e] \in Nat /\ toSend \in [Ends -> Nat]
    BY <1>1 DEF RekeyInv, TypeInv
  <2>3. toSend' # toSend
    BY <2>2
  <2>4. UserSends(d) \/ UserGivesUp(d)
    <3>1. NegotiateKeys(d) => toSend' = toSend
      BY DEF NegotiateKeys, Reads
    <3>2. ParseNext(d) => toSend' = toSend
      BY DEF ParseNext, KexContinues, KexReplies, KexEnds, Reads
    <3>3. ParseNewkeys(d) \/ ReadQuiet(d) \/ ReadAsk(d) \/ ReadCall(d) => toSend' = toSend
      BY DEF ParseNewkeys, ReadQuiet, ReadAsk, ReadCall, Reads
    <3>4. Start(d) \/ Top(d) \/ NeedRekey(d) \/ Refuse(d) => toSend' = toSend
      BY DEF Start, Top, NeedRekey, Refuse
    <3>5. \/ PeerGone(d) \/ ActivateOutbound(d) \/ Reply(d) \/ ReplyTimeout(d)
          \/ BannerFails(d)
          => toSend' = toSend
      BY DEF PeerGone, ActivateOutbound, Reply, ReplyTimeout, BannerFails
    <3> QED
      BY <2>1, <2>3, <3>1, <3>2, <3>3, <3>4, <3>5 DEF Run, Handle, Users
  <2>5. toSend' = [toSend EXCEPT ![d] = @ - 1]
    BY <2>4 DEF UserSends, UserGivesUp
  <2>6. d = e
    BY <2>2, <2>5
  <2>7. CASE UserSends(d)
    <3>1. Idle(t[e])
      BY <1>1, <2>6, <2>7, ClearIsIdle DEF UserSends
    <3> QED
      BY <3>1 DEF Idle, Mid
  <2>8. CASE UserGivesUp(d)
    BY <2>8 DEF UserGivesUp
  <2> QED
    BY <2>4, <2>7, <2>8
<1>2. RekeyInv /\ [Next]_vars => [Stays]_vars
  BY <1>1
<1> QED
  BY <1>2, RekeyInvariant, PTL DEF Spec, UsersStayOut
=============================================================================
