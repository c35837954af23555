--------------------------- MODULE TransportProofs ---------------------------

(****************************************************************************)
(* What the transport promises of its two conversations.                    *)
(*                                                                          *)
(* Authentication: that it is the server that decides about a user, and     *)
(* that a call ends with the answer to its own request, for any number of   *)
(* calls, timeouts, questions and failures, and any methods and names.      *)
(*                                                                          *)
(* Key exchange: that the two ends agree on everything they compute, for    *)
(* any lists, primes, requests and exponents.                               *)
(****************************************************************************)
EXTENDS Userauth, Kex, SequenceTheorems, WellFoundedInduction, TLAPS

(****************************************************************************)
(* User authentication.                                                     *)
(****************************************************************************)
Names == Users \cup {Nobody}

UserType ==
    [pc : {"idle", "wait"}, call : 0 .. MaxCalls, first : Nat, name : Names, fallback : BOOLEAN]
HandlerType ==
    [num : Nat, method : AllMethods, name : Names, authenticated : BOOLEAN, event : BOOLEAN]
ServerType ==
    [serving : BOOLEAN, authenticated : BOOLEAN, name : Names, fails : 0 .. MaxFails,
     queries : 0 .. MaxQueries, asked : Nat, allowed : SUBSET AllMethods]

RequestPackets == [type : {"REQUEST"}, num : Nat, method : AllMethods, name : Users]

\* What can be under way to a server: answers only after it has learned a name.
ToServer(s) ==
    [type : {"SERVICE_REQUEST"}] \cup RequestPackets
        \cup IF s.name = Nobody THEN {} ELSE [type : {"INFO_RESPONSE"}]

\* What can be under way to its client: SUCCESS only after it has let somebody in.
ToClient(s) ==
    [type : {"ACCEPT", "DISCONNECT"}] \cup [type : {"FAILURE"}, partial : BOOLEAN]
        \cup (IF s.name = Nobody THEN {} ELSE [type : {"INFO_REQUEST"}])
        \cup IF s.authenticated THEN [type : {"SUCCESS"}] ELSE {}

ClientType ==
    /\ user \in UserType /\ handler \in HandlerType
    /\ active \in BOOLEAN /\ saved \in {"none", "partial", "badtype", "error"}

ServerState(s) ==
    /\ s \in ServerType
    /\ s.fails = MaxFails => ~s.serving

Wires(s) == c2s \in Seq(ToServer(s)) /\ s2c \in Seq(ToClient(s))

\* One name from the first answer on.
OneName == \A a \in answers : a.name = server.name /\ server.name # Nobody

AuthInv ==
    /\ ClientType /\ ServerState(server) /\ Wires(server) /\ OneName
    /\ handler.authenticated => server.authenticated

-----------------------------------------------------------------------------
LEMMA SeqGrows ==
    ASSUME NEW S, NEW T, S \subseteq T, NEW s \in Seq(S)
    PROVE  s \in Seq(T)
<1>1. Len(s) \in Nat /\ s \in [1 .. Len(s) -> S]
  OBVIOUS
<1>2. s \in [1 .. Len(s) -> T]
  BY <1>1
<1> QED
  BY <1>1, <1>2

LEMMA SeqOne ==
    ASSUME NEW S, NEW x \in S
    PROVE  <<x>> \in Seq(S)
  OBVIOUS

\* A server that knows more lets more packets be under way.
Wiser(s, later) ==
    /\ s.name # Nobody => later.name # Nobody
    /\ s.authenticated => later.authenticated

LEMMA PacketsStay ==
    ASSUME NEW s, NEW later, Wiser(s, later)
    PROVE  /\ ToServer(s) \subseteq ToServer(later) /\ ToClient(s) \subseteq ToClient(later)
           /\ \A q \in Seq(ToServer(s)) : q \in Seq(ToServer(later))
           /\ \A q \in Seq(ToClient(s)) : q \in Seq(ToClient(later))
<1>1. ToServer(s) \subseteq ToServer(later)
  BY DEF Wiser, ToServer
<1>2. ToClient(s) \subseteq ToClient(later)
  BY DEF Wiser, ToClient
<1> QED
  BY <1>1, <1>2, SeqGrows

LEMMA Limits == MaxCalls \in Nat /\ MaxTimeouts \in Nat /\ MaxQueries \in Nat /\ MaxFails \in Nat \ {0}
  BY BoundsAssumption

LEMMA InitHolds == Init => AuthInv
<1> SUFFICES ASSUME Init PROVE AuthInv
  OBVIOUS
<1>1. ClientType
  BY Limits DEF Init, ClientType, UserType, HandlerType, Idle, NoHandler, Names, AllMethods
<1>2. ServerState(server)
  <2>1. PICK allowed \in Allowances :
          server = [serving |-> TRUE, authenticated |-> FALSE, name |-> Nobody, fails |-> 0,
                    queries |-> 0, asked |-> 0, allowed |-> allowed]
    BY DEF Init
  <2> QED
    BY <2>1, Limits, MethodsAssumption DEF ServerState, ServerType, Names
<1>3. Wires(server)
  BY DEF Init, Wires
<1>4. OneName /\ (handler.authenticated => server.authenticated)
  BY DEF Init, OneName, NoHandler
<1> QED
  BY <1>1, <1>2, <1>3, <1>4 DEF AuthInv

-----------------------------------------------------------------------------
\* The user thread: neither end's verdict changes, and what it sends asks for the
\* service.
LEMMA UserStep ==
    ASSUME AuthInv, Call \/ TimesOut \/ SeesEnd \/ SeesEvent \/ FallsBack
    PROVE  AuthInv'
<1>1. UNCHANGED <<active, s2c, server, answers>>
  BY DEF Call, TimesOut, SeesEnd, SeesEvent, FallsBack, wires, history
<1>2. ASSUME NEW method \in AllMethods, NEW name \in Names, NEW u \in UserType,
             Requests(method, name, u)
      PROVE  handler' \in HandlerType /\ ~handler'.authenticated /\ user' \in UserType
               /\ c2s' \in Seq(ToServer(server))
  <2>1. [type |-> "SERVICE_REQUEST"] \in ToServer(server)
    BY DEF ToServer
  <2>2. handler' = FreshHandler(method, name) /\ user' = u
    BY <1>2 DEF Requests
  <2>3. handler' \in HandlerType /\ ~handler'.authenticated
    BY <2>2, <1>2 DEF FreshHandler, HandlerType, AuthInv, ClientType
  <2>4. c2s' \in Seq(ToServer(server))
    BY <1>2, <2>1 DEF Requests, AuthInv, Wires
  <2> QED
    BY <2>2, <2>3, <2>4, <1>2
<1>3. ASSUME NEW verdict, Returns(verdict), UNCHANGED <<handler, c2s>>
      PROVE  handler' \in HandlerType /\ (handler'.authenticated <=> handler.authenticated)
               /\ user' \in UserType /\ c2s' \in Seq(ToServer(server))
  BY <1>3 DEF Returns, UserType, AuthInv, ClientType, Wires
<1>4. /\ handler' \in HandlerType /\ (handler'.authenticated => handler.authenticated)
      /\ user' \in UserType /\ c2s' \in Seq(ToServer(server))
      /\ saved' \in {"none", saved}
  <2>1. CASE Call
    <3>1. PICK method \in Methods, name \in Users :
            Requests(method, name, [pc |-> "wait", call |-> user.call + 1,
                                    first |-> handler.num + 1, name |-> name, fallback |-> FALSE])
      BY <2>1 DEF Call
    <3>2. [pc |-> "wait", call |-> user.call + 1, first |-> handler.num + 1, name |-> name,
           fallback |-> FALSE] \in UserType
      BY <2>1, Limits DEF Call, AuthInv, ClientType, UserType, HandlerType, Names
    <3>3. method \in AllMethods /\ name \in Names
      BY MethodsAssumption DEF Names
    <3> QED
      BY <3>1, <3>2, <3>3, <1>2, <2>1 DEF Call
  <2>2. CASE TimesOut
    BY <2>2, <1>3 DEF TimesOut, Raises, wires
  <2>3. CASE SeesEnd
    BY <2>3, <1>3 DEF SeesEnd, Raises, wires
  <2>4. CASE SeesEvent
    <3>1. \E verdict : Returns(verdict)
      BY <2>4 DEF SeesEvent, Raises
    <3>2. saved' \in {"none", saved} /\ UNCHANGED <<handler, c2s>>
      BY <2>4 DEF SeesEvent, TakesException, wires
    <3> QED
      BY <3>1, <3>2, <1>3
  <2>5. CASE FallsBack
    <3>1. [user EXCEPT !.fallback = TRUE] \in UserType /\ user.name \in Names
      BY DEF AuthInv, ClientType, UserType
    <3> QED
      BY <2>5, <3>1, <1>2 DEF FallsBack, TakesException, AllMethods
  <2> QED
    BY <2>1, <2>2, <2>3, <2>4, <2>5
<1> QED
  BY <1>1, <1>4 DEF AuthInv, ClientType, ServerState, Wires, OneName

\* The client's transport thread, at the packet it takes.
LEMMA Taking ==
    ASSUME AuthInv, s2c # <<>>
    PROVE  Head(s2c) \in ToClient(server) /\ Tail(s2c) \in Seq(ToClient(server))
  BY DEF AuthInv, Wires

LEMMA ClientStep ==
    ASSUME AuthInv, ClientRun
    PROVE  AuthInv'
<1>1. UNCHANGED <<user, server, answers>>
  BY DEF ClientRun, ServiceAccept, Success, Failure, InfoRequest, ReadDisconnect, Eof, history
<1>2. s2c' \in Seq(ToClient(server))
  <2>1. CASE Eof
    BY <2>1 DEF Eof, wires, AuthInv, Wires
  <2>2. CASE ~Eof
    BY <2>2, Taking
       DEF ClientRun, ServiceAccept, Success, Failure, InfoRequest, ReadDisconnect, Arrives, Takes
  <2> QED
    BY <2>1, <2>2
<1>3. ASSUME NEW why \in {"error"}, Ends(why)
      PROVE  handler' \in HandlerType /\ (handler'.authenticated <=> handler.authenticated)
               /\ active' \in BOOLEAN /\ saved' = "error"
  BY <1>3 DEF Ends, AuthInv, ClientType, HandlerType
<1>4. /\ handler' \in HandlerType /\ active' \in BOOLEAN
      /\ saved' \in {"none", "partial", "badtype", "error"}
      /\ handler'.authenticated => server.authenticated
      /\ c2s' \in Seq(ToServer(server))
  <2>1. CASE ServiceAccept
    <3>1. CASE handler.name = Nobody
      BY <2>1, <3>1, <1>3 DEF ServiceAccept, AuthInv, Wires
    <3>2. CASE handler.name # Nobody
      <4>1. [type |-> "REQUEST", num |-> handler.num, method |-> handler.method,
             name |-> handler.name] \in ToServer(server)
        BY <3>2 DEF ToServer, RequestPackets, AuthInv, ClientType, HandlerType, Names
      <4> QED
        BY <2>1, <3>2, <4>1 DEF ServiceAccept, AuthInv, Wires, ClientType
    <3> QED
      BY <3>1, <3>2
  <2>2. CASE Success
    <3>1. server.authenticated
      BY <2>2, Taking DEF Success, Arrives, ToClient
    <3> QED
      BY <2>2, <3>1 DEF Success, AuthInv, ClientType, HandlerType, Wires
  <2>3. CASE Failure
    BY <2>3 DEF Failure, AuthInv, ClientType, HandlerType, Names, Wires
  <2>4. CASE InfoRequest
    <3>1. CASE Ends("error") /\ UNCHANGED c2s
      BY <3>1, <1>3 DEF AuthInv, Wires
    <3>2. CASE c2s' = Append(c2s, [type |-> "INFO_RESPONSE"]) /\ UNCHANGED <<handler, active, saved>>
      <4>1. [type |-> "INFO_RESPONSE"] \in ToServer(server)
        BY <2>4, Taking DEF InfoRequest, Arrives, ToClient, ToServer
      <4> QED
        BY <3>2, <4>1 DEF AuthInv, ClientType, Wires
    <3> QED
      BY <2>4, <3>1, <3>2 DEF InfoRequest
  <2>5. CASE ReadDisconnect
    BY <2>5 DEF ReadDisconnect, AuthInv, ClientType, Wires
  <2>6. CASE Eof
    BY <2>6, <1>3 DEF Eof, wires, AuthInv, Wires
  <2> QED
    BY <2>1, <2>2, <2>3, <2>4, <2>5, <2>6 DEF ClientRun
<1> QED
  BY <1>1, <1>2, <1>4 DEF AuthInv, ClientType, ServerState, Wires, OneName

-----------------------------------------------------------------------------
\* The server answers, asks, or disconnects, and learns no less than it knew.
LEMMA Replying ==
    ASSUME AuthInv, c2s # <<>>, Wiser(server, server'), UNCHANGED client,
           ServerState(server'), OneName',
           NEW packets \in Seq(ToClient(server')), Sends(packets)
    PROVE  AuthInv'
<1>1. c2s' \in Seq(ToServer(server')) /\ s2c \in Seq(ToClient(server'))
  BY PacketsStay DEF Sends, AuthInv, Wires
<1>2. s2c' \in Seq(ToClient(server'))
  BY <1>1 DEF Sends
<1> QED
  BY <1>1, <1>2 DEF AuthInv, ClientType, Wires, Wiser, client

\* A question, as a change of the server's record.
LEMMA QuestionType ==
    ASSUME NEW s \in ServerType, s.queries < MaxQueries, NEW num \in Nat,
           NEW later, later = [s EXCEPT !.queries = @ + 1, !.asked = num]
    PROVE  later \in ServerType
<1>1. s.queries + 1 \in 0 .. MaxQueries
  BY Limits DEF ServerType
<1> QED
  BY <1>1 DEF ServerType

\* What the server object says of the request of a user that is the only one.
LEMMA Judging ==
    ASSUME AuthInv, c2s # <<>>, UNCHANGED client, server.serving,
           NEW s \in ServerType, NEW num \in Nat, NEW result,
           s.name \in Users, server.name \in {Nobody, s.name},
           s.fails = server.fails, s.authenticated = server.authenticated,
           SendAuthResult(s, num, result)
    PROVE  AuthInv'
<1> DEFINE fails == s.fails + IF result = "failed" THEN 1 ELSE 0
           reply == IF result = "success" THEN [type |-> "SUCCESS"]
                    ELSE [type |-> "FAILURE", partial |-> result = "partial"]
           rest == IF TooMany(fails) THEN Disconnect ELSE <<>>
<1>1. s.fails \in 0 .. MaxFails - 1 /\ fails \in 0 .. MaxFails
  BY Limits DEF AuthInv, ServerState, ServerType
<1>2. server' = [s EXCEPT !.fails = fails, !.queries = 0, !.authenticated = Accepts(s, result),
                          !.serving = ~TooMany(fails)]
  BY DEF SendAuthResult
<1>3. ServerState(server')
  <2>1. server' \in ServerType
    <3>1. 0 \in 0 .. MaxQueries
      BY Limits
    <3>2. fails \in 0 .. MaxFails
      BY <1>1
    <3>3. server' = [s EXCEPT !.fails = fails, !.queries = 0,
                              !.authenticated = s.authenticated \/ result = "success",
                              !.serving = ~(fails >= MaxFails)]
      BY <1>2 DEF Accepts, TooMany
    <3> HIDE DEF fails
    <3> QED
      BY <3>1, <3>2, <3>3 DEF ServerType
  <2>2. server'.fails = fails /\ (server'.serving <=> ~TooMany(fails))
    BY <1>2 DEF ServerType, Accepts, TooMany
  <2>3. fails = MaxFails => TooMany(fails)
    BY <1>1, Limits DEF TooMany
  <2> QED
    BY <2>1, <2>2, <2>3 DEF ServerState
<1>4. server'.name = s.name /\ (server'.authenticated <=> s.authenticated \/ result = "success")
  BY <1>2 DEF ServerType, Accepts
<1>5. Wiser(server, server')
  BY <1>4, MethodsAssumption DEF Wiser
<1>6. OneName'
  <2>1. answers' = answers \cup {[num |-> num, result |-> result, name |-> s.name]}
    BY DEF SendAuthResult
  <2> QED
    BY <2>1, <1>4, MethodsAssumption DEF OneName, AuthInv
<1>7. Sends(<<reply>> \o rest)
  BY DEF SendAuthResult
<1>8. <<reply>> \o rest \in Seq(ToClient(server'))
  <2>1. reply \in ToClient(server')
    BY <1>4 DEF ToClient
  <2>2. [type |-> "DISCONNECT"] \in ToClient(server')
    BY DEF ToClient
  <2>3. <<reply>> \in Seq(ToClient(server')) /\ rest \in Seq(ToClient(server'))
    BY <2>1, <2>2, SeqOne DEF Disconnect
  <2> QED
    BY <2>3
<1> QED
  BY <1>3, <1>5, <1>6, <1>7, <1>8, Replying

\* A question is put when the server knows the user's name.
LEMMA Questioning ==
    ASSUME AuthInv, c2s # <<>>, UNCHANGED client,
           NEW s \in ServerType, NEW num \in Nat,
           s.name \in Users, server.name \in {Nobody, s.name},
           s.serving = server.serving, s.fails = server.fails,
           s.authenticated = server.authenticated, Query(s, num)
    PROVE  AuthInv'
<1>1. server' = [s EXCEPT !.queries = @ + 1, !.asked = num] /\ answers' = answers
  BY DEF Query
<1>2. server' \in ServerType
  BY <1>1, QuestionType DEF Query
<1>3. /\ server'.name = s.name /\ server'.authenticated = s.authenticated
      /\ server'.fails = s.fails /\ server'.serving = s.serving
  BY <1>1 DEF ServerType
<1>4. ServerState(server')
  BY <1>2, <1>3 DEF ServerState, AuthInv
<1>5. Wiser(server, server') /\ OneName'
  BY <1>1, <1>3, MethodsAssumption DEF Wiser, OneName, AuthInv
<1>6. [type |-> "INFO_REQUEST"] \in ToClient(server')
  BY <1>3, MethodsAssumption DEF ToClient
<1>7. <<[type |-> "INFO_REQUEST"]>> \in Seq(ToClient(server'))
  BY <1>6, SeqOne
<1> QED
  BY <1>4, <1>5, <1>7, Replying DEF Query

LEMMA Dismissing ==
    ASSUME AuthInv, c2s # <<>>, UNCHANGED client,
           NEW s \in ServerType,
           s.name # Nobody, server.name \in {Nobody, s.name},
           s.authenticated = server.authenticated, NoMoreAuth(s)
    PROVE  AuthInv'
<1>1. server' = [s EXCEPT !.serving = FALSE] /\ answers' = answers
  BY DEF NoMoreAuth
<1>2. ServerState(server')
  BY <1>1 DEF ServerState, ServerType
<1>3. server'.name = s.name /\ server'.authenticated = s.authenticated
  BY <1>1 DEF ServerType
<1>4. Wiser(server, server') /\ OneName'
  BY <1>1, <1>3 DEF Wiser, OneName, AuthInv
<1>5. [type |-> "DISCONNECT"] \in ToClient(server')
  BY DEF ToClient
<1>6. Disconnect \in Seq(ToClient(server'))
  BY <1>5, SeqOne DEF Disconnect
<1> QED
  BY <1>2, <1>4, <1>6, Replying DEF NoMoreAuth

LEMMA Serving ==
    ASSUME AuthInv, ServerRun \/ ServerGoes
    PROVE  AuthInv'
<1>1. CASE ServiceRequest
  <2>1. c2s # <<>> /\ UNCHANGED <<client, server, answers>> /\ Sends(<<[type |-> "ACCEPT"]>>)
    BY <1>1 DEF ServiceRequest, Asked, history
  <2>2. [type |-> "ACCEPT"] \in ToClient(server')
    BY DEF ToClient
  <2>3. <<[type |-> "ACCEPT"]>> \in Seq(ToClient(server'))
    BY <2>2, SeqOne
  <2>4. Wiser(server, server') /\ ServerState(server') /\ OneName'
    BY <2>1 DEF Wiser, AuthInv, ServerState, OneName
  <2> QED
    BY <2>1, <2>3, <2>4, Replying
<1>2. CASE UserauthRequest
  <2> DEFINE r == Head(c2s)
             s == [server EXCEPT !.name = r.name]
  <2>1. c2s # <<>> /\ server.serving /\ UNCHANGED client
    BY <1>2 DEF UserauthRequest, Asked
  <2>2. r.num \in Nat /\ r.name \in Users
    <3>1. r \in ToServer(server) /\ r.type = "REQUEST"
      BY <1>2, <2>1 DEF UserauthRequest, Asked, AuthInv, Wires
    <3>2. r \in RequestPackets
      BY <3>1 DEF ToServer
    <3> QED
      BY <3>2 DEF RequestPackets
  <2>3. s \in ServerType /\ s.name = r.name /\ s.fails = server.fails
          /\ s.authenticated = server.authenticated /\ s.serving = server.serving
    BY <2>2 DEF AuthInv, ServerState, ServerType, Names
  <2>4. CASE Ignores
    <3>1. Sends(<<>>) /\ UNCHANGED <<server, answers>>
      BY <1>2, <2>4 DEF UserauthRequest
    <3>2. Wiser(server, server') /\ ServerState(server') /\ OneName'
      BY <3>1 DEF Wiser, AuthInv, ServerState, OneName
    <3>3. <<>> \in Seq(ToClient(server'))
      OBVIOUS
    <3> QED
      BY <2>1, <3>1, <3>2, <3>3, Replying
  <2>5. CASE ~Ignores /\ OtherUser(r.name)
    <3>1. NoMoreAuth(server) /\ server.name # Nobody /\ server \in ServerType
      BY <1>2, <2>5 DEF UserauthRequest, OtherUser, AuthInv, ServerState
    <3> QED
      BY <2>1, <3>1, Dismissing
  <2>6. CASE ~Ignores /\ ~OtherUser(r.name)
    <3>1. server.name \in {Nobody, s.name} /\ s.name \in Users /\ s.name # Nobody
      BY <2>2, <2>3, <2>6, MethodsAssumption DEF OtherUser
    <3>2. NoMoreAuth(s) \/ Query(s, r.num) \/ \E result : SendAuthResult(s, r.num, result)
      BY <1>2, <2>6 DEF UserauthRequest
    <3> HIDE DEF r, s
    <3> QED
      BY <2>1, <2>2, <2>3, <3>1, <3>2, Dismissing, Questioning, Judging
  <2> QED
    BY <2>4, <2>5, <2>6
<1>3. CASE InfoResponse
  <2>1. c2s # <<>> /\ server.serving /\ UNCHANGED client
    BY <1>3 DEF InfoResponse, Asked
  <2>2. Head(c2s) \in ToServer(server) /\ Head(c2s).type = "INFO_RESPONSE"
    BY <1>3, <2>1 DEF InfoResponse, Asked, AuthInv, Wires
  <2>3. server.name # Nobody
    BY <2>2 DEF ToServer, RequestPackets
  <2>4. server \in ServerType /\ server.name \in Users /\ server.asked \in Nat
    BY <2>3 DEF AuthInv, ServerState, ServerType, Names
  <2>5. Query(server, server.asked) \/ \E result : SendAuthResult(server, server.asked, result)
    BY <1>3 DEF InfoResponse
  <2> QED
    BY <2>1, <2>4, <2>5, Questioning, Judging
<1>4. CASE ServerGoes
  <2>1. server' = [server EXCEPT !.serving = FALSE] /\ UNCHANGED <<client, wires, answers>>
    BY <1>4 DEF ServerGoes, history
  <2>2. ServerState(server') /\ server'.name = server.name
          /\ server'.authenticated = server.authenticated
    BY <2>1 DEF AuthInv, ServerState, ServerType
  <2>3. Wires(server)'
    BY <2>1, <2>2, PacketsStay DEF Wiser, Wires, AuthInv, wires
  <2> QED
    BY <2>1, <2>2, <2>3 DEF AuthInv, ClientType, OneName, client
<1> QED
  BY <1>1, <1>2, <1>3, <1>4 DEF ServerRun

LEMMA InvStays == AuthInv /\ [Next]_vars => AuthInv'
<1>1. ASSUME AuthInv, UNCHANGED vars PROVE AuthInv'
  BY <1>1 DEF vars, client, wires, history, AuthInv, ClientType, ServerState, Wires, OneName
<1> QED
  BY <1>1, UserStep, ClientStep, Serving DEF Next, UserSteps

LEMMA InvSuffices == AuthInv => ServerDecides
<1> SUFFICES ASSUME AuthInv PROVE ServerDecides
  OBVIOUS
<1>1. TypeOK
  BY DEF AuthInv, ClientType, ServerState, UserType, HandlerType, ServerType, Names, TypeOK
<1>2. BothAuthenticated /\ OneUser
  BY DEF AuthInv, OneName, BothAuthenticated, OneUser
<1> QED
  BY <1>1, <1>2 DEF ServerDecides

(* A client believes it is let in only after the server has let it in, every    *)
(* request the server answered is of one user, and the server does not go on    *)
(* after the last failure it allows (AuthHandler, both roles).                  *)
THEOREM ServerHasDecided == Spec => []ServerDecides
<1> QED
  BY InitHolds, InvStays, InvSuffices, PTL DEF Spec

-----------------------------------------------------------------------------
(****************************************************************************)
(* Whose answer a call ends with.  As long as no wait has run out there is  *)
(* one request at a time, and one packet under way that belongs to it.      *)
(****************************************************************************)
ServicePacket == [type |-> "SERVICE_REQUEST"]
OwnRequest ==
    [type |-> "REQUEST", num |-> handler.num, method |-> handler.method, name |-> handler.name]
Failed(partial) == [type |-> "FAILURE", partial |-> partial]

\* What is under way, when the server does not get anywhere any more.
Dead == ~server.serving /\ s2c \in {<<>>, Disconnect}

Asking ==
    \/ c2s = <<ServicePacket>> /\ s2c = <<>>
    \/ c2s = <<>> /\ s2c = <<[type |-> "ACCEPT"]>>
    \/ c2s = <<OwnRequest>> /\ s2c = <<>>

\* The server has a question for the request at hand.
Questioned ==
    /\ server.asked = handler.num /\ ~server.authenticated
    /\ \/ c2s = <<>> /\ s2c = <<[type |-> "INFO_REQUEST"]>>
       \/ c2s = <<[type |-> "INFO_RESPONSE"]>> /\ s2c = <<>>

\* The answer, and the end of the connection when it was the last failure allowed.
Replied(packet, result) ==
    /\ Answered(handler.num, {result})
    /\ \/ s2c = <<packet>>
       \/ s2c = <<packet>> \o Disconnect /\ ~server.serving

ReplyComes ==
    /\ c2s = <<>>
    /\ \/ Replied([type |-> "SUCCESS"], "success")
       \/ Replied(Failed(TRUE), "partial")
       \/ Replied(Failed(FALSE), "failed")

Silent == c2s = <<>> /\ s2c = <<>>

\* A wait that the answer has not reached.
Waiting == user.pc = "wait" /\ active /\ ~handler.event

OnTheWay ==
    /\ Waiting => Dead \/ Asking \/ Questioned \/ ReplyComes \/ Silent
    /\ ~Waiting /\ active => Dead \/ Silent
    /\ ~active => ~server.serving \/ c2s = <<>>

Outcome ==
    /\ active => saved # "error"
    /\ active /\ (user.pc = "idle" \/ ~handler.event) => saved = "none"
    /\ user.pc = "wait" /\ ~handler.event => ~handler.authenticated
    /\ user.pc = "wait" /\ active /\ handler.event =>
         IF handler.authenticated THEN saved = "none" /\ Answered(handler.num, {"success"})
         ELSE Answered(handler.num, IF saved = "partial" THEN {"partial"} ELSE {"failed"})
    /\ user.fallback => user.pc = "wait" /\ Answered(user.first, {"failed"})
    /\ user.pc = "wait" /\ ~user.fallback => user.first = handler.num

OneAtATime == timeouts = 0 => OnTheWay /\ Outcome /\ AcceptedOnce

\* The server remembers that it has let somebody in.
Remembers == server.authenticated <=> \E a \in answers : a.result = "success"

OwnInv ==
    /\ AuthInv /\ timeouts \in Nat
    /\ Remembers /\ OneAtATime /\ SuccessIsOwn /\ ErrorIsOwn

LEMMA VerdictsStay ==
    ASSUME SuccessIsOwn, ErrorIsOwn, answers \subseteq answers', verdicts' = verdicts
    PROVE  SuccessIsOwn' /\ ErrorIsOwn'
<1>1. \A n, results : Answered(n, results) => Answered(n, results)'
  BY DEF Answered
<1>2. SuccessIsOwn'
  BY <1>1 DEF SuccessIsOwn
<1>3. ErrorIsOwn'
  BY <1>1 DEF ErrorIsOwn
<1> QED
  BY <1>2, <1>3

\* A call ends with a verdict that it may have.
LEMMA VerdictComes ==
    ASSUME SuccessIsOwn, ErrorIsOwn, UNCHANGED answers, NEW verdict, Returns(verdict),
           verdict = "success" => /\ \E a \in answers : a.result = "success"
                                  /\ timeouts = 0 => Answered(handler.num, {"success"}),
           timeouts = 0 =>
              /\ verdict = "partial" => Answered(handler.num, {"partial"})
              /\ verdict \in {"failed", "badtype"} => Answered(user.first, {"failed"})
              /\ verdict = "failed" => user.first = handler.num
    PROVE  SuccessIsOwn' /\ ErrorIsOwn'
<1> DEFINE v == [call |-> user.call, first |-> user.first, last |-> handler.num,
                 verdict |-> verdict, late |-> timeouts # 0]
<1>1. verdicts' = verdicts \cup {v}
  BY DEF Returns
<1>2. \A n, results : Answered(n, results)' <=> Answered(n, results)
  BY DEF Answered
<1>3. v.verdict = verdict /\ v.first = user.first /\ v.last = handler.num /\ (v.late <=> timeouts # 0)
  OBVIOUS
<1> HIDE DEF v
<1>4. SuccessIsOwn'
  BY <1>1, <1>2, <1>3 DEF SuccessIsOwn
<1>5. ErrorIsOwn'
  BY <1>1, <1>2, <1>3 DEF ErrorIsOwn
<1> QED
  BY <1>4, <1>5

LEMMA OwnStarts == Init => OwnInv
<1> SUFFICES ASSUME Init PROVE OwnInv
  OBVIOUS
<1>1. AuthInv /\ timeouts \in Nat
  BY InitHolds DEF Init
<1>2. ~server.authenticated
  BY DEF Init
<1>3. Remembers /\ SuccessIsOwn /\ ErrorIsOwn
  BY <1>2 DEF Init, Remembers, SuccessIsOwn, ErrorIsOwn
<1>4. OneAtATime
  BY DEF Init, OneAtATime, OnTheWay, Outcome, AcceptedOnce, Waiting, Silent, Idle
<1> QED
  BY <1>1, <1>3, <1>4 DEF OwnInv

(****************************************************************************)
(* The user thread.                                                         *)
(****************************************************************************)
\* A request for the service, when nothing is under way.
LEMMA NewRequest ==
    ASSUME OwnInv, timeouts = 0, active, ~Waiting,
           NEW method, NEW name, NEW u, Requests(method, name, u), UNCHANGED <<active, s2c, server>>,
           u.pc = "wait"
    PROVE  OnTheWay' /\ Waiting' /\ handler'.num = handler.num + 1 /\ ~handler'.authenticated
<1>1. Dead \/ Silent
  BY DEF OwnInv, OneAtATime, OnTheWay
<1>2. handler' = FreshHandler(method, name) /\ user' = u /\ c2s' = Append(c2s, ServicePacket)
  BY DEF Requests, ServicePacket
<1>3. Waiting' /\ handler'.num = handler.num + 1 /\ ~handler'.authenticated
  BY <1>2 DEF FreshHandler, Waiting
<1>4. CASE Dead
  BY <1>3, <1>4 DEF Dead, OnTheWay, Waiting
<1>5. CASE Silent
  <2>1. c2s' = <<ServicePacket>> /\ s2c' = <<>>
    BY <1>2, <1>5 DEF Silent
  <2>2. Asking'
    BY <2>1 DEF Asking
  <2> QED
    BY <1>3, <2>2 DEF OnTheWay, Waiting
<1> QED
  BY <1>1, <1>3, <1>4, <1>5

LEMMA CallOwn ==
    ASSUME OwnInv, Call
    PROVE  Remembers' /\ OneAtATime' /\ SuccessIsOwn' /\ ErrorIsOwn'
<1>1. /\ user.pc = "idle" /\ active
      /\ UNCHANGED <<active, saved, s2c, server, timeouts, answers, verdicts>>
  BY DEF Call, history
<1>2. PICK method \in Methods, name \in Users :
        Requests(method, name, [pc |-> "wait", call |-> user.call + 1,
                                first |-> handler.num + 1, name |-> name, fallback |-> FALSE])
  BY DEF Call
<1>3. /\ user'.pc = "wait" /\ user'.first = handler.num + 1 /\ ~user'.fallback
      /\ ~handler'.event
  BY <1>2 DEF Requests, FreshHandler
<1>4. Remembers' /\ SuccessIsOwn' /\ ErrorIsOwn'
  BY <1>1, VerdictsStay DEF OwnInv, Remembers
<1>5. ASSUME timeouts = 0 PROVE OnTheWay' /\ Outcome' /\ AcceptedOnce'
  <2>1. OnTheWay' /\ handler'.num = handler.num + 1 /\ ~handler'.authenticated
    BY <1>1, <1>2, <1>5, NewRequest DEF Waiting
  <2>2. saved = "none" /\ AcceptedOnce
    BY <1>1, <1>5 DEF OwnInv, OneAtATime, Outcome
  <2>3. Outcome'
    BY <1>1, <1>3, <2>1, <2>2 DEF Outcome
  <2> QED
    BY <1>1, <2>1, <2>2, <2>3 DEF AcceptedOnce
<1> QED
  BY <1>1, <1>4, <1>5 DEF OneAtATime

LEMMA FallsBackOwn ==
    ASSUME OwnInv, FallsBack
    PROVE  Remembers' /\ OneAtATime' /\ SuccessIsOwn' /\ ErrorIsOwn'
<1>1. /\ user.pc = "wait" /\ active /\ handler.event /\ ~handler.authenticated /\ saved' = "none"
      /\ saved = "badtype" /\ ~user.fallback
      /\ UNCHANGED <<active, s2c, server, timeouts, answers, verdicts>>
      /\ Requests("interactive", user.name, [user EXCEPT !.fallback = TRUE])
  BY DEF FallsBack, Falls, TakesException, history
<1>2. user' = [user EXCEPT !.fallback = TRUE] /\ user \in UserType
  BY <1>1 DEF Requests, OwnInv, AuthInv, ClientType
<1>3. user'.pc = "wait" /\ user'.first = user.first /\ user'.fallback /\ ~handler'.event
        /\ [user EXCEPT !.fallback = TRUE].pc = "wait"
  BY <1>1, <1>2 DEF UserType, Requests, FreshHandler
<1>4. Remembers' /\ SuccessIsOwn' /\ ErrorIsOwn'
  BY <1>1, VerdictsStay DEF OwnInv, Remembers
<1>5. ASSUME timeouts = 0 PROVE OnTheWay' /\ Outcome' /\ AcceptedOnce'
  <2>1. OnTheWay' /\ handler'.num = handler.num + 1 /\ ~handler'.authenticated
    BY <1>1, <1>3, <1>5, NewRequest DEF Waiting
  <2>2. Answered(user.first, {"failed"}) /\ AcceptedOnce
    BY <1>1, <1>5 DEF OwnInv, OneAtATime, Outcome
  <2>3. Answered(user.first, {"failed"})'
    BY <1>1, <1>3, <2>2 DEF Answered
  <2>4. Outcome'
    BY <1>1, <1>3, <2>1, <2>3 DEF Outcome
  <2> QED
    BY <1>1, <2>1, <2>2, <2>4 DEF AcceptedOnce
<1> QED
  BY <1>1, <1>4, <1>5 DEF OneAtATime

LEMMA TimesOutOwn ==
    ASSUME OwnInv, TimesOut
    PROVE  Remembers' /\ OneAtATime' /\ SuccessIsOwn' /\ ErrorIsOwn'
<1>1. timeouts' = timeouts + 1 /\ Raises("timeout") /\ UNCHANGED <<server, answers>>
  BY DEF TimesOut
<1>2. user.fallback \in BOOLEAN
  BY DEF OwnInv, AuthInv, ClientType, UserType
<1>3. CASE user.fallback
  <2>1. Returns("badtype")
    BY <1>1, <1>3 DEF Raises
  <2>2. timeouts = 0 => Answered(user.first, {"failed"})
    BY <1>3 DEF OwnInv, OneAtATime, Outcome
  <2>3. SuccessIsOwn' /\ ErrorIsOwn'
    BY <1>1, <2>1, <2>2, VerdictComes DEF OwnInv
  <2> QED
    BY <1>1, <2>3 DEF OwnInv, Remembers, OneAtATime
<1>4. CASE ~user.fallback
  <2>1. Returns("timeout")
    BY <1>1, <1>4 DEF Raises
  <2>2. SuccessIsOwn' /\ ErrorIsOwn'
    BY <1>1, <2>1, VerdictComes DEF OwnInv
  <2> QED
    BY <1>1, <2>2 DEF OwnInv, Remembers, OneAtATime
<1> QED
  BY <1>2, <1>3, <1>4

\* The call is over, and nothing is under way.
LEMMA CallEnds ==
    ASSUME OwnInv, timeouts = 0, user.pc = "wait", ~Waiting, NEW verdict, Returns(verdict),
           saved' = "none", UNCHANGED <<active, handler, wires, server, answers, timeouts>>
    PROVE  OnTheWay' /\ Outcome' /\ AcceptedOnce'
<1>1. user' = [user EXCEPT !.pc = "idle", !.fallback = FALSE] /\ user \in UserType
  BY DEF Returns, OwnInv, AuthInv, ClientType
<1>2. user'.pc = "idle" /\ ~user'.fallback
  BY <1>1 DEF UserType
<1>3. Outcome' /\ AcceptedOnce'
  BY <1>2 DEF Outcome, AcceptedOnce, OwnInv, OneAtATime
<1>4. OnTheWay'
  BY <1>2 DEF OnTheWay, OwnInv, OneAtATime, Waiting, Dead, Silent, wires
<1> QED
  BY <1>3, <1>4

LEMMA SeesEndOwn ==
    ASSUME OwnInv, SeesEnd
    PROVE  Remembers' /\ OneAtATime' /\ SuccessIsOwn' /\ ErrorIsOwn'
<1>1. /\ user.pc = "wait" /\ ~active /\ saved' = "none"
      /\ UNCHANGED <<handler, active, wires, server, timeouts, answers>>
  BY DEF SeesEnd
<1>2. Returns("error") \/ (user.fallback /\ Returns("badtype"))
  BY DEF SeesEnd, Raises
<1>3. user.fallback /\ timeouts = 0 => Answered(user.first, {"failed"})
  BY DEF OwnInv, OneAtATime, Outcome
<1>4. SuccessIsOwn' /\ ErrorIsOwn'
  BY <1>1, <1>2, <1>3, VerdictComes DEF OwnInv
<1>5. OneAtATime'
  BY <1>1, <1>2, CallEnds DEF OneAtATime, Waiting
<1> QED
  BY <1>1, <1>4, <1>5 DEF OwnInv, Remembers

LEMMA SeesEventOwn ==
    ASSUME OwnInv, SeesEvent
    PROVE  Remembers' /\ OneAtATime' /\ SuccessIsOwn' /\ ErrorIsOwn'
<1>1. /\ user.pc = "wait" /\ active /\ handler.event
      /\ UNCHANGED <<handler, active, wires, server, timeouts, answers>>
  BY DEF SeesEvent
<1>2. timeouts = 0 =>
        /\ saved # "error"
        /\ IF handler.authenticated THEN saved = "none" /\ Answered(handler.num, {"success"})
           ELSE Answered(handler.num, IF saved = "partial" THEN {"partial"} ELSE {"failed"})
        /\ user.fallback => Answered(user.first, {"failed"})
        /\ ~user.fallback => user.first = handler.num
  BY <1>1 DEF OwnInv, OneAtATime, Outcome
<1>3. user.fallback \in BOOLEAN /\ saved \in {"none", "partial", "badtype", "error"}
  BY DEF OwnInv, AuthInv, ClientType, UserType
<1>4. CASE handler.authenticated
  <2>1. Returns("success") /\ UNCHANGED saved
    BY <1>4 DEF SeesEvent
  <2>2. \E a \in answers : a.result = "success"
    BY <1>4 DEF OwnInv, AuthInv, Remembers
  <2>3. SuccessIsOwn' /\ ErrorIsOwn'
    BY <1>1, <1>2, <1>4, <2>1, <2>2, VerdictComes DEF OwnInv
  <2>4. OneAtATime'
    BY <1>1, <1>2, <1>4, <2>1, CallEnds DEF OneAtATime, Waiting
  <2> QED
    BY <1>1, <2>3, <2>4 DEF OwnInv, Remembers
<1>5. CASE ~handler.authenticated
  <2>1. saved' = "none"
    BY <1>5 DEF SeesEvent, TakesException
  <2>2. PICK verdict : /\ Returns(verdict) /\ verdict # "success"
                       /\ saved # "error" => verdict \in {"partial", "failed", "badtype"}
                       /\ verdict = "partial" => saved = "partial"
                       /\ verdict = "failed" => saved = "none" /\ ~user.fallback
                       /\ verdict = "badtype" => user.fallback \/ saved = "badtype"
    <3>1. CASE saved = "partial"
      BY <1>5, <3>1 DEF SeesEvent
    <3>2. CASE saved = "none"
      BY <1>3, <1>5, <3>2 DEF SeesEvent, Raises
    <3>3. CASE saved \notin {"partial", "none"}
      BY <1>3, <1>5, <3>3 DEF SeesEvent, Raises
    <3> QED
      BY <3>1, <3>2, <3>3
  <2>3. SuccessIsOwn' /\ ErrorIsOwn'
    BY <1>1, <1>2, <1>3, <1>5, <2>2, VerdictComes DEF OwnInv
  <2>4. OneAtATime'
    BY <1>1, <2>1, <2>2, CallEnds DEF OneAtATime, Waiting
  <2> QED
    BY <1>1, <2>3, <2>4 DEF OwnInv, Remembers
<1> QED
  BY <1>4, <1>5

(****************************************************************************)
(* The client's transport thread.                                           *)
(****************************************************************************)
\* Heads and tails of what is under way.
LEMMA Packets ==
    /\ \A p : <<p>> # <<>> /\ Head(<<p>>) = p /\ Tail(<<p>>) = <<>>
    /\ \A p : /\ <<p>> \o Disconnect # <<>> /\ Head(<<p>> \o Disconnect) = p
              /\ Tail(<<p>> \o Disconnect) = Disconnect
    /\ Disconnect # <<>> /\ Head(Disconnect).type = "DISCONNECT" /\ Tail(Disconnect) = <<>>
    /\ \A p : <<>> \o <<p>> = <<p>> /\ Append(<<>>, p) = <<p>>
<1>1. ASSUME NEW p PROVE <<p>> # <<>> /\ Head(<<p>>) = p /\ Tail(<<p>>) = <<>> /\ Append(<<>>, p) = <<p>>
  <2>1. <<p>> \in Seq({p}) /\ Len(<<p>>) = 1
    OBVIOUS
  <2>2. Tail(<<p>>) \in Seq({p}) /\ Len(Tail(<<p>>)) = 0
    BY <2>1
  <2> QED
    BY <2>1, <2>2
<1>2. ASSUME NEW p PROVE <<>> \o <<p>> = <<p>>
  <2>1. <<>> \in Seq({p}) /\ <<p>> \in Seq({p})
    OBVIOUS
  <2> QED
    BY <2>1
<1>3. ASSUME NEW p, NEW q
      PROVE  <<p>> \o <<q>> # <<>> /\ Head(<<p>> \o <<q>>) = p /\ Tail(<<p>> \o <<q>>) = <<q>>
  <2>1. <<p>> \in Seq({p, q}) /\ <<q>> \in Seq({p, q}) /\ Len(<<p>>) = 1 /\ Len(<<q>>) = 1
    OBVIOUS
  <2>2. /\ <<p>> \o <<q>> \in Seq({p, q}) /\ Len(<<p>> \o <<q>>) = 2
        /\ (<<p>> \o <<q>>)[1] = p /\ (<<p>> \o <<q>>)[2] = q
    BY <2>1
  <2> DEFINE both == <<p>> \o <<q>>
  <2> HIDE DEF both
  <2>3. both \in Seq({p, q}) /\ Len(both) = 2 /\ both[1] = p /\ both[2] = q
    BY <2>2 DEF both
  <2>4. Tail(both) \in Seq({p, q}) /\ Len(Tail(both)) = 1 /\ Tail(both)[1] = q
    BY <2>3
  <2>5. both # <<>> /\ Head(both) = p
    BY <2>3
  <2>6. Tail(both) = <<q>>
    <3> DEFINE s == Tail(both)
               one == <<q>>
    <3>1. one \in Seq({p, q}) /\ Len(one) = 1 /\ one[1] = q
      BY <2>1
    <3>2. s \in Seq({p, q}) /\ Len(s) = 1 /\ s[1] = q
      BY <2>4
    <3> HIDE DEF s, one
    <3>3. s = one
      BY <3>1, <3>2, SeqEqual
    <3> QED
      BY <3>3 DEF s, one
  <2> QED
    BY <2>5, <2>6 DEF both
<1>4. Disconnect # <<>> /\ Head(Disconnect).type = "DISCONNECT" /\ Tail(Disconnect) = <<>>
  BY <1>1 DEF Disconnect
<1> QED
  BY <1>1, <1>2, <1>3, <1>4 DEF Disconnect

\* Nobody's verdict changes in the transport threads.
LEMMA ClientOnly ==
    ASSUME OwnInv, UNCHANGED <<user, server, timeouts, answers, verdicts>>,
           timeouts = 0 => OnTheWay' /\ Outcome'
    PROVE  Remembers' /\ OneAtATime' /\ SuccessIsOwn' /\ ErrorIsOwn'
<1>1. Remembers' /\ SuccessIsOwn' /\ ErrorIsOwn'
  BY VerdictsStay DEF OwnInv, Remembers
<1>2. AcceptedOnce'
  BY DEF OwnInv, OneAtATime, AcceptedOnce
<1> QED
  BY <1>1, <1>2 DEF OneAtATime

\* An end of the transport leaves the server nobody to ask.
LEMMA EndOwn ==
    ASSUME OwnInv, timeouts = 0, UNCHANGED <<user, server, answers>>, Ends("error"),
           ~server.serving \/ c2s' = <<>>
    PROVE  OnTheWay' /\ Outcome'
<1>1. ~active' /\ handler' = [handler EXCEPT !.event = TRUE] /\ handler \in HandlerType
  BY DEF Ends, OwnInv, AuthInv, ClientType
<1>2. handler'.event /\ handler'.num = handler.num
  BY <1>1 DEF HandlerType
<1>3. OnTheWay'
  BY <1>1 DEF OnTheWay, Waiting
<1>4. Outcome'
  BY <1>1, <1>2 DEF Outcome, Answered, OwnInv, OneAtATime
<1> QED
  BY <1>3, <1>4

LEMMA ServiceAcceptOwn ==
    ASSUME OwnInv, ServiceAccept
    PROVE  Remembers' /\ OneAtATime' /\ SuccessIsOwn' /\ ErrorIsOwn'
<1>1. /\ UNCHANGED <<user, server, timeouts, answers, verdicts>>
      /\ active /\ s2c # <<>> /\ Head(s2c).type = "ACCEPT" /\ s2c' = Tail(s2c)
  BY DEF ServiceAccept, Arrives, Takes, history
<1>2. ASSUME timeouts = 0 PROVE OnTheWay' /\ Outcome'
  <2>1. Waiting /\ c2s = <<>> /\ s2c = <<[type |-> "ACCEPT"]>>
    BY <1>1, <1>2, Packets
       DEF OwnInv, OneAtATime, OnTheWay, Dead, Asking, Questioned, ReplyComes, Replied, Silent,
           Failed
  <2>2. s2c' = <<>>
    BY <1>1, <2>1
  <2>3. CASE handler.name = Nobody
    BY <1>1, <1>2, <2>1, <2>3, EndOwn DEF ServiceAccept
  <2>4. CASE handler.name # Nobody
    <3>1. c2s' = <<OwnRequest>> /\ UNCHANGED <<handler, active, saved>>
      BY <2>1, <2>4, Packets DEF ServiceAccept, OwnRequest
    <3>2. Asking'
      BY <2>2, <3>1 DEF Asking, OwnRequest
    <3>3. OnTheWay'
      BY <1>1, <2>1, <3>1, <3>2 DEF OnTheWay, Waiting
    <3>4. Outcome'
      BY <1>1, <1>2, <3>1 DEF Outcome, Answered, OwnInv, OneAtATime
    <3> QED
      BY <3>3, <3>4
  <2> QED
    BY <2>3, <2>4
<1> QED
  BY <1>1, <1>2, ClientOnly

\* The answer to the request at hand is read.
LEMMA ReplyOwn ==
    ASSUME OwnInv, timeouts = 0, UNCHANGED <<user, active, c2s, server, answers>>, active,
           Waiting, NEW packet, NEW result, Replied(packet, result), ReplyComes,
           s2c' = Tail(s2c), handler'.event, handler'.num = handler.num,
           handler'.authenticated \in BOOLEAN,
           IF handler'.authenticated THEN saved' = "none" /\ result = "success"
           ELSE result = IF saved' = "partial" THEN "partial" ELSE "failed",
           saved' # "error"
    PROVE  OnTheWay' /\ Outcome'
<1>1. c2s' = <<>>
  BY DEF ReplyComes
<1>2. s2c' = <<>> \/ (s2c' = Disconnect /\ ~server.serving)
  BY Packets DEF Replied
<1>3. Dead' \/ Silent'
  BY <1>1, <1>2 DEF Dead, Silent
<1>4. OnTheWay'
  BY <1>3 DEF OnTheWay, Waiting
<1>5. Answered(handler.num, {result})'
  BY DEF Replied, Answered
<1>6. user'.pc = "wait" /\ (user'.fallback => Answered(user.first, {"failed"})')
        /\ (~user'.fallback => user'.first = handler'.num)
  BY DEF Waiting, Outcome, Answered, OwnInv, OneAtATime
<1>7. Outcome'
  BY <1>5, <1>6 DEF Outcome
<1> QED
  BY <1>4, <1>7

LEMMA SuccessOwn ==
    ASSUME OwnInv, Success
    PROVE  Remembers' /\ OneAtATime' /\ SuccessIsOwn' /\ ErrorIsOwn'
<1>1. /\ UNCHANGED <<user, active, saved, c2s, server, timeouts, answers, verdicts>>
      /\ active /\ s2c # <<>> /\ Head(s2c).type = "SUCCESS" /\ s2c' = Tail(s2c)
  BY DEF Success, Arrives, Takes, history
<1>2. /\ handler' = [handler EXCEPT !.authenticated = TRUE, !.event = TRUE]
      /\ handler \in HandlerType
  BY DEF Success, OwnInv, AuthInv, ClientType
<1>3. handler'.event /\ handler'.authenticated /\ handler'.num = handler.num
        /\ handler'.authenticated \in BOOLEAN
  BY <1>2 DEF HandlerType
<1>4. ASSUME timeouts = 0 PROVE OnTheWay' /\ Outcome'
  <2>1. Waiting /\ ReplyComes /\ Replied([type |-> "SUCCESS"], "success")
    BY <1>1, <1>4, Packets
       DEF OwnInv, OneAtATime, OnTheWay, Dead, Asking, Questioned, ReplyComes, Replied, Silent,
           Failed
  <2>2. saved' = "none"
    BY <1>1, <1>4, <2>1 DEF OwnInv, OneAtATime, Outcome, Waiting
  <2> QED
    BY <1>1, <1>3, <1>4, <2>1, <2>2, ReplyOwn
<1> QED
  BY <1>1, <1>4, ClientOnly

LEMMA FailureOwn ==
    ASSUME OwnInv, Failure
    PROVE  Remembers' /\ OneAtATime' /\ SuccessIsOwn' /\ ErrorIsOwn'
<1>1. /\ UNCHANGED <<user, active, c2s, server, timeouts, answers, verdicts>>
      /\ active /\ s2c # <<>> /\ Head(s2c).type = "FAILURE" /\ s2c' = Tail(s2c)
  BY DEF Failure, Arrives, Takes, history
<1>2. /\ handler' = [handler EXCEPT !.authenticated = FALSE, !.name = Nobody, !.event = TRUE]
      /\ handler \in HandlerType
  BY DEF Failure, OwnInv, AuthInv, ClientType
<1>3. handler'.event /\ ~handler'.authenticated /\ handler'.num = handler.num
        /\ handler'.authenticated \in BOOLEAN
  BY <1>2 DEF HandlerType
<1>4. ASSUME timeouts = 0 PROVE OnTheWay' /\ Outcome'
  <2>1. /\ Waiting /\ ReplyComes
        /\ \/ Replied(Failed(TRUE), "partial") /\ Head(s2c) = Failed(TRUE)
           \/ Replied(Failed(FALSE), "failed") /\ Head(s2c) = Failed(FALSE)
    BY <1>1, <1>4, Packets
       DEF OwnInv, OneAtATime, OnTheWay, Dead, Asking, Questioned, ReplyComes, Replied, Silent,
           Failed
  <2>2. saved = "none"
    BY <1>1, <1>4, <2>1 DEF OwnInv, OneAtATime, Outcome, Waiting
  <2>3. CASE Replied(Failed(TRUE), "partial") /\ Head(s2c) = Failed(TRUE)
    <3>1. saved' = "partial"
      BY <2>3 DEF Failure, Failed
    <3> QED
      BY <1>1, <1>3, <1>4, <2>1, <2>3, <3>1, ReplyOwn
  <2>4. CASE Replied(Failed(FALSE), "failed") /\ Head(s2c) = Failed(FALSE)
    <3>1. saved' \in {"badtype", "none"}
      BY <2>2, <2>4 DEF Failure, Failed
    <3> QED
      BY <1>1, <1>3, <1>4, <2>1, <2>4, <3>1, ReplyOwn
  <2> QED
    BY <2>1, <2>3, <2>4
<1> QED
  BY <1>1, <1>4, ClientOnly

LEMMA InfoRequestOwn ==
    ASSUME OwnInv, InfoRequest
    PROVE  Remembers' /\ OneAtATime' /\ SuccessIsOwn' /\ ErrorIsOwn'
<1>1. /\ UNCHANGED <<user, server, timeouts, answers, verdicts>>
      /\ active /\ s2c # <<>> /\ Head(s2c).type = "INFO_REQUEST" /\ s2c' = Tail(s2c)
  BY DEF InfoRequest, Arrives, Takes, history
<1>2. ASSUME timeouts = 0 PROVE OnTheWay' /\ Outcome'
  <2>1. /\ Waiting /\ c2s = <<>> /\ s2c = <<[type |-> "INFO_REQUEST"]>>
        /\ server.asked = handler.num /\ ~server.authenticated
    BY <1>1, <1>2, Packets
       DEF OwnInv, OneAtATime, OnTheWay, Dead, Asking, Questioned, ReplyComes, Replied, Silent,
           Failed
  <2>2. s2c' = <<>>
    BY <1>1, <2>1
  <2>3. CASE Ends("error") /\ UNCHANGED c2s
    BY <1>1, <1>2, <2>1, <2>3, EndOwn
  <2>4. CASE c2s' = Append(c2s, [type |-> "INFO_RESPONSE"]) /\ UNCHANGED <<handler, active, saved>>
    <3>1. c2s' = <<[type |-> "INFO_RESPONSE"]>>
      BY <2>1, <2>4, Packets
    <3>2. Questioned'
      BY <1>1, <2>1, <2>2, <2>4, <3>1 DEF Questioned
    <3>3. OnTheWay'
      BY <1>1, <2>1, <2>4, <3>2 DEF OnTheWay, Waiting
    <3>4. Outcome'
      BY <1>1, <1>2, <2>4 DEF Outcome, Answered, OwnInv, OneAtATime
    <3> QED
      BY <3>3, <3>4
  <2> QED
    BY <2>3, <2>4 DEF InfoRequest
<1> QED
  BY <1>1, <1>2, ClientOnly

LEMMA EndsOwn ==
    ASSUME OwnInv, ReadDisconnect \/ Eof
    PROVE  Remembers' /\ OneAtATime' /\ SuccessIsOwn' /\ ErrorIsOwn'
<1>1. CASE ReadDisconnect
  <2>1. /\ UNCHANGED <<user, handler, saved, c2s, server, timeouts, answers, verdicts>>
        /\ ~active' /\ active /\ s2c # <<>> /\ Head(s2c).type = "DISCONNECT"
    BY <1>1 DEF ReadDisconnect, Arrives, history
  <2>2. ASSUME timeouts = 0 PROVE OnTheWay' /\ Outcome'
    <3>1. ~server.serving
      BY <2>1, <2>2, Packets
         DEF OwnInv, OneAtATime, OnTheWay, Dead, Asking, Questioned, ReplyComes, Replied, Silent,
             Failed
    <3>2. OnTheWay'
      BY <2>1, <3>1 DEF OnTheWay, Waiting
    <3>3. Outcome'
      BY <2>1, <2>2 DEF Outcome, Answered, OwnInv, OneAtATime
    <3> QED
      BY <3>2, <3>3
  <2> QED
    BY <2>1, <2>2, ClientOnly
<1>2. CASE Eof
  BY <1>2, EndOwn, ClientOnly DEF Eof, wires, history
<1> QED
  BY <1>1, <1>2

(****************************************************************************)
(* The server's transport thread.                                           *)
(****************************************************************************)
LEMMA ServerOnly ==
    ASSUME OwnInv, UNCHANGED <<client, timeouts, verdicts>>, answers \subseteq answers',
           Remembers',
           timeouts = 0 => /\ Waiting /\ (Dead' \/ Asking' \/ Questioned' \/ ReplyComes' \/ Silent')
                           /\ AcceptedOnce'
    PROVE  Remembers' /\ OneAtATime' /\ SuccessIsOwn' /\ ErrorIsOwn'
<1>1. SuccessIsOwn' /\ ErrorIsOwn'
  BY VerdictsStay DEF OwnInv
<1>2. UNCHANGED <<user, handler, active, saved>>
  BY DEF client
<1>3. ASSUME timeouts = 0 PROVE OnTheWay' /\ Outcome'
  <2>1. OnTheWay'
    BY <1>2, <1>3 DEF OnTheWay, Waiting
  <2>2. \A n, results : Answered(n, results) => Answered(n, results)'
    BY DEF Answered
  <2>3. Outcome'
    BY <1>2, <1>3, <2>2 DEF Outcome, OwnInv, OneAtATime
  <2> QED
    BY <2>1, <2>3
<1> QED
  BY <1>1, <1>3 DEF OneAtATime

\* A server that is asked is asked by somebody who waits.
LEMMA SomebodyWaits ==
    ASSUME OwnInv, timeouts = 0, NEW type, Asked(type)
    PROVE  /\ Waiting /\ s2c = <<>>
           /\ \/ c2s = <<ServicePacket>> /\ type = "SERVICE_REQUEST"
              \/ c2s = <<OwnRequest>> /\ type = "REQUEST"
              \/ /\ c2s = <<[type |-> "INFO_RESPONSE"]>> /\ type = "INFO_RESPONSE"
                 /\ server.asked = handler.num /\ ~server.authenticated
<1>1. server.serving /\ c2s # <<>> /\ Head(c2s).type = type
  BY DEF Asked
<1>2. active /\ Waiting
  BY <1>1 DEF OwnInv, AuthInv, ClientType, OneAtATime, OnTheWay, Dead, Silent
<1>3. Asking \/ Questioned
  BY <1>1, <1>2 DEF OwnInv, OneAtATime, OnTheWay, Dead, Silent, ReplyComes
<1>4. Head(<<ServicePacket>>).type = "SERVICE_REQUEST" /\ Head(<<OwnRequest>>).type = "REQUEST"
        /\ Head(<<[type |-> "INFO_RESPONSE"]>>).type = "INFO_RESPONSE"
  BY DEF ServicePacket, OwnRequest
<1> QED
  BY <1>1, <1>2, <1>3, <1>4 DEF Asking, Questioned

LEMMA ServiceRequestOwn ==
    ASSUME OwnInv, ServiceRequest
    PROVE  Remembers' /\ OneAtATime' /\ SuccessIsOwn' /\ ErrorIsOwn'
<1>1. /\ UNCHANGED <<client, server, timeouts, answers, verdicts>>
      /\ Asked("SERVICE_REQUEST") /\ Sends(<<[type |-> "ACCEPT"]>>)
  BY DEF ServiceRequest, history
<1>2. ASSUME timeouts = 0 PROVE Waiting /\ Asking' /\ AcceptedOnce'
  <2>1. Waiting /\ s2c = <<>> /\ c2s = <<ServicePacket>>
    BY <1>1, <1>2, SomebodyWaits
  <2>2. c2s' = <<>> /\ s2c' = <<[type |-> "ACCEPT"]>>
    BY <1>1, <2>1, Packets DEF Sends
  <2>3. AcceptedOnce'
    BY <1>1, <1>2 DEF AcceptedOnce, OwnInv, OneAtATime
  <2> QED
    BY <2>1, <2>2, <2>3 DEF Asking
<1>3. Remembers'
  BY <1>1 DEF OwnInv, Remembers
<1> QED
  BY <1>1, <1>2, <1>3, ServerOnly

\* The server object's verdict on the request at hand.
LEMMA JudgingOwn ==
    ASSUME OwnInv, UNCHANGED <<client, timeouts, verdicts>>,
           NEW s \in ServerType, s.authenticated = server.authenticated,
           NEW num, NEW result \in {"failed", "success", "partial"}, SendAuthResult(s, num, result),
           timeouts = 0 => /\ Waiting /\ s2c = <<>> /\ Tail(c2s) = <<>>
                           /\ num = handler.num /\ ~server.authenticated
    PROVE  Remembers' /\ OneAtATime' /\ SuccessIsOwn' /\ ErrorIsOwn'
<1> DEFINE fails == s.fails + IF result = "failed" THEN 1 ELSE 0
           reply == IF result = "success" THEN [type |-> "SUCCESS"]
                    ELSE [type |-> "FAILURE", partial |-> result = "partial"]
           a == [num |-> num, result |-> result, name |-> s.name]
<1>1. server' = [s EXCEPT !.fails = fails, !.queries = 0, !.authenticated = Accepts(s, result),
                          !.serving = ~TooMany(fails)]
  BY DEF SendAuthResult
<1>2. answers' = answers \cup {a} /\ a.num = num /\ a.result = result
  BY DEF SendAuthResult
<1>3. /\ server'.authenticated <=> server.authenticated \/ result = "success"
      /\ server'.serving <=> ~TooMany(fails)
  BY <1>1 DEF ServerType, Accepts, TooMany
<1>4. Sends(<<reply>> \o (IF TooMany(fails) THEN Disconnect ELSE <<>>))
  BY DEF SendAuthResult
<1> HIDE DEF fails, a
<1>5. Remembers'
  BY <1>2, <1>3 DEF OwnInv, Remembers
<1>6. ASSUME timeouts = 0 PROVE Waiting /\ ReplyComes' /\ AcceptedOnce'
  <2>1. c2s' = <<>>
    BY <1>4, <1>6 DEF Sends
  <2>2. s2c' = <<reply>> \/ (s2c' = <<reply>> \o Disconnect /\ ~server'.serving)
    <3>1. CASE TooMany(fails)
      BY <1>3, <1>4, <1>6, <3>1 DEF Sends, Disconnect
    <3>2. CASE ~TooMany(fails)
      BY <1>4, <1>6, <3>2 DEF Sends
    <3> QED
      BY <3>1, <3>2
  <2>3. Answered(handler.num, {result})' /\ handler' = handler
    BY <1>2, <1>6 DEF Answered, client
  <2>4. Replied(reply, result)'
    BY <2>2, <2>3 DEF Replied
  <2>5. ReplyComes'
    <3>1. CASE result = "success"
      BY <2>1, <2>4, <3>1 DEF ReplyComes
    <3>2. CASE result = "partial"
      BY <2>1, <2>4, <3>2 DEF ReplyComes, Failed
    <3>3. CASE result = "failed"
      BY <2>1, <2>4, <3>3 DEF ReplyComes, Failed
    <3> QED
      BY <3>1, <3>2, <3>3
  <2>6. AcceptedOnce'
    BY <1>2, <1>6 DEF AcceptedOnce, OwnInv, Remembers
  <2> QED
    BY <1>6, <2>5, <2>6
<1> QED
  BY <1>2, <1>5, <1>6, ServerOnly

\* The server object has a question for the request at hand.
LEMMA QuestioningOwn ==
    ASSUME OwnInv, UNCHANGED <<client, timeouts, verdicts>>,
           NEW s \in ServerType, s.authenticated = server.authenticated,
           NEW num, Query(s, num),
           timeouts = 0 => /\ Waiting /\ s2c = <<>> /\ Tail(c2s) = <<>>
                           /\ num = handler.num /\ ~server.authenticated
    PROVE  Remembers' /\ OneAtATime' /\ SuccessIsOwn' /\ ErrorIsOwn'
<1>1. /\ server' = [s EXCEPT !.queries = @ + 1, !.asked = num]
      /\ answers' = answers /\ Sends(<<[type |-> "INFO_REQUEST"]>>)
  BY DEF Query
<1>2. server'.asked = num /\ server'.authenticated = server.authenticated
  BY <1>1 DEF ServerType
<1>3. Remembers'
  BY <1>1, <1>2 DEF OwnInv, Remembers
<1>4. ASSUME timeouts = 0 PROVE Waiting /\ Questioned' /\ AcceptedOnce'
  <2>1. c2s' = <<>> /\ s2c' = <<[type |-> "INFO_REQUEST"]>>
    BY <1>1, <1>4, Packets DEF Sends
  <2>2. Questioned'
    BY <1>2, <1>4, <2>1 DEF Questioned, client
  <2>3. AcceptedOnce'
    BY <1>1, <1>4 DEF AcceptedOnce, OwnInv, OneAtATime
  <2> QED
    BY <1>4, <2>2, <2>3
<1> QED
  BY <1>1, <1>3, <1>4, ServerOnly

LEMMA DismissingOwn ==
    ASSUME OwnInv, UNCHANGED <<client, timeouts, verdicts>>,
           NEW s \in ServerType, s.authenticated = server.authenticated, NoMoreAuth(s),
           timeouts = 0 => Waiting /\ s2c = <<>>
    PROVE  Remembers' /\ OneAtATime' /\ SuccessIsOwn' /\ ErrorIsOwn'
<1>1. server' = [s EXCEPT !.serving = FALSE] /\ answers' = answers /\ Sends(Disconnect)
  BY DEF NoMoreAuth
<1>2. ~server'.serving /\ server'.authenticated = server.authenticated
  BY <1>1 DEF ServerType
<1>3. Remembers'
  BY <1>1, <1>2 DEF OwnInv, Remembers
<1>4. ASSUME timeouts = 0 PROVE Waiting /\ Dead' /\ AcceptedOnce'
  <2>1. s2c' = Disconnect
    BY <1>1, <1>4, Packets DEF Sends, Disconnect
  <2>2. AcceptedOnce'
    BY <1>1, <1>4 DEF AcceptedOnce, OwnInv, OneAtATime
  <2> QED
    BY <1>2, <1>4, <2>1, <2>2 DEF Dead
<1> QED
  BY <1>1, <1>3, <1>4, ServerOnly

LEMMA UserauthRequestOwn ==
    ASSUME OwnInv, UserauthRequest
    PROVE  Remembers' /\ OneAtATime' /\ SuccessIsOwn' /\ ErrorIsOwn'
<1> DEFINE r == Head(c2s)
           s == [server EXCEPT !.name = r.name]
<1>1. Asked("REQUEST") /\ UNCHANGED <<client, timeouts, verdicts>>
  BY DEF UserauthRequest
<1>2. timeouts = 0 => /\ Waiting /\ s2c = <<>> /\ Tail(c2s) = <<>>
                      /\ r.num = handler.num
  <2>1. timeouts = 0 => Waiting /\ s2c = <<>> /\ c2s = <<OwnRequest>>
    BY <1>1, SomebodyWaits
  <2>2. Tail(<<OwnRequest>>) = <<>> /\ Head(<<OwnRequest>>) = OwnRequest
    BY Packets
  <2>3. OwnRequest.num = handler.num
    BY DEF OwnRequest
  <2> QED
    BY <2>1, <2>2, <2>3
<1>3. server \in ServerType /\ r.name \in Names
  <2>1. r \in ToServer(server) /\ r.type = "REQUEST"
    BY <1>1 DEF Asked, OwnInv, AuthInv, Wires
  <2>2. r \in RequestPackets
    BY <2>1 DEF ToServer
  <2> QED
    BY <2>2 DEF RequestPackets, Names, OwnInv, AuthInv, ServerState
<1>4. s \in ServerType /\ s.authenticated = server.authenticated
  BY <1>3 DEF ServerType
<1>5. CASE Ignores
  <2>1. Sends(<<>>) /\ UNCHANGED <<server, answers>>
    BY <1>5 DEF UserauthRequest
  <2>2. Remembers'
    BY <2>1 DEF OwnInv, Remembers
  <2>3. timeouts = 0 => Silent'
    BY <1>2, <2>1 DEF Sends, Silent
  <2>4. timeouts = 0 => AcceptedOnce'
    BY <1>1, <2>1 DEF AcceptedOnce, OwnInv, OneAtATime
  <2> QED
    BY <1>1, <1>2, <2>1, <2>2, <2>3, <2>4, ServerOnly
<1>6. CASE ~Ignores /\ OtherUser(r.name)
  <2>1. NoMoreAuth(server)
    BY <1>6 DEF UserauthRequest
  <2> QED
    BY <1>1, <1>2, <1>3, <2>1, DismissingOwn
<1>7. CASE ~Ignores /\ ~OtherUser(r.name)
  <2>1. ~server.authenticated
    BY <1>7 DEF Ignores
  <2>2. \/ NoMoreAuth(s) \/ Query(s, r.num)
        \/ \E result \in {"failed", "success", "partial"} : SendAuthResult(s, r.num, result)
    BY <1>7 DEF UserauthRequest, Results
  <2> HIDE DEF r, s
  <2>3. CASE NoMoreAuth(s)
    BY <1>1, <1>2, <1>4, <2>3, DismissingOwn
  <2>4. CASE Query(s, r.num)
    BY <1>1, <1>2, <1>4, <2>1, <2>4, QuestioningOwn
  <2>5. CASE \E result \in {"failed", "success", "partial"} : SendAuthResult(s, r.num, result)
    BY <1>1, <1>2, <1>4, <2>1, <2>5, JudgingOwn
  <2> QED
    BY <2>2, <2>3, <2>4, <2>5
<1> QED
  BY <1>5, <1>6, <1>7

LEMMA InfoResponseOwn ==
    ASSUME OwnInv, InfoResponse
    PROVE  Remembers' /\ OneAtATime' /\ SuccessIsOwn' /\ ErrorIsOwn'
<1>1. Asked("INFO_RESPONSE") /\ UNCHANGED <<client, timeouts, verdicts>>
  BY DEF InfoResponse
<1>2. timeouts = 0 => /\ Waiting /\ s2c = <<>> /\ Tail(c2s) = <<>>
                      /\ server.asked = handler.num /\ ~server.authenticated
  <2>1. timeouts = 0 => /\ Waiting /\ s2c = <<>> /\ c2s = <<[type |-> "INFO_RESPONSE"]>>
                        /\ server.asked = handler.num /\ ~server.authenticated
    BY <1>1, SomebodyWaits
  <2>2. Tail(<<[type |-> "INFO_RESPONSE"]>>) = <<>>
    BY Packets
  <2> QED
    BY <2>1, <2>2
<1>3. server \in ServerType
  BY DEF OwnInv, AuthInv, ServerState
<1>4. \/ Query(server, server.asked)
      \/ \E result \in {"failed", "success", "partial"} :
            SendAuthResult(server, server.asked, result)
  BY DEF InfoResponse, Results
<1>5. CASE Query(server, server.asked)
  BY <1>1, <1>2, <1>3, <1>5, QuestioningOwn
<1>6. CASE \E result \in {"failed", "success", "partial"} :
              SendAuthResult(server, server.asked, result)
  BY <1>1, <1>2, <1>3, <1>6, JudgingOwn
<1> QED
  BY <1>4, <1>5, <1>6

LEMMA ServerGoesOwn ==
    ASSUME OwnInv, ServerGoes
    PROVE  Remembers' /\ OneAtATime' /\ SuccessIsOwn' /\ ErrorIsOwn'
<1>1. /\ UNCHANGED <<user, handler, active, saved, c2s, s2c, timeouts, answers, verdicts>>
      /\ server' = [server EXCEPT !.serving = FALSE] /\ server \in ServerType
  BY DEF ServerGoes, client, wires, history, OwnInv, AuthInv, ServerState
<1>2. ~server'.serving /\ server'.asked = server.asked
        /\ server'.authenticated = server.authenticated
  BY <1>1 DEF ServerType
<1>3. Remembers' /\ SuccessIsOwn' /\ ErrorIsOwn'
  BY <1>1, <1>2, VerdictsStay DEF OwnInv, Remembers
<1>4. ASSUME timeouts = 0 PROVE OnTheWay' /\ Outcome' /\ AcceptedOnce'
  <2>1. OnTheWay'
    BY <1>1, <1>2, <1>4
       DEF OwnInv, OneAtATime, OnTheWay, Waiting, Dead, Asking, Questioned, ReplyComes, Replied,
           Silent, Answered, OwnRequest
  <2>2. Outcome' /\ AcceptedOnce'
    BY <1>1, <1>4 DEF Outcome, AcceptedOnce, Answered, OwnInv, OneAtATime
  <2> QED
    BY <2>1, <2>2
<1> QED
  BY <1>1, <1>3, <1>4 DEF OneAtATime

-----------------------------------------------------------------------------
LEMMA OwnStays == OwnInv /\ [Next]_vars => OwnInv'
<1> SUFFICES ASSUME OwnInv, [Next]_vars PROVE OwnInv'
  OBVIOUS
<1>1. AuthInv'
  BY InvStays DEF OwnInv
<1>2. timeouts' \in Nat
  BY DEF OwnInv, Next, Call, TimesOut, UserSteps, SeesEnd, SeesEvent, FallsBack, ClientRun,
         ServiceAccept, Success, Failure, InfoRequest, ReadDisconnect, Eof, ServerRun,
         ServiceRequest, UserauthRequest, InfoResponse, ServerGoes, vars
<1>3. CASE UNCHANGED vars
  <2>1. UNCHANGED <<user, handler, active, saved, c2s, s2c, server, timeouts, answers, verdicts>>
    BY <1>3 DEF vars, client, wires, history
  <2>2. OnTheWay' = OnTheWay
    BY <2>1
       DEF OnTheWay, Waiting, Dead, Asking, Questioned, ReplyComes, Replied, Silent, Answered,
           OwnRequest
  <2>3. Outcome' = Outcome /\ AcceptedOnce' = AcceptedOnce
    BY <2>1 DEF Outcome, AcceptedOnce, Answered
  <2>4. Remembers' /\ SuccessIsOwn' /\ ErrorIsOwn'
    BY <2>1, VerdictsStay DEF Remembers, OwnInv
  <2> QED
    BY <1>1, <1>2, <2>1, <2>2, <2>3, <2>4 DEF OwnInv, OneAtATime
<1>4. CASE Next
  <2>1. Remembers' /\ OneAtATime' /\ SuccessIsOwn' /\ ErrorIsOwn'
    BY <1>4, CallOwn, TimesOutOwn, FallsBackOwn, SeesEndOwn, SeesEventOwn, ServiceAcceptOwn,
       SuccessOwn, FailureOwn, InfoRequestOwn, EndsOwn, ServiceRequestOwn, UserauthRequestOwn,
       InfoResponseOwn, ServerGoesOwn DEF Next, UserSteps, ClientRun, ServerRun
  <2> QED
    BY <1>1, <1>2, <2>1 DEF OwnInv
<1> QED
  BY <1>3, <1>4

LEMMA OwnSuffices == OwnInv => AnswersAreOwn
  BY DEF OwnInv, OneAtATime, AnswersAreOwn, AcceptedOnce

(* As long as no wait has run out, a call ends with the server's answer to its  *)
(* own request, an exception of the fallback names the first request's, and the *)
(* server accepts once; and whoever is let in has been accepted in any case     *)
(* (AuthHandler in both roles, and the calls of Transport).                     *)
THEOREM AnswersOwn == Spec => []AnswersAreOwn
<1> QED
  BY OwnStarts, OwnStays, OwnSuffices, PTL DEF Spec

(****************************************************************************)
(* Key exchange.                                                            *)
(****************************************************************************)
FixedEngines == {"group", "ecdh", "gss"}
GroupEngines == {"gex", "gssgex"}
SignedEngines == {"group", "ecdh", "gex"}

(* What a setting decides.                                                  *)
ListsOf(s, e) == KexInitOf(s, e).lists
EngineOf(s) == First(ListsOf(s, "client").kex, ListsOf(s, "server").kex)
KeyOf(s) == First(ListsOf(s, "client").key, ListsOf(s, "server").key)
UpOf(s) == First(ListsOf(s, "client").c2s, ListsOf(s, "server").c2s)
DownOf(s) == First(ListsOf(s, "client").s2c, ListsOf(s, "server").s2c)

AskedBits(s) == IF EngineOf(s) = "gssgex" THEN [s.request EXCEPT !.old = FALSE] ELSE s.request
GrantedBits(s) ==
    IF EngineOf(s) = "gex" /\ s.request.old
    THEN [ClassBits EXCEPT !.old = TRUE, !.n = Smooshed(s.request.n)]
    ELSE Fixed(AskedBits(s))
PrimeOf(s) == GetModulus(s.pack, GrantedBits(s))
HasPrimes(s) == s.pack # None /\ s.pack # {}

RequestTypes(s) ==
    IF EngineOf(s) = "gex" THEN {"GEX_REQUEST", "GEX_REQUEST_OLD"} ELSE {"GSS_GROUPREQ"}
RequestOf(s) ==
    [type |-> IF EngineOf(s) = "gssgex" THEN "GSS_GROUPREQ"
              ELSE IF s.request.old THEN "GEX_REQUEST_OLD" ELSE "GEX_REQUEST",
     bits |-> AskedBits(s)]
GroupType(s) == IF EngineOf(s) = "gex" THEN "GEX_GROUP" ELSE "GSS_GROUP"
GroupOf(s) == [type |-> GroupType(s), p |-> PrimeOf(s)]
InitType(s) ==
    CASE EngineOf(s) = "group" -> "DH_INIT"
      [] EngineOf(s) = "ecdh"  -> "ECDH_INIT"
      [] EngineOf(s) = "gex"   -> "GEX_INIT"
      [] OTHER                 -> "GSS_INIT"
ReplyType(s) ==
    CASE EngineOf(s) = "group" -> "DH_REPLY"
      [] EngineOf(s) = "ecdh"  -> "ECDH_REPLY"
      [] EngineOf(s) = "gex"   -> "GEX_REPLY"
      [] OTHER                 -> "GSS_COMPLETE"
RepliesTo(s) == IF EngineOf(s) \in SignedEngines THEN {ReplyType(s)} ELSE GssReplies
InitWith(s, v) == [type |-> InitType(s), value |-> v]
Values(s, e, x) == {x} \cup IF e \in s.strange THEN {0} ELSE {}
Firsts(s) ==
    IF EngineOf(s) \in FixedEngines
    THEN {InitWith(s, v) : v \in UNION {Values(s, "client", x) : x \in Exponents}}
    ELSE {RequestOf(s)}
Inits(s) == {InitWith(s, v) : v \in UNION {Values(s, "client", x) : x \in Exponents}}
AtMostOne(S) == {<<>>} \cup {<<q>> : q \in S}

(* The ends on their way.                                                   *)
Agreed(s, e) ==
    [Fresh(s) EXCEPT
        !.timer  = FALSE,
        !.kex    = Pick(e, ListsOf(s, e).kex, ListsOf(s, Peer(e)).kex),
        !.key    = Pick(e, ListsOf(s, e).key, ListsOf(s, Peer(e)).key),
        !.local  = Pick(e, Outgoing(e, ListsOf(s, e)), Outgoing(e, ListsOf(s, Peer(e)))),
        !.remote = Pick(e, Incoming(e, ListsOf(s, e)), Incoming(e, ListsOf(s, Peer(e))))]

SentRequest(s) == Expecting([Agreed(s, "client") EXCEPT !.bits = AskedBits(s)], {GroupType(s)})
SentFixed(s, x, v) == Expecting([[Agreed(s, "client") EXCEPT !.x = x] EXCEPT !.e = v], RepliesTo(s))
SentGroup(s, x, v) ==
    Expecting([[SentRequest(s) EXCEPT !.p = PrimeOf(s)] EXCEPT !.x = x, !.e = v], RepliesTo(s))
SentInit(s, x, v) == IF EngineOf(s) \in FixedEngines THEN SentFixed(s, x, v) ELSE SentGroup(s, x, v)

Prepared(s, x, v) == Expecting([[Agreed(s, "server") EXCEPT !.x = x] EXCEPT !.f = v], {InitType(s)})
Ready(s) == Expecting(Agreed(s, "server"), RequestTypes(s))
Granted(s) ==
    Expecting([[Ready(s) EXCEPT !.bits = GrantedBits(s)] EXCEPT !.p = PrimeOf(s)], {InitType(s)})

(* The server r has agreed or is about to, and has q still to read of the exchange. *)
AtStart(s, r, w, q) ==
    \/ r = Fresh(s) /\ w = <<KexInitOf(s, "client")>> \o Guessed(s) \o q
    \/ /\ w = Guessed(s) \o q
       /\ \/ EngineOf(s) \in GroupEngines /\ r = Ready(s)
          \/ EngineOf(s) \in FixedEngines
             /\ \E x \in Exponents : \E v \in Values(s, "server", x) : r = Prepared(s, x, v)

Granting(s, r) ==
    /\ s.guess = "none" /\ EngineOf(s) \in GroupEngines /\ HasPrimes(s)
    /\ r = Granted(s)

Continuing(r) == r.expected = {"GSS_CONTINUE", "GSS_COMPLETE", "GSS_ERROR"}

ServerWaits(s, r, w) ==
    \/ \E q \in AtMostOne(Firsts(s)) : AtStart(s, r, w, q)
    \/ Granting(s, r) /\ w \in AtMostOne(Inits(s))
    \/ Continuing(r) /\ w = <<>>

HashOf(s, bits, e, f, K) ==
    LET key == IF EngineOf(s) \in SignedEngines THEN KeyOf(s) ELSE "null"
        asked == IF bits.old THEN <<bits.n>> ELSE <<bits.min, bits.n, bits.max>>
    IN  IF EngineOf(s) \in FixedEngines THEN <<key, e, f, K>>
        ELSE <<key, asked, PrimeOf(s), e, f, K>>

SessionOf(s, H) == IF s.earlier = None THEN H ELSE s.earlier

ReplyWith(s, f, H) ==
    IF EngineOf(s) \in SignedEngines THEN [type |-> ReplyType(s), value |-> f, sig |-> H]
    ELSE [type |-> ReplyType(s), value |-> f, mic |-> SessionOf(s, H)]

\* The server r has answered a client that sent v with m.
HasAnswered(s, r, v, m) ==
    \E y \in Exponents : \E f \in Values(s, "server", y) :
        LET K == Shared(v, y)
            H == HashOf(s, GrantedBits(s), v, f, K)
        IN  /\ r.pc = "done" /\ v # 0
            /\ r.K = K /\ r.H = H /\ r.session = SessionOf(s, H)
            /\ m = ReplyWith(s, f, H)

ClientWaits(s, r, w, sr, sw) ==
    \/ /\ r = Fresh(s) /\ w = <<KexInitOf(s, "server")>>
       /\ sr.pc = "wait" => AtStart(s, sr, sw, <<>>)
    \/ /\ r = SentRequest(s) /\ EngineOf(s) \in GroupEngines
       /\ \/ w = <<>> /\ (sr.pc = "wait" => AtStart(s, sr, sw, <<RequestOf(s)>>))
          \/ w = <<GroupOf(s)>> /\ (sr.pc = "wait" => Granting(s, sr) /\ sw = <<>>)
    \/ \E x \in Exponents : \E v \in Values(s, "client", x) :
        /\ r = SentInit(s, x, v)
        /\ \/ /\ w = <<>> /\ EngineOf(s) \in FixedEngines
              /\ sr.pc = "wait" => AtStart(s, sr, sw, <<InitWith(s, v)>>)
           \/ /\ w = <<>> /\ EngineOf(s) \in GroupEngines
              /\ sr.pc = "wait" => Granting(s, sr) /\ sw = <<InitWith(s, v)>>
           \/ /\ w = <<[type |-> "GSS_CONTINUE"]>> /\ EngineOf(s) \in {"gss", "gssgex"}
              /\ sr.pc = "wait" => Continuing(sr) /\ sw = <<>>
           \/ \E m \in {Head(w)} : w = <<m>> /\ EngineOf(s) \in Engines /\ HasAnswered(s, sr, v, m)

Fits(s) ==
    LET r == s.request
    IN  IF r.old THEN Smooshed(r.n) = r.n ELSE Fixed(r) = r

ClientDone(s, r, sr) ==
    /\ sr.pc = "done" /\ r.kex = EngineOf(s) /\ r.session = sr.session /\ r.K = sr.K
    /\ (EngineOf(s) = "gssgex" => Fits(s) \/ s.earlier = None) => r.H = sr.H

PicksKept(s, e, r) ==
    /\ r.kex = EngineOf(s) /\ r.key = KeyOf(s)
    /\ IF e = "client" THEN r.local = UpOf(s) /\ r.remote = DownOf(s)
       ELSE r.local = DownOf(s) /\ r.remote = UpOf(s)

(* What holds of an end whether it goes on or not.                          *)
EndFields == {"pc", "why", "timer", "expected", "kex", "key", "local", "remote", "bits",
              "p", "x", "e", "f", "K", "H", "session"}

Sound(s, e, r) ==
    /\ DOMAIN r = EndFields
    /\ r.kex \in Engines \cup {None} /\ r.x \in Exponents \cup {None}
    /\ e = "server" =>
        \/ r.p = None
        \/ HasPrimes(s) /\ EngineOf(s) \in GroupEngines /\ r.p = PrimeOf(s)

Reason(s, e, why) ==
    /\ Fits(s) => why \notin {"signature", "mic"}
    /\ s.guess = "none" => why # "expected"
    /\ why = "range" => Peer(e) \in s.strange

Sane(s, e, r) ==
    /\ Sound(s, e, r) /\ Reason(s, e, r.why)
    /\ r.pc \in {"wait", "done", "dead", "silent"}
    /\ r.pc = "wait" => r.expected # {}
    /\ r.pc # "dead" => r.kex = None \/ PicksKept(s, e, r)

ExchangeInv ==
    /\ setting \in Settings
    /\ t = [e \in Sides |-> t[e]] /\ wire = [e \in Sides |-> wire[e]]
    /\ \A e \in Sides : Sane(setting, e, t[e])
    /\ t["server"].pc = "wait" => ServerWaits(setting, t["server"], wire["server"])
    /\ t["client"].pc = "wait" =>
         ClientWaits(setting, t["client"], wire["client"], t["server"], wire["server"])
    /\ t["client"].pc = "done" => ClientDone(setting, t["client"], t["server"])

(* What a step of an end leaves alone.                                      *)
OnlyMoves(e) ==
    /\ setting' = setting /\ t'[Peer(e)] = t[Peer(e)]
    /\ t' = [d \in Sides |-> t'[d]] /\ wire' = [d \in Sides |-> wire'[d]]
    /\ t[e].pc = "wait" /\ Sane(setting, e, t'[e])

Stopped(e) ==
    /\ t'[e].pc \in {"dead", "silent"}
    /\ t[Peer(e)].pc = "wait" => wire'[Peer(e)] = wire[Peer(e)]

SendsInit ==
    /\ wire'["client"] = <<>>
    /\ \E x \in Exponents : \E v \in Values(setting, "client", x) :
        /\ t'["client"] = SentInit(setting, x, v)
        /\ wire'["server"] = wire["server"] \o <<InitWith(setting, v)>>

(* The steps of a client: it fails, asks for a prime, sends its value or is done. *)
ClientMoves ==
    /\ OnlyMoves("client")
    /\ \/ Stopped("client")
       \/ /\ t["client"] = Fresh(setting) /\ EngineOf(setting) \in GroupEngines
          /\ t'["client"] = SentRequest(setting) /\ wire'["client"] = <<>>
          /\ wire'["server"] = wire["server"] \o <<RequestOf(setting)>>
       \/ t["client"] = Fresh(setting) /\ EngineOf(setting) \in FixedEngines /\ SendsInit
       \/ /\ t["client"] = SentRequest(setting) /\ EngineOf(setting) \in GroupEngines
          /\ wire["client"] = <<GroupOf(setting)>> /\ SendsInit
       \/ t'["client"].pc = "done" /\ ClientDone(setting, t'["client"], t["server"])

\* The server r waits for the value of the client and reads v.
Reading(s, r, w, v) ==
    /\ w = <<InitWith(s, v)>> /\ s.guess = "none"
    /\ \/ Granting(s, r)
       \/ EngineOf(s) \in FixedEngines
          /\ \E x \in Exponents : \E f \in Values(s, "server", x) : r = Prepared(s, x, f)

(* The steps of a server: it fails, agrees, grants a prime, answers or wants   *)
(* another token.                                                              *)
ServerMoves ==
    /\ OnlyMoves("server")
    /\ \/ Stopped("server")
       \/ /\ t["server"] = Fresh(setting)
          /\ t["client"].pc = "wait" => wire'["client"] = wire["client"]
          /\ wire'["server"] = Tail(wire["server"])
          /\ \/ EngineOf(setting) \in GroupEngines /\ t'["server"] = Ready(setting)
             \/ /\ EngineOf(setting) \in FixedEngines
                /\ \E x \in Exponents : \E v \in Values(setting, "server", x) :
                       t'["server"] = Prepared(setting, x, v)
       \/ /\ t["server"] = Ready(setting) /\ wire["server"] = <<RequestOf(setting)>>
          /\ Granting(setting, t'["server"]) /\ wire'["server"] = <<>>
          /\ wire'["client"] = wire["client"] \o <<GroupOf(setting)>>
       \/ \E v \in UNION {Values(setting, "client", x) : x \in Exponents} :
          /\ Reading(setting, t["server"], wire["server"], v) /\ wire'["server"] = <<>>
          /\ \/ /\ Continuing(t'["server"]) /\ t'["server"].pc = "wait"
                /\ EngineOf(setting) \in {"gss", "gssgex"}
                /\ wire'["client"] = wire["client"] \o <<[type |-> "GSS_CONTINUE"]>>
             \/ \E m : /\ wire'["client"] = wire["client"] \o <<m>>
                       /\ HasAnswered(setting, t'["server"], v, m)

-----------------------------------------------------------------------------
(* Numbers.                                                                 *)
LEMMA LeastExists ==
    ASSUME NEW S, S \subseteq Nat, S # {}
    PROVE  \E m \in S : \A n \in S : m <= n
<1>1. PICK m \in S : \A n \in S : <<n, m>> \notin OpToRel(<, Nat)
  BY WFMin, NatLessThanWellFounded, Zenon
<1>2. \A n \in S : ~(n < m)
  <2> SUFFICES ASSUME NEW n \in S, n < m PROVE FALSE
    OBVIOUS
  <2>1. <<n, m>> \in Nat \X Nat /\ <<n, m>>[1] < <<n, m>>[2]
    OBVIOUS
  <2>2. <<n, m>> \in OpToRel(<, Nat)
    BY <2>1 DEF OpToRel
  <2> QED
    BY <1>1, <2>2
<1> QED
  BY <1>2

LEMMA LeastOf ==
    ASSUME NEW S, S \subseteq Nat, S # {}
    PROVE  Min(S) \in S /\ \A n \in S : Min(S) <= n
<1>1. \E m \in S : \A n \in S : m <= n
  BY LeastExists
<1> QED
  BY <1>1 DEF Min

LEMMA GreatestOf ==
    ASSUME NEW S, S \subseteq Nat, S # {}, NEW limit \in Nat, \A n \in S : n <= limit
    PROVE  Max(S) \in S /\ \A n \in S : n <= Max(S)
<1> DEFINE gaps == {limit - n : n \in S}
<1>0. PICK some \in S : TRUE
  OBVIOUS
<1>1. gaps \subseteq Nat /\ gaps # {}
  <2>1. \A n \in S : limit - n \in Nat
    OBVIOUS
  <2>2. limit - some \in gaps
    OBVIOUS
  <2> QED
    BY <2>1, <2>2
<1>2. PICK g \in gaps : \A h \in gaps : g <= h
  BY <1>1, LeastExists
<1>3. PICK m \in S : g = limit - m
  BY <1>2
<1>4. \A n \in S : m >= n
  <2> TAKE n \in S
  <2>1. g <= limit - n
    BY <1>2
  <2> QED
    BY <1>3, <2>1
<1> QED
  BY <1>4 DEF Max

-----------------------------------------------------------------------------
(* What a setting decides.                                                  *)
LEMMA SettingFacts ==
    ASSUME NEW s \in Settings
    PROVE  /\ s.pack = None \/ s.pack \subseteq Nat
           /\ s.request \in [old : BOOLEAN, min : Nat, n : Nat, max : Nat]
           /\ s.request.old => s.request.min = MinBits /\ s.request.max = MaxBits
           /\ s.guess \in {"none", "gex", "gssgex"} /\ s.guess # EngineOf(s)
           /\ EngineOf(s) \in Engines \cup {None}
           /\ MinBits \in Nat /\ MaxBits \in Nat /\ MinBits <= MaxBits
           /\ PreferredBits \in MinBits .. MaxBits
           /\ Exponents \subseteq Nat \ {0}
<1>1. SettingOK(s)
  BY SettingsAssumption
<1>2. EngineOf(s) = Pick("client", Offered(s, "client"), Offered(s, "server"))
  <2>1. ListsOf(s, "client").kex = Offered(s, "client") /\ ListsOf(s, "server").kex = Offered(s, "server")
    BY <1>1 DEF SettingOK, Sides, ListsOf, KexInitOf
  <2> QED
    BY <2>1 DEF EngineOf, Pick
<1>3. EngineOf(s) \in Engines \cup {None}
  <2> DEFINE list == Offered(s, "client")
             other == Offered(s, "server")
  <2>1. list \in Seq(Engines)
    BY <1>1 DEF SettingOK, Offered, Sides
  <2>2. CASE Common(list, other) = {}
    BY <1>2, <2>2 DEF Pick, First
  <2>3. CASE Common(list, other) # {}
    <3>1. Common(list, other) \subseteq DOMAIN list
      BY DEF Common
    <3>2. DOMAIN list \subseteq Nat
      BY <2>1
    <3>3. Min(Common(list, other)) \in DOMAIN list
      BY <2>3, <3>1, <3>2, LeastOf
    <3>4. list[Min(Common(list, other))] \in Engines
      BY <2>1, <3>3
    <3> QED
      BY <1>2, <2>3, <3>4 DEF Pick, First
  <2> QED
    BY <2>2, <2>3
<1> QED
  BY <1>1, <1>2, <1>3, SizesAssumption DEF SettingOK

LEMMA OldCleared ==
    ASSUME NEW q \in [old : BOOLEAN, min : Nat, n : Nat, max : Nat]
    PROVE  [q EXCEPT !.old = FALSE] = [old |-> FALSE, min |-> q.min, n |-> q.n, max |-> q.max]
<1>1. PICK r : r = [q EXCEPT !.old = FALSE]
  OBVIOUS
<1>2. r \in [old : BOOLEAN, min : Nat, n : Nat, max : Nat]
  BY <1>1
<1>3. r = [old |-> r.old, min |-> r.min, n |-> r.n, max |-> r.max]
  BY <1>2
<1>4. r.old = FALSE /\ r.min = q.min /\ r.n = q.n /\ r.max = q.max
  BY <1>1
<1> QED
  BY <1>1, <1>3, <1>4

(* A request that fits is granted as it is.                                 *)
LEMMA FitsGranted ==
    ASSUME NEW s \in Settings, Fits(s), EngineOf(s) \in GroupEngines
    PROVE  /\ AskedBits(s).old = GrantedBits(s).old
           /\ AskedBits(s).n = GrantedBits(s).n
           /\ AskedBits(s).min = GrantedBits(s).min
           /\ AskedBits(s).max = GrantedBits(s).max
<1> DEFINE r == s.request
<1>1. r \in [old : BOOLEAN, min : Nat, n : Nat, max : Nat]
      /\ (r.old => r.min = MinBits /\ r.max = MaxBits)
      /\ MinBits \in Nat /\ MaxBits \in Nat /\ MinBits <= MaxBits
  BY SettingFacts
<1>2. r = [old |-> r.old, min |-> r.min, n |-> r.n, max |-> r.max]
  BY <1>1
<1>3. CASE EngineOf(s) = "gex" /\ r.old
  <2>1. AskedBits(s) = r
    BY <1>3 DEF AskedBits
  <2>2. Smooshed(r.n) = r.n
    BY <1>3 DEF Fits
  <2>3. GrantedBits(s) = [ClassBits EXCEPT !.old = TRUE, !.n = r.n]
    BY <1>3, <2>2 DEF GrantedBits
  <2> QED
    BY <1>1, <1>3, <2>1, <2>3 DEF ClassBits
<1>4. CASE EngineOf(s) = "gex" /\ ~r.old
  <2>1. AskedBits(s) = r
    BY <1>4 DEF AskedBits
  <2>2. GrantedBits(s) = r
    BY <1>4, <2>1 DEF GrantedBits, Fits
  <2> QED
    BY <2>1, <2>2
<1>5. CASE EngineOf(s) = "gssgex" /\ ~r.old
  <2>1. [r EXCEPT !.old = FALSE] = r
    <3>1. r.old = FALSE
      BY <1>1, <1>5
    <3>2. [old |-> FALSE, min |-> r.min, n |-> r.n, max |-> r.max] = r
      BY <1>2, <3>1
    <3>3. [r EXCEPT !.old = FALSE] = [old |-> FALSE, min |-> r.min, n |-> r.n, max |-> r.max]
      BY <1>1, OldCleared
    <3> QED
      BY <3>2, <3>3
  <2>2. AskedBits(s) = r
    BY <1>5, <2>1 DEF AskedBits
  <2>3. GrantedBits(s) = r
    BY <1>5, <2>2 DEF GrantedBits, Fits
  <2> QED
    BY <2>2, <2>3
<1>6. CASE EngineOf(s) = "gssgex" /\ r.old
  <2>1. AskedBits(s) = [old |-> FALSE, min |-> MinBits, n |-> r.n, max |-> MaxBits]
    BY <1>1, <1>2, <1>6 DEF AskedBits
  <2>2. Smooshed(r.n) = r.n
    BY <1>6 DEF Fits
  <2>3. r.n >= MinBits /\ r.n <= MaxBits
    BY <1>1, <2>2 DEF Smooshed, Least, Most
  <2>4. GrantedBits(s) = Fixed(AskedBits(s))
    BY <1>6 DEF GrantedBits
  <2>5. Fixed(AskedBits(s)) =
          [old |-> FALSE, min |-> Least(MinBits, r.n), n |-> r.n, max |-> Most(MaxBits, r.n)]
    <3>1. AskedBits(s).min = MinBits /\ AskedBits(s).n = r.n /\ AskedBits(s).max = MaxBits
      BY <2>1
    <3> QED
      BY <2>2, <3>1 DEF Fixed
  <2>6. Least(MinBits, r.n) = MinBits /\ Most(MaxBits, r.n) = MaxBits
    BY <1>1, <2>3 DEF Least, Most
  <2> QED
    BY <2>1, <2>4, <2>5, <2>6
<1> QED
  BY <1>1, <1>3, <1>4, <1>5, <1>6 DEF GroupEngines

LEMMA ModulusFits ==
    ASSUME NEW pack, pack \subseteq Nat, NEW bits, bits.min \in Nat, bits.n \in Nat, bits.max \in Nat,
           bits.min <= bits.n,
           {b \in pack : b >= bits.min /\ b <= bits.max} # {}
    PROVE  LET p == GetModulus(pack, bits)
               able == {b \in pack : b >= bits.min /\ b <= bits.max}
           IN  /\ p \in able
               /\ \A b \in able : b >= bits.n => p >= bits.n /\ p <= b
<1> DEFINE able == {b \in pack : b >= bits.min /\ b <= bits.max}
           above == {b \in pack : b >= bits.n /\ b <= bits.max}
<1>1. able \subseteq Nat /\ above \subseteq Nat /\ able # {} /\ above \subseteq able
  <2>1. \A b \in pack : b >= bits.n => b >= bits.min
    BY SMT
  <2> QED
    BY <2>1
<1>2. CASE above # {}
  <2>1. GetModulus(pack, bits) = Min(above)
    BY <1>2 DEF GetModulus
  <2>2. Min(above) \in above /\ \A n \in above : Min(above) <= n
    BY <1>1, <1>2, LeastOf
  <2> QED
    BY <1>1, <2>1, <2>2
<1>3. CASE above = {}
  <2>1. GetModulus(pack, bits) = Max(able)
    BY <1>1, <1>3 DEF GetModulus
  <2>2. \A n \in able : n <= bits.max
    OBVIOUS
  <2>3. Max(able) \in able
    <3> HIDE DEF able
    <3> QED BY <1>1, <2>2, GreatestOf
  <2>4. \A b \in able : ~(b >= bits.n)
    BY <1>3
  <2> QED
    BY <2>1, <2>3, <2>4
<1> QED
  BY <1>2, <1>3

(* The prime of a setting fits the request, if one does.                    *)
LEMMA PrimeFits ==
    ASSUME NEW s \in Settings, Fits(s), EngineOf(s) \in GroupEngines, HasPrimes(s),
           NEW r, r = IF s.request.old THEN [ClassBits EXCEPT !.n = s.request.n] ELSE s.request,
           NEW able, able = {b \in s.pack : b >= r.min /\ b <= r.max}, able # {}
    PROVE  /\ PrimeOf(s) \in able
           /\ \A b \in able : b >= r.n => PrimeOf(s) >= r.n /\ PrimeOf(s) <= b
<1> DEFINE q == s.request
           bits == GrantedBits(s)
<1>1. /\ s.pack \subseteq Nat
      /\ q \in [old : BOOLEAN, min : Nat, n : Nat, max : Nat]
      /\ q.old => q.min = MinBits /\ q.max = MaxBits
      /\ MinBits \in Nat /\ MaxBits \in Nat /\ MinBits <= MaxBits
  BY SettingFacts DEF HasPrimes
<1>2. r.min = q.min /\ r.n = q.n /\ r.max = q.max
  BY <1>1 DEF ClassBits
<1>3. AskedBits(s).min = q.min /\ AskedBits(s).n = q.n /\ AskedBits(s).max = q.max
  BY <1>1 DEF AskedBits
<1>4. bits.min = r.min /\ bits.n = r.n /\ bits.max = r.max
  BY <1>2, <1>3, FitsGranted
<1>5. q.min <= q.n
  <2>1. CASE q.old
    <3>1. Smooshed(q.n) = q.n
      BY <2>1 DEF Fits
    <3> QED
      BY <1>1, <2>1, <3>1 DEF Smooshed, Least, Most
  <2>2. CASE ~q.old
    <3>1. Fixed(q) = q
      BY <2>2 DEF Fits
    <3>2. q.n = Smooshed(q.n) /\ q.min = Least(q.min, Smooshed(q.n))
      <4>1. Fixed(q).n = Smooshed(q.n) /\ Fixed(q).min = Least(q.min, Smooshed(q.n))
        BY DEF Fixed
      <4> QED
        BY <3>1, <4>1
    <3> QED
      BY <1>1, <3>2 DEF Least
  <2> QED
    BY <1>1, <2>1, <2>2
<1>6. able = {b \in s.pack : b >= bits.min /\ b <= bits.max}
  BY <1>4
<1>7. /\ PrimeOf(s) \in able
      /\ \A b \in able : b >= bits.n => PrimeOf(s) >= bits.n /\ PrimeOf(s) <= b
  <2> HIDE DEF bits, q
  <2>1. bits.min \in Nat /\ bits.n \in Nat /\ bits.max \in Nat /\ bits.min <= bits.n
    BY <1>1, <1>2, <1>4, <1>5
  <2>2. PrimeOf(s) = GetModulus(s.pack, bits)
    BY DEF PrimeOf, bits
  <2> QED
    BY <1>1, <1>6, <2>1, <2>2, ModulusFits
<1> QED
  BY <1>4, <1>7

-----------------------------------------------------------------------------
(* The ends on their way, field by field.                                   *)
LEMMA AgreedFacts ==
    ASSUME NEW s \in Settings, NEW e \in Sides
    PROVE  LET r == Agreed(s, e)
           IN  /\ r.pc = "wait" /\ r.why = "none"
               /\ r.kex = EngineOf(s) /\ r.key = KeyOf(s)
               /\ e = "client" => r.local = UpOf(s) /\ r.remote = DownOf(s)
               /\ e = "server" => r.local = DownOf(s) /\ r.remote = UpOf(s)
               /\ r.bits = ClassBits /\ r.p = None /\ r.x = None
               /\ r.e = None /\ r.f = None /\ r.session = s.earlier
<1>1. e = "client" \/ e = "server"
  BY DEF Sides
<1>2. CASE e = "client"
  BY <1>2 DEF Agreed, Fresh, Pick, Outgoing, Incoming, Peer, EngineOf, KeyOf, UpOf, DownOf
<1>3. CASE e = "server"
  BY <1>3 DEF Agreed, Fresh, Pick, Outgoing, Incoming, Peer, EngineOf, KeyOf, UpOf, DownOf
<1> QED
  BY <1>1, <1>2, <1>3

LEMMA DomainKept ==
    ASSUME NEW s, NEW e
    PROVE  DOMAIN Fresh(s) = EndFields /\ DOMAIN Agreed(s, e) = EndFields
BY DEF Fresh, Agreed, EndFields

LEMMA FreshFacts ==
    ASSUME NEW s
    PROVE  LET r == Fresh(s)
           IN  /\ r.pc = "wait" /\ r.why = "none" /\ r.expected = {"KEXINIT"}
               /\ r.kex = None /\ r.p = None /\ r.x = None
BY DEF Fresh

LEMMA SentRequestFacts ==
    ASSUME NEW s \in Settings
    PROVE  LET r == SentRequest(s)
           IN  /\ DOMAIN r = EndFields
               /\ r.pc = "wait" /\ r.why = "none" /\ r.expected = {GroupType(s)}
               /\ r.kex = EngineOf(s) /\ r.key = KeyOf(s) /\ r.local = UpOf(s) /\ r.remote = DownOf(s)
               /\ r.bits = AskedBits(s) /\ r.x = None /\ r.session = s.earlier
<1> DEFINE r == Agreed(s, "client")
<1>1. "client" \in Sides
  BY DEF Sides
<1>2. DOMAIN r = EndFields
  BY DomainKept
<1> HIDE DEF r
<1>3. PICK a : a = r
  OBVIOUS
<1>4. SentRequest(s) = [[a EXCEPT !.bits = AskedBits(s)] EXCEPT !.expected = {GroupType(s)}]
  BY <1>3 DEF SentRequest, Expecting, r
<1> QED
  BY <1>1, <1>2, <1>3, <1>4, AgreedFacts DEF r, EndFields

LEMMA SentFacts ==
    ASSUME NEW s \in Settings, NEW x, NEW v
    PROVE  LET r == SentInit(s, x, v)
           IN  /\ DOMAIN r = EndFields
               /\ r.pc = "wait" /\ r.why = "none" /\ r.expected = RepliesTo(s)
               /\ r.kex = EngineOf(s) /\ r.key = KeyOf(s) /\ r.local = UpOf(s) /\ r.remote = DownOf(s)
               /\ r.x = x /\ r.e = v /\ r.session = s.earlier
               /\ EngineOf(s) \notin FixedEngines => r.bits = AskedBits(s) /\ r.p = PrimeOf(s)
<1>1. "client" \in Sides
  BY DEF Sides
<1>2. CASE EngineOf(s) \in FixedEngines
  <2>1. PICK a : a = Agreed(s, "client")
    OBVIOUS
  <2>2. SentInit(s, x, v) = [[[a EXCEPT !.x = x] EXCEPT !.e = v] EXCEPT !.expected = RepliesTo(s)]
    BY <1>2, <2>1 DEF SentInit, SentFixed, Expecting
  <2>3. DOMAIN a = EndFields
    BY <2>1, DomainKept
  <2> QED
    BY <1>1, <1>2, <2>1, <2>2, <2>3, AgreedFacts DEF EndFields
<1>3. CASE EngineOf(s) \notin FixedEngines
  <2>1. PICK a : a = SentRequest(s)
    OBVIOUS
  <2>2. SentInit(s, x, v) =
            [[[a EXCEPT !.p = PrimeOf(s)] EXCEPT !.x = x, !.e = v] EXCEPT !.expected = RepliesTo(s)]
    BY <1>3, <2>1 DEF SentInit, SentGroup, Expecting
  <2> QED
    BY <1>3, <2>1, <2>2, SentRequestFacts DEF EndFields
<1> QED
  BY <1>2, <1>3

LEMMA PreparedFacts ==
    ASSUME NEW s \in Settings, NEW x, NEW v
    PROVE  LET r == Prepared(s, x, v)
           IN  /\ DOMAIN r = EndFields
               /\ r.pc = "wait" /\ r.why = "none" /\ r.expected = {InitType(s)}
               /\ r.kex = EngineOf(s) /\ r.key = KeyOf(s) /\ r.local = DownOf(s) /\ r.remote = UpOf(s)
               /\ r.x = x /\ r.f = v /\ r.p = None /\ r.session = s.earlier
<1>1. "server" \in Sides
  BY DEF Sides
<1>2. PICK a : a = Agreed(s, "server")
  OBVIOUS
<1>3. Prepared(s, x, v) = [[[a EXCEPT !.x = x] EXCEPT !.f = v] EXCEPT !.expected = {InitType(s)}]
  BY <1>2 DEF Prepared, Expecting
<1>4. DOMAIN a = EndFields
  BY <1>2, DomainKept
<1> QED
  BY <1>1, <1>2, <1>3, <1>4, AgreedFacts DEF EndFields

LEMMA ReadyFacts ==
    ASSUME NEW s \in Settings
    PROVE  LET r == Ready(s)
           IN  /\ DOMAIN r = EndFields
               /\ r.pc = "wait" /\ r.why = "none" /\ r.expected = RequestTypes(s)
               /\ r.kex = EngineOf(s) /\ r.key = KeyOf(s) /\ r.local = DownOf(s) /\ r.remote = UpOf(s)
               /\ r.bits = ClassBits /\ r.x = None /\ r.p = None /\ r.session = s.earlier
<1>1. "server" \in Sides
  BY DEF Sides
<1>2. PICK a : a = Agreed(s, "server")
  OBVIOUS
<1>3. Ready(s) = [a EXCEPT !.expected = RequestTypes(s)]
  BY <1>2 DEF Ready, Expecting
<1>4. DOMAIN a = EndFields
  BY <1>2, DomainKept
<1> QED
  BY <1>1, <1>2, <1>3, <1>4, AgreedFacts DEF EndFields

LEMMA GrantedFacts ==
    ASSUME NEW s \in Settings
    PROVE  LET r == Granted(s)
           IN  /\ DOMAIN r = EndFields
               /\ r.pc = "wait" /\ r.why = "none" /\ r.expected = {InitType(s)}
               /\ r.kex = EngineOf(s) /\ r.key = KeyOf(s) /\ r.local = DownOf(s) /\ r.remote = UpOf(s)
               /\ r.bits = GrantedBits(s) /\ r.x = None /\ r.p = PrimeOf(s) /\ r.session = s.earlier
<1>1. PICK a : a = Ready(s)
  OBVIOUS
<1>2. Granted(s) =
          [[[a EXCEPT !.bits = GrantedBits(s)] EXCEPT !.p = PrimeOf(s)] EXCEPT !.expected = {InitType(s)}]
  BY <1>1 DEF Granted, Expecting
<1> QED
  BY <1>1, <1>2, ReadyFacts DEF EndFields

-----------------------------------------------------------------------------
(* Packets on their way.                                                    *)
LEMMA GuessedIs ==
    ASSUME NEW s \in Settings
    PROVE  \/ s.guess = "none" /\ Guessed(s) = <<>>
           \/ s.guess = "gex" /\ Guessed(s) = <<[type |-> "GEX_REQUEST"]>>
           \/ s.guess = "gssgex" /\ Guessed(s) = <<[type |-> "GSS_GROUPREQ"]>>
BY SettingFacts DEF Guessed

(* The first packet is read, the rest stays.                                *)
LEMMA HeadTailOf ==
    ASSUME NEW S, NEW k \in S, NEW q \in Seq(S)
    PROVE  LET w == <<k>> \o q IN w # <<>> /\ Head(w) = k /\ Tail(w) = q
<1>0. <<k>> \in Seq(S) /\ Len(<<k>>) = 1 /\ <<k>>[1] = k
  OBVIOUS
<1>1. PICK w : w = <<k>> \o q
  OBVIOUS
<1>2. w \in Seq(S) /\ Len(w) = 1 + Len(q) /\ w[1] = k /\ \A i \in 1 .. Len(q) : w[i + 1] = q[i]
  BY <1>0, <1>1, ConcatProperties
<1>3. w # <<>> /\ Head(w) = k
  BY <1>2
<1>4. Tail(w) \in Seq(S) /\ Len(Tail(w)) = Len(q) /\ \A i \in 1 .. Len(q) : Tail(w)[i] = q[i]
  BY <1>2
<1>5. Tail(w) = q
  BY <1>4, SeqEqual
<1> QED
  BY <1>1, <1>3, <1>5

(* The packets of a queue are some set's.                                   *)
LEMMA QueueParts ==
    ASSUME NEW s \in Settings, NEW S, NEW q \in AtMostOne(S), NEW k, NEW a
    PROVE  \E P : /\ <<k>> \in Seq(P) /\ Guessed(s) \in Seq(P) /\ q \in Seq(P)
                 /\ <<>> \in Seq(P) /\ <<a>> \in Seq(P) /\ k \in P /\ a \in P
<1>1. PICK g : Guessed(s) = <<>> \/ Guessed(s) = <<g>>
  BY GuessedIs
<1>2. PICK b : q = <<>> \/ q = <<b>>
  BY DEF AtMostOne
<1>3. /\ <<k>> \in Seq({k, a, b, g}) /\ <<a>> \in Seq({k, a, b, g}) /\ <<>> \in Seq({k, a, b, g})
      /\ <<b>> \in Seq({k, a, b, g}) /\ <<g>> \in Seq({k, a, b, g})
  OBVIOUS
<1>4. q \in Seq({k, a, b, g}) /\ Guessed(s) \in Seq({k, a, b, g})
  BY <1>1, <1>2, <1>3
<1> QED
  BY <1>3, <1>4

LEMMA StartQueue ==
    ASSUME NEW s \in Settings, NEW k, NEW S, NEW q \in AtMostOne(S)
    PROVE  LET w == <<k>> \o Guessed(s) \o q
           IN  w # <<>> /\ Head(w) = k /\ Tail(w) = Guessed(s) \o q
<1>1. PICK P : <<k>> \in Seq(P) /\ Guessed(s) \in Seq(P) /\ q \in Seq(P) /\ k \in P
  BY QueueParts
<1>2. (<<k>> \o Guessed(s)) \o q = <<k>> \o (Guessed(s) \o q)
  BY <1>1, ConcatAssociative
<1>3. Guessed(s) \o q \in Seq(P)
  BY <1>1, ConcatProperties
<1> QED
  BY <1>1, <1>2, <1>3, HeadTailOf

LEMMA QueueGrows ==
    ASSUME NEW s \in Settings, NEW k, NEW a
    PROVE  /\ (<<k>> \o Guessed(s) \o <<>>) \o <<a>> = <<k>> \o Guessed(s) \o <<a>>
           /\ (Guessed(s) \o <<>>) \o <<a>> = Guessed(s) \o <<a>>
<1>1. <<>> \in AtMostOne({})
  BY DEF AtMostOne
<1>2. PICK P : <<k>> \in Seq(P) /\ Guessed(s) \in Seq(P)
  BY <1>1, QueueParts
<1>3. <<k>> \o Guessed(s) \in Seq(P)
  BY <1>2, ConcatProperties
<1>4. Guessed(s) \o <<>> = Guessed(s)
  BY <1>2, ConcatEmptySeq
<1>5. (<<k>> \o Guessed(s)) \o <<>> = <<k>> \o Guessed(s)
  BY <1>3, ConcatEmptySeq
<1> QED
  BY <1>4, <1>5

(* Without a guess a server reads what is next; a guess is never what it expects. *)
LEMMA QueueHead ==
    ASSUME NEW s \in Settings, NEW S, NEW q \in AtMostOne(S)
    PROVE  /\ s.guess = "none" => Guessed(s) \o q = q
           /\ s.guess # "none" =>
                /\ Guessed(s) \o q # <<>>
                /\ Head(Guessed(s) \o q).type \in {"GEX_REQUEST", "GSS_GROUPREQ"}
                /\ EngineOf(s) \in GroupEngines =>
                     Head(Guessed(s) \o q).type \notin RequestTypes(s)
<1>1. q = <<>> \/ \E a : q = <<a>>
  BY DEF AtMostOne
<1>2. CASE s.guess = "none"
  <2>1. Guessed(s) = <<>>
    BY <1>2, GuessedIs
  <2>2. <<>> \o q = q
    BY <1>1
  <2> QED
    BY <1>2, <2>1, <2>2
<1>3. CASE s.guess # "none"
  <2>1. PICK a : Guessed(s) = <<a>> /\ \/ s.guess = "gex" /\ a.type = "GEX_REQUEST"
                                       \/ s.guess = "gssgex" /\ a.type = "GSS_GROUPREQ"
    BY <1>3, GuessedIs
  <2>2. <<a>> \o q # <<>> /\ Head(<<a>> \o q) = a
    BY <1>1
  <2> QED
    BY <1>3, <2>1, <2>2, SettingFacts DEF RequestTypes, GroupEngines
<1> QED
  BY <1>2, <1>3

-----------------------------------------------------------------------------
(* What the parts of an action do.                                          *)
LEMMA SidesFacts ==
    /\ "client" \in Sides /\ "server" \in Sides
    /\ Peer("client") = "server" /\ Peer("server") = "client"
    /\ \A e \in Sides : (e = "client" \/ e = "server") /\ Peer(e) \in Sides /\ Peer(e) # e
BY DEF Sides, Peer

LEMMA OneAtMost ==
    ASSUME NEW w, w = <<>> \/ \E m : w = <<m>>
    PROVE  \E P : w \in Seq(P)
<1>1. CASE w = <<>>
  <2>1. w \in Seq({})
    BY <1>1
  <2> QED
    BY <2>1
<1>2. CASE \E m : w = <<m>>
  <2>1. PICK m : w = <<m>>
    BY <1>2
  <2>2. w \in Seq({m})
    BY <2>1
  <2> QED
    BY <2>2
<1> QED
  BY <1>1, <1>2

(* A queue that somebody reads is a sequence.                               *)
LEMMA NothingAdded ==
    ASSUME ExchangeInv, NEW e \in Sides, t[e].pc = "wait"
    PROVE  wire[e] \o <<>> = wire[e]
<1> DEFINE s == setting
<1>0. s \in Settings
  BY DEF ExchangeInv
<1>1. SUFFICES \E P : wire[e] \in Seq(P)
  BY ConcatEmptySeq
<1>2. CASE e = "client"
  <2>1. wire[e] = <<>> \/ \E m : wire[e] = <<m>>
    BY <1>2 DEF ExchangeInv, ClientWaits
  <2> QED
    BY <2>1, OneAtMost
<1>3. CASE e = "server"
  <2>1. ServerWaits(s, t[e], wire[e])
    BY <1>3 DEF ExchangeInv
  <2>2. CASE \E q \in AtMostOne(Firsts(s)) : AtStart(s, t[e], wire[e], q)
    <3>1. PICK q \in AtMostOne(Firsts(s)) : AtStart(s, t[e], wire[e], q)
      BY <2>2
    <3>2. PICK k : k = KexInitOf(s, "client")
      OBVIOUS
    <3>3. PICK P : <<k>> \in Seq(P) /\ Guessed(s) \in Seq(P) /\ q \in Seq(P)
      BY <1>0, QueueParts
    <3>4. Guessed(s) \o q \in Seq(P) /\ (<<k>> \o Guessed(s)) \o q \in Seq(P)
      BY <3>3, ConcatProperties
    <3>5. wire[e] = Guessed(s) \o q \/ wire[e] = (<<k>> \o Guessed(s)) \o q
      BY <3>1, <3>2 DEF AtStart
    <3> QED
      BY <3>4, <3>5
  <2>3. CASE wire[e] \in AtMostOne(Inits(s)) \/ wire[e] = <<>>
    <3>1. wire[e] = <<>> \/ \E m : wire[e] = <<m>>
      BY <2>3 DEF AtMostOne
    <3> QED
      BY <3>1, OneAtMost
  <2> QED
    BY <2>1, <2>2, <2>3 DEF ServerWaits
<1> QED
  BY <1>2, <1>3, SidesFacts

LEMMA GoesFacts ==
    ASSUME ExchangeInv, NEW e \in Sides, NEW r, NEW packets, Goes(e, r, packets)
    PROVE  /\ setting' = setting /\ t'[e] = r /\ t'[Peer(e)] = t[Peer(e)]
           /\ t' = [d \in Sides |-> t'[d]] /\ wire' = [d \in Sides |-> wire'[d]]
           /\ wire'[e] = Tail(wire[e]) /\ wire'[Peer(e)] = wire[Peer(e)] \o packets
<1>1. /\ t = [d \in Sides |-> t[d]] /\ wire = [d \in Sides |-> wire[d]]
  BY DEF ExchangeInv
<1>2. /\ t' = [t EXCEPT ![e] = r] /\ setting' = setting
      /\ wire' = [wire EXCEPT ![e] = Tail(@), ![Peer(e)] = @ \o packets]
  BY DEF Goes
<1> QED
  BY <1>1, <1>2, SidesFacts

LEMMA SoundKept ==
    ASSUME NEW s, NEW e, NEW r, Sound(s, e, r), NEW q,
           DOMAIN q = EndFields, q.kex = r.kex, q.x = r.x, q.p = r.p
    PROVE  Sound(s, e, q)
BY DEF Sound

LEMMA DeadMoves ==
    ASSUME ExchangeInv, NEW e \in Sides, t[e].pc = "wait",
           NEW r, NEW why, Sound(setting, e, r), Reason(setting, e, why), Dies(e, r, why)
    PROVE  OnlyMoves(e) /\ Stopped(e)
<1>1. PICK q : q = [r EXCEPT !.pc = "dead", !.why = why]
  OBVIOUS
<1>2. DOMAIN q = EndFields /\ q.pc = "dead" /\ q.why = why /\ q.kex = r.kex /\ q.x = r.x /\ q.p = r.p
  BY <1>1 DEF Sound, EndFields
<1>3. Goes(e, q, <<>>)
  BY <1>1 DEF Dies
<1>4. Sane(setting, e, q)
  BY <1>2, SoundKept DEF Sane
<1>5. t[Peer(e)].pc = "wait" => wire[Peer(e)] \o <<>> = wire[Peer(e)]
  BY NothingAdded, SidesFacts
<1> QED
  BY <1>2, <1>3, <1>4, <1>5, GoesFacts DEF OnlyMoves, Stopped

LEMMA StopMoves ==
    ASSUME ExchangeInv, NEW e \in Sides, t[e].pc = "wait", NEW pc \in {"dead", "silent"},
           NEW why \in {"eof", "timeout", "none"}, Stops(e, pc, why)
    PROVE  OnlyMoves(e) /\ Stopped(e)
<1>1. PICK q : q = [t[e] EXCEPT !.pc = pc, !.why = why]
  OBVIOUS
<1>2. /\ t = [d \in Sides |-> t[d]] /\ wire = [d \in Sides |-> wire[d]]
      /\ Sane(setting, e, t[e])
  BY DEF ExchangeInv
<1>3. /\ DOMAIN q = EndFields /\ q.pc = pc /\ q.why = why
      /\ q.kex = t[e].kex /\ q.x = t[e].x /\ q.p = t[e].p
      /\ q.key = t[e].key /\ q.local = t[e].local /\ q.remote = t[e].remote
  BY <1>1, <1>2 DEF Sane, Sound, EndFields
<1>4. setting' = setting /\ wire' = wire /\ t'[e] = q /\ t'[Peer(e)] = t[Peer(e)]
      /\ t' = [d \in Sides |-> t'[d]]
  <2>1. t' = [t EXCEPT ![e].pc = pc, ![e].why = why]
    BY DEF Stops
  <2> QED
    BY <1>1, <1>2, <2>1, SidesFacts DEF Stops
<1>5. Sane(setting, e, q)
  <2>1. Sound(setting, e, q)
    BY <1>2, <1>3, SoundKept DEF Sane
  <2>2. Reason(setting, e, q.why)
    BY <1>3 DEF Reason
  <2>3. q.kex = None \/ PicksKept(setting, e, q)
    BY <1>2, <1>3 DEF Sane, PicksKept
  <2> QED
    BY <1>3, <2>1, <2>2, <2>3 DEF Sane
<1> QED
  BY <1>2, <1>3, <1>4, <1>5, SidesFacts DEF OnlyMoves, Stopped

(* What an end may do with a packet other than a KEXINIT goes by its type.  *)
LEMMA Handles ==
    ASSUME NEW e, ParseNext(e)
    PROVE  /\ wire[e] # <<>> /\ Packet(e).type \in t[e].expected
           /\ \/ Packet(e).type = "DH_INIT" /\ ParseDhInit(e)
              \/ Packet(e).type = "DH_REPLY" /\ ParseDhReply(e)
              \/ Packet(e).type = "ECDH_INIT" /\ ParseEcdhInit(e)
              \/ Packet(e).type = "ECDH_REPLY" /\ ParseEcdhReply(e)
              \/ Packet(e).type = "GEX_REQUEST" /\ ParseGexRequest(e)
              \/ Packet(e).type = "GEX_REQUEST_OLD" /\ ParseGexRequestOld(e)
              \/ Packet(e).type = "GEX_GROUP" /\ ParseGexGroup(e)
              \/ Packet(e).type = "GEX_INIT" /\ ParseGexInit(e)
              \/ Packet(e).type = "GEX_REPLY" /\ ParseGexReply(e)
              \/ Packet(e).type = "GSS_GROUPREQ" /\ ParseGssGroupreq(e)
              \/ Packet(e).type = "GSS_GROUP" /\ ParseGssGroup(e)
              \/ Packet(e).type = "GSS_INIT" /\ (ParseGssInit(e) \/ ParseGssGexInit(e))
              \/ Packet(e).type = "GSS_CONTINUE" /\ ParseGssContinue(e)
              \/ Packet(e).type = "GSS_COMPLETE" /\ (ParseGssComplete(e) \/ ParseGssGexComplete(e))
<1>1. ParseDhInit(e) => Receives(e, "DH_INIT")
  BY DEF ParseDhInit
<1>2. ParseDhReply(e) => Receives(e, "DH_REPLY")
  BY DEF ParseDhReply
<1>3. ParseEcdhInit(e) => Receives(e, "ECDH_INIT")
  BY DEF ParseEcdhInit
<1>4. ParseEcdhReply(e) => Receives(e, "ECDH_REPLY")
  BY DEF ParseEcdhReply
<1>5. ParseGexRequest(e) => Receives(e, "GEX_REQUEST")
  BY DEF ParseGexRequest
<1>6. ParseGexRequestOld(e) => Receives(e, "GEX_REQUEST_OLD")
  BY DEF ParseGexRequestOld
<1>7. ParseGexGroup(e) => Receives(e, "GEX_GROUP")
  BY DEF ParseGexGroup
<1>8. ParseGexInit(e) => Receives(e, "GEX_INIT")
  BY DEF ParseGexInit
<1>9. ParseGexReply(e) => Receives(e, "GEX_REPLY")
  BY DEF ParseGexReply
<1>10. ParseGssGroupreq(e) => Receives(e, "GSS_GROUPREQ")
  BY DEF ParseGssGroupreq
<1>11. ParseGssGroup(e) => Receives(e, "GSS_GROUP")
  BY DEF ParseGssGroup
<1>12. ParseGssInit(e) \/ ParseGssGexInit(e) => Receives(e, "GSS_INIT")
  BY DEF ParseGssInit, ParseGssGexInit
<1>13. ParseGssContinue(e) => Receives(e, "GSS_CONTINUE")
  BY DEF ParseGssContinue
<1>14. ParseGssComplete(e) \/ ParseGssGexComplete(e) => Receives(e, "GSS_COMPLETE")
  BY DEF ParseGssComplete, ParseGssGexComplete
<1>15. \A type : Receives(e, type) =>
          wire[e] # <<>> /\ Packet(e).type = type /\ type \in t[e].expected
  BY DEF Receives
<1> QED
  BY <1>1, <1>2, <1>3, <1>4, <1>5, <1>6, <1>7, <1>8, <1>9, <1>10, <1>11, <1>12, <1>13, <1>14,
     <1>15, Zenon DEF ParseNext

LEMMA StartsFirst ==
    ASSUME NEW e, ParseKexInit(e)
    PROVE  Receives(e, "KEXINIT")
BY Zenon DEF ParseKexInit, NothingInCommon, StartGroup, StartEcdh, StartGex, StartGss, StartGssGex, Starts

-----------------------------------------------------------------------------
(* Ends on their way are sane.                                              *)
LEMMA PlainReason ==
    ASSUME NEW s, NEW e,
           NEW why \in {"none", "nothing in common", "size", "no pack", "no moduli", "gss"}
    PROVE  Reason(s, e, why)
BY DEF Reason

LEMMA WaitingSane ==
    ASSUME NEW s \in Settings, NEW e \in Sides, NEW r, DOMAIN r = EndFields,
           r.pc = "wait", r.why = "none", r.expected # {},
           r.kex = EngineOf(s), r.key = KeyOf(s),
           e = "client" => r.local = UpOf(s) /\ r.remote = DownOf(s),
           e = "server" => r.local = DownOf(s) /\ r.remote = UpOf(s),
           r.x \in Exponents \cup {None},
           e = "server" => \/ r.p = None
                           \/ HasPrimes(s) /\ EngineOf(s) \in GroupEngines /\ r.p = PrimeOf(s)
    PROVE  Sane(s, e, r) /\ Sound(s, e, r) /\ PicksKept(s, e, r)
<1>1. Sound(s, e, r)
  BY SettingFacts DEF Sound
<1>2. Reason(s, e, r.why)
  BY PlainReason
<1>3. PicksKept(s, e, r)
  BY SidesFacts DEF PicksKept
<1> QED
  BY <1>1, <1>2, <1>3 DEF Sane

LEMMA AgreedSound ==
    ASSUME NEW s \in Settings, NEW e \in Sides
    PROVE  Sound(s, e, Agreed(s, e))
BY AgreedFacts, DomainKept, SettingFacts DEF Sound

LEMMA FreshSound ==
    ASSUME NEW s \in Settings, NEW e \in Sides
    PROVE  Sound(s, e, Fresh(s))
BY FreshFacts, DomainKept DEF Sound

LEMMA AskedSane ==
    ASSUME NEW s \in Settings
    PROVE  Sane(s, "client", SentRequest(s)) /\ Sound(s, "client", SentRequest(s))
BY SentRequestFacts, WaitingSane, SidesFacts

LEMMA SentSane ==
    ASSUME NEW s \in Settings, NEW x \in Exponents, NEW v
    PROVE  /\ Sane(s, "client", SentInit(s, x, v)) /\ Sound(s, "client", SentInit(s, x, v))
           /\ PicksKept(s, "client", SentInit(s, x, v))
<1>1. RepliesTo(s) # {}
  BY DEF RepliesTo, GssReplies
<1> QED
  BY <1>1, SentFacts, WaitingSane, SidesFacts

LEMMA PreparedSane ==
    ASSUME NEW s \in Settings, NEW x \in Exponents, NEW v
    PROVE  /\ Sane(s, "server", Prepared(s, x, v)) /\ Sound(s, "server", Prepared(s, x, v))
           /\ PicksKept(s, "server", Prepared(s, x, v))
BY PreparedFacts, WaitingSane, SidesFacts

LEMMA ReadySane ==
    ASSUME NEW s \in Settings
    PROVE  Sane(s, "server", Ready(s)) /\ Sound(s, "server", Ready(s))
<1>1. RequestTypes(s) # {}
  BY DEF RequestTypes
<1> QED
  BY <1>1, ReadyFacts, WaitingSane, SidesFacts

LEMMA GrantedSane ==
    ASSUME NEW s \in Settings, HasPrimes(s), EngineOf(s) \in GroupEngines
    PROVE  /\ Sane(s, "server", Granted(s)) /\ Sound(s, "server", Granted(s))
           /\ PicksKept(s, "server", Granted(s))
BY GrantedFacts, WaitingSane, SidesFacts

-----------------------------------------------------------------------------
(* A KEXINIT is read.                                                       *)
LEMMA AgreementIs ==
    ASSUME NEW e \in Sides, t[e] = Fresh(setting),
           Packet(e) = KexInitOf(setting, Peer(e))
    PROVE  Agreement(e) = Agreed(setting, e)
BY DEF Agreement, Agreed, ListsOf

LEMMA Disagrees ==
    ASSUME ExchangeInv, NEW e \in Sides, t[e] = Fresh(setting),
           Packet(e) = KexInitOf(setting, Peer(e)), NothingInCommon(e)
    PROVE  OnlyMoves(e) /\ Stopped(e)
<1>1. Dies(e, Agreed(setting, e), "nothing in common")
  BY AgreementIs DEF NothingInCommon
<1>2. setting \in Settings /\ t[e].pc = "wait"
  BY FreshFacts DEF ExchangeInv
<1> QED
  BY <1>1, <1>2, DeadMoves, PlainReason, AgreedSound

LEMMA StartsEngine ==
    ASSUME NEW e \in Sides, t[e] = Fresh(setting), setting \in Settings,
           Packet(e) = KexInitOf(setting, Peer(e)), NEW engine, Starts(e, engine)
    PROVE  EngineOf(setting) = engine
BY AgreementIs, AgreedFacts DEF Starts

(* The kinds of engine, by name.                                            *)
LEMMA TypesOf ==
    ASSUME NEW s
    PROVE  /\ EngineOf(s) = "group" =>
                InitType(s) = "DH_INIT" /\ ReplyType(s) = "DH_REPLY" /\ RepliesTo(s) = {"DH_REPLY"}
           /\ EngineOf(s) = "ecdh" =>
                InitType(s) = "ECDH_INIT" /\ ReplyType(s) = "ECDH_REPLY" /\ RepliesTo(s) = {"ECDH_REPLY"}
           /\ EngineOf(s) = "gex" =>
                /\ InitType(s) = "GEX_INIT" /\ ReplyType(s) = "GEX_REPLY" /\ RepliesTo(s) = {"GEX_REPLY"}
                /\ GroupType(s) = "GEX_GROUP" /\ RequestTypes(s) = {"GEX_REQUEST", "GEX_REQUEST_OLD"}
           /\ EngineOf(s) = "gss" =>
                InitType(s) = "GSS_INIT" /\ ReplyType(s) = "GSS_COMPLETE" /\ RepliesTo(s) = GssReplies
           /\ EngineOf(s) = "gssgex" =>
                /\ InitType(s) = "GSS_INIT" /\ ReplyType(s) = "GSS_COMPLETE" /\ RepliesTo(s) = GssReplies
                /\ GroupType(s) = "GSS_GROUP" /\ RequestTypes(s) = {"GSS_GROUPREQ"}
BY DEF InitType, ReplyType, RepliesTo, SignedEngines, GroupType, RequestTypes

LEMMA ClientStartsWith ==
    ASSUME ExchangeInv, t["client"] = Fresh(setting),
           wire["client"] = <<KexInitOf(setting, "server")>>,
           EngineOf(setting) \in FixedEngines,
           StartsWith("client", InitType(setting), RepliesTo(setting))
    PROVE  ClientMoves
<1> DEFINE s == setting
           w == wire["server"]
<1>1. s \in Settings /\ t["client"].pc = "wait" /\ Peer("client") = "server" /\ "client" \in Sides
  BY FreshFacts, SidesFacts DEF ExchangeInv
<1>2. Packet("client") = KexInitOf(s, Peer("client"))
  BY <1>1 DEF Packet
<1>3. Agreement("client") = Agreed(s, "client")
  BY <1>1, <1>2, AgreementIs
<1>4. PICK x \in Exponents : \E v \in Sent("client", x) :
        Goes("client", Expecting([[Agreed(s, "client") EXCEPT !.x = x] EXCEPT !.e = v], RepliesTo(s)),
             <<[type |-> InitType(s), value |-> v]>>)
  BY <1>3 DEF StartsWith
<1>4a. PICK v \in Sent("client", x) :
        Goes("client", Expecting([[Agreed(s, "client") EXCEPT !.x = x] EXCEPT !.e = v], RepliesTo(s)),
             <<[type |-> InitType(s), value |-> v]>>)
  BY <1>4
<1>5. v \in Values(s, "client", x)
  BY DEF Values, Sent
<1>6. Goes("client", SentInit(s, x, v), <<InitWith(s, v)>>)
  BY <1>4a DEF SentInit, SentFixed, InitWith
<1>7. /\ t'["client"] = SentInit(s, x, v) /\ wire'["client"] = Tail(wire["client"])
      /\ wire'["server"] = wire["server"] \o <<InitWith(s, v)>>
      /\ setting' = setting /\ t'["server"] = t["server"]
      /\ t' = [d \in Sides |-> t'[d]] /\ wire' = [d \in Sides |-> wire'[d]]
  <2> HIDE DEF s
  <2> QED BY <1>1, <1>6, GoesFacts
<1>8. wire'["client"] = <<>>
  BY <1>7
<1>9. OnlyMoves("client")
  BY <1>1, <1>7, SentSane DEF OnlyMoves
<1>10. SendsInit
  BY <1>5, <1>7, <1>8 DEF SendsInit
<1> QED
  BY <1>9, <1>10 DEF ClientMoves

LEMMA ClientAsks ==
    ASSUME ExchangeInv, t["client"] = Fresh(setting),
           wire["client"] = <<KexInitOf(setting, "server")>>,
           StartGex("client") \/ StartGssGex("client")
    PROVE  ClientMoves
<1> DEFINE s == setting
<1>1. s \in Settings /\ t["client"].pc = "wait" /\ Peer("client") = "server" /\ "client" \in Sides
  BY FreshFacts, SidesFacts DEF ExchangeInv
<1>2. Packet("client") = KexInitOf(s, Peer("client"))
  BY <1>1 DEF Packet
<1>3. Agreement("client") = Agreed(s, "client")
  BY <1>1, <1>2, AgreementIs
<1>4. EngineOf(s) \in GroupEngines /\ Goes("client", SentRequest(s), <<RequestOf(s)>>)
  <2>1. CASE StartGex("client")
    <3>1. EngineOf(s) = "gex"
      BY <1>1, <1>2, <2>1, StartsEngine DEF StartGex
    <3>2. AskedBits(s) = s.request /\ GroupType(s) = "GEX_GROUP"
          /\ RequestOf(s) = [type |-> IF s.request.old THEN "GEX_REQUEST_OLD" ELSE "GEX_REQUEST",
                             bits |-> s.request]
      BY <3>1 DEF AskedBits, GroupType, RequestOf
    <3>3. Goes("client", Expecting([Agreed(s, "client") EXCEPT !.bits = s.request], {"GEX_GROUP"}),
               <<[type |-> IF s.request.old THEN "GEX_REQUEST_OLD" ELSE "GEX_REQUEST",
                  bits |-> s.request]>>)
      BY <1>3, <2>1 DEF StartGex
    <3> QED
      BY <3>1, <3>2, <3>3 DEF SentRequest, GroupEngines
  <2>2. CASE StartGssGex("client")
    <3>1. EngineOf(s) = "gssgex"
      BY <1>1, <1>2, <2>2, StartsEngine DEF StartGssGex
    <3>2. AskedBits(s) = [s.request EXCEPT !.old = FALSE] /\ GroupType(s) = "GSS_GROUP"
          /\ RequestOf(s) = [type |-> "GSS_GROUPREQ", bits |-> [s.request EXCEPT !.old = FALSE]]
      BY <3>1 DEF AskedBits, GroupType, RequestOf
    <3>3. Goes("client", Expecting([Agreed(s, "client") EXCEPT !.bits = [s.request EXCEPT !.old = FALSE]],
                                   {"GSS_GROUP"}),
               <<[type |-> "GSS_GROUPREQ", bits |-> [s.request EXCEPT !.old = FALSE]]>>)
      BY <1>3, <2>2 DEF StartGssGex
    <3> QED
      BY <3>1, <3>2, <3>3 DEF SentRequest, GroupEngines
  <2> QED
    BY <2>1, <2>2
<1>5. /\ t'["client"] = SentRequest(s) /\ wire'["client"] = Tail(wire["client"])
      /\ wire'["server"] = wire["server"] \o <<RequestOf(s)>>
      /\ setting' = setting /\ t'["server"] = t["server"]
      /\ t' = [d \in Sides |-> t'[d]] /\ wire' = [d \in Sides |-> wire'[d]]
  <2> HIDE DEF s
  <2> QED BY <1>1, <1>4, GoesFacts
<1>6. wire'["client"] = <<>>
  BY <1>5
<1>7. OnlyMoves("client")
  BY <1>1, <1>5, AskedSane DEF OnlyMoves
<1> QED
  BY <1>4, <1>5, <1>6, <1>7 DEF ClientMoves

LEMMA ClientStarts ==
    ASSUME ExchangeInv, t["client"] = Fresh(setting),
           wire["client"] = <<KexInitOf(setting, "server")>>, ParseKexInit("client")
    PROVE  ClientMoves
<1>1. setting \in Settings /\ "client" \in Sides /\ Peer("client") = "server"
  BY SidesFacts DEF ExchangeInv
<1>2. Packet("client") = KexInitOf(setting, Peer("client"))
  BY <1>1 DEF Packet
<1>3. CASE NothingInCommon("client")
  BY <1>1, <1>2, <1>3, Disagrees DEF ClientMoves
<1>4. CASE StartGroup("client") \/ StartEcdh("client") \/ StartGss("client")
  <2>1. CASE StartGroup("client")
    <3>1. EngineOf(setting) = "group"
      BY <1>1, <1>2, <2>1, StartsEngine DEF StartGroup
    <3> QED
      BY <2>1, <3>1, TypesOf, ClientStartsWith DEF StartGroup, FixedEngines
  <2>2. CASE StartEcdh("client")
    <3>1. EngineOf(setting) = "ecdh"
      BY <1>1, <1>2, <2>2, StartsEngine DEF StartEcdh
    <3> QED
      BY <2>2, <3>1, TypesOf, ClientStartsWith DEF StartEcdh, FixedEngines
  <2>3. CASE StartGss("client")
    <3>1. EngineOf(setting) = "gss"
      BY <1>1, <1>2, <2>3, StartsEngine DEF StartGss
    <3> QED
      BY <2>3, <3>1, TypesOf, ClientStartsWith DEF StartGss, FixedEngines
  <2> QED
    BY <1>4, <2>1, <2>2, <2>3
<1>5. CASE StartGex("client") \/ StartGssGex("client")
  BY <1>5, ClientAsks
<1> QED
  BY <1>3, <1>4, <1>5 DEF ParseKexInit

-----------------------------------------------------------------------------
(* The client has the prime.                                                *)
LEMMA ClientTakesGroup ==
    ASSUME ExchangeInv, t["client"] = SentRequest(setting), EngineOf(setting) \in GroupEngines,
           wire["client"] = <<GroupOf(setting)>>,
           TakesGroup("client", InitType(setting), RepliesTo(setting))
    PROVE  ClientMoves
<1> DEFINE s == setting
<1>1. s \in Settings /\ t["client"].pc = "wait" /\ Peer("client") = "server" /\ "client" \in Sides
  BY SentRequestFacts, SidesFacts DEF ExchangeInv
<1>2. Packet("client").p = PrimeOf(s)
  BY DEF Packet, GroupOf
<1>3. PICK r : r = [SentRequest(s) EXCEPT !.p = PrimeOf(s)]
  OBVIOUS
<1>4. EngineOf(s) \notin FixedEngines
  BY DEF GroupEngines, FixedEngines
<1>5. CASE Dies("client", r, "size")
  <2>1. Sound(s, "client", r)
    BY <1>1, <1>3, SentRequestFacts, SettingFacts DEF Sound, EndFields
  <2>2. OnlyMoves("client") /\ Stopped("client")
    BY <1>1, <1>5, <2>1, DeadMoves, PlainReason
  <2> QED
    BY <2>2 DEF ClientMoves
<1>6. CASE \E x \in Exponents : \E v \in Sent("client", x) :
             Goes("client", Expecting([r EXCEPT !.x = x, !.e = v], RepliesTo(s)),
                  <<[type |-> InitType(s), value |-> v]>>)
  <2>1. PICK x \in Exponents : \E v \in Sent("client", x) :
             Goes("client", Expecting([r EXCEPT !.x = x, !.e = v], RepliesTo(s)),
                  <<[type |-> InitType(s), value |-> v]>>)
    BY <1>6
  <2>2. PICK v \in Sent("client", x) :
             Goes("client", Expecting([r EXCEPT !.x = x, !.e = v], RepliesTo(s)),
                  <<[type |-> InitType(s), value |-> v]>>)
    BY <2>1
  <2>3. v \in Values(s, "client", x)
    BY DEF Values, Sent
  <2>4. Goes("client", SentInit(s, x, v), <<InitWith(s, v)>>)
    BY <1>3, <1>4, <2>2 DEF SentInit, SentGroup, InitWith
  <2>5. /\ t'["client"] = SentInit(s, x, v) /\ wire'["client"] = Tail(wire["client"])
        /\ wire'["server"] = wire["server"] \o <<InitWith(s, v)>>
        /\ setting' = setting /\ t'["server"] = t["server"]
        /\ t' = [d \in Sides |-> t'[d]] /\ wire' = [d \in Sides |-> wire'[d]]
    <3> HIDE DEF s
    <3> QED BY <1>1, <2>4, GoesFacts
  <2>6. wire'["client"] = <<>>
    BY <2>5
  <2>7. OnlyMoves("client")
    BY <1>1, <2>5, SentSane DEF OnlyMoves
  <2>8. SendsInit
    BY <2>3, <2>5, <2>6 DEF SendsInit
  <2> QED
    BY <2>7, <2>8 DEF ClientMoves
<1> QED
  BY <1>2, <1>3, <1>5, <1>6 DEF TakesGroup

LEMMA ClientReadsGroup ==
    ASSUME ExchangeInv, t["client"] = SentRequest(setting), EngineOf(setting) \in GroupEngines,
           wire["client"] = <<GroupOf(setting)>>, ParseNext("client")
    PROVE  ClientMoves
<1>1. setting \in Settings
  BY DEF ExchangeInv
<1>2. Packet("client").type = GroupType(setting)
  BY DEF Packet, GroupOf
<1>3. CASE EngineOf(setting) = "gex"
  <2>1. ParseGexGroup("client")
    BY <1>2, <1>3, TypesOf, Handles
  <2> QED
    BY <1>3, <2>1, TypesOf, ClientTakesGroup DEF ParseGexGroup
<1>4. CASE EngineOf(setting) = "gssgex"
  <2>1. ParseGssGroup("client")
    BY <1>2, <1>4, TypesOf, Handles
  <2> QED
    BY <1>4, <2>1, TypesOf, ClientTakesGroup DEF ParseGssGroup
<1> QED
  BY <1>3, <1>4 DEF GroupEngines

-----------------------------------------------------------------------------
(* An end has K and H.                                                      *)
LEMMA SecretFacts ==
    ASSUME NEW r, DOMAIN r = EndFields, NEW K, NEW H
    PROVE  LET q == WithSecret(r, K, H)
           IN  /\ DOMAIN q = EndFields /\ q.K = K /\ q.H = H
               /\ q.session = IF r.session = None THEN H ELSE r.session
               /\ q.pc = r.pc /\ q.why = r.why /\ q.kex = r.kex /\ q.key = r.key
               /\ q.local = r.local /\ q.remote = r.remote /\ q.x = r.x /\ q.p = r.p
               /\ q.e = r.e /\ q.f = r.f
BY DEF WithSecret, EndFields

LEMMA FinishMoves ==
    ASSUME ExchangeInv, NEW e \in Sides, t[e].pc = "wait",
           NEW r, Sound(setting, e, r), PicksKept(setting, e, r), r.why = "none",
           NEW packets, Finishes(e, r, packets)
    PROVE  /\ OnlyMoves(e) /\ t'[e].pc = "done" /\ t'[e].kex = r.kex
           /\ t'[e].K = r.K /\ t'[e].H = r.H /\ t'[e].session = r.session
           /\ wire'[e] = Tail(wire[e]) /\ wire'[Peer(e)] = wire[Peer(e)] \o packets
<1>1. PICK q : q = [r EXCEPT !.pc = "done", !.expected = {"NEWKEYS"}]
  OBVIOUS
<1>2. /\ DOMAIN q = EndFields /\ q.pc = "done" /\ q.why = "none"
      /\ q.kex = r.kex /\ q.x = r.x /\ q.p = r.p
      /\ q.key = r.key /\ q.local = r.local /\ q.remote = r.remote
      /\ q.K = r.K /\ q.H = r.H /\ q.session = r.session
  BY <1>1 DEF Sound, EndFields
<1>3. Goes(e, q, packets)
  BY <1>1 DEF Finishes
<1>4. Sane(setting, e, q)
  <2>1. Sound(setting, e, q)
    BY <1>2, SoundKept
  <2>2. PicksKept(setting, e, q)
    BY <1>2 DEF PicksKept
  <2> QED
    BY <1>2, <2>1, <2>2, PlainReason DEF Sane
<1> QED
  BY <1>2, <1>3, <1>4, GoesFacts DEF OnlyMoves

(* The value of an end is its own, or out of range.                         *)
LEMMA ValueIs ==
    ASSUME NEW s, NEW e, NEW x, NEW v \in Values(s, e, x), v # 0
    PROVE  v = x
BY DEF Values

LEMMA SharedSame ==
    ASSUME NEW s \in Settings, NEW x \in Exponents, NEW y \in Exponents
    PROVE  Shared(x, y) = Shared(y, x)
<1>1. x \in Nat /\ y \in Nat
  BY SettingFacts
<1> QED
  BY <1>1 DEF Shared

(* Both ends hash the same, if the request was granted as it is.            *)
LEMMA HashSame ==
    ASSUME NEW s \in Settings, NEW e, NEW f, NEW K,
           EngineOf(s) \in FixedEngines \/ (EngineOf(s) \in GroupEngines /\ Fits(s))
    PROVE  HashOf(s, AskedBits(s), e, f, K) = HashOf(s, GrantedBits(s), e, f, K)
<1>1. CASE EngineOf(s) \in FixedEngines
  BY <1>1 DEF HashOf
<1>2. CASE EngineOf(s) \in GroupEngines /\ Fits(s)
  BY <1>2, FitsGranted DEF HashOf
<1> QED
  BY <1>1, <1>2

-----------------------------------------------------------------------------
(* The client has the answer of the server.                                 *)
ClientHash(s, v, f, x) == HashOf(s, AskedBits(s), v, f, Shared(f, x))

Told(s, x, v, f) == [SentInit(s, x, v) EXCEPT !.f = f]

LEMMA ClientHashes ==
    ASSUME NEW s \in Settings, NEW x \in Exponents, NEW v, NEW f, NEW r,
           r = Told(s, x, v, f)
    PROVE  /\ DOMAIN r = EndFields /\ r.x = x /\ r.f = f /\ r.e = v
           /\ r.kex = EngineOf(s) /\ r.key = KeyOf(s) /\ r.session = s.earlier /\ r.why = "none"
           /\ Sound(s, "client", r) /\ PicksKept(s, "client", r)
           /\ EngineOf(s) \in {"group", "ecdh"} =>
                GroupHash(r, Shared(r.f, r.x)) = ClientHash(s, v, f, x)
           /\ EngineOf(s) = "gex" => GexHash(r, Shared(r.f, r.x)) = ClientHash(s, v, f, x)
           /\ EngineOf(s) = "gss" => GssHash(r, Shared(r.f, r.x)) = ClientHash(s, v, f, x)
           /\ EngineOf(s) = "gssgex" => GssGexHash(r, Shared(r.f, r.x)) = ClientHash(s, v, f, x)
<1>1. PICK c : c = SentInit(s, x, v)
  OBVIOUS
<1>2. /\ DOMAIN c = EndFields /\ c.x = x /\ c.e = v /\ c.kex = EngineOf(s) /\ c.key = KeyOf(s)
      /\ c.session = s.earlier /\ c.why = "none"
      /\ EngineOf(s) \notin FixedEngines => c.bits = AskedBits(s) /\ c.p = PrimeOf(s)
  BY <1>1, SentFacts
<1>3. /\ DOMAIN r = EndFields /\ r.x = x /\ r.f = f /\ r.e = v /\ r.p = c.p /\ r.bits = c.bits
      /\ r.kex = c.kex /\ r.key = c.key /\ r.session = s.earlier /\ r.why = "none"
      /\ r.local = c.local /\ r.remote = c.remote
  BY <1>1, <1>2 DEF EndFields, Told
<1>4. Sound(s, "client", c) /\ PicksKept(s, "client", c)
  BY <1>1, SentSane
<1>5. Sound(s, "client", r)
  BY <1>2, <1>3, <1>4, SoundKept
<1>6. PicksKept(s, "client", r)
  BY <1>3, <1>4 DEF PicksKept
<1>7. EngineOf(s) \in {"group", "ecdh"} =>
        GroupHash(r, Shared(r.f, r.x)) = ClientHash(s, v, f, x)
  BY <1>2, <1>3 DEF GroupHash, ClientHash, HashOf, FixedEngines, SignedEngines
<1>8. EngineOf(s) = "gss" => GssHash(r, Shared(r.f, r.x)) = ClientHash(s, v, f, x)
  BY <1>2, <1>3 DEF GssHash, ClientHash, HashOf, FixedEngines, SignedEngines
<1>9. EngineOf(s) = "gex" => GexHash(r, Shared(r.f, r.x)) = ClientHash(s, v, f, x)
  BY <1>2, <1>3 DEF GexHash, BitsHashed, ClientHash, HashOf, FixedEngines, SignedEngines
<1>10. EngineOf(s) = "gssgex" => GssGexHash(r, Shared(r.f, r.x)) = ClientHash(s, v, f, x)
  BY <1>2, <1>3 DEF GssGexHash, BitsHashed, ClientHash, HashOf, FixedEngines, SignedEngines
<1> QED
  BY <1>2, <1>3, <1>5, <1>6, <1>7, <1>8, <1>9, <1>10

(* What the client makes of an answer m of the server.                      *)
LEMMA ClientConcludes ==
    ASSUME ExchangeInv, NEW x \in Exponents, NEW v \in Values(setting, "client", x),
           t["client"] = SentInit(setting, x, v), EngineOf(setting) \in Engines,
           NEW m, wire["client"] = <<m>>, HasAnswered(setting, t["server"], v, m),
           ParseNext("client")
    PROVE  ClientMoves
<1> DEFINE s == setting
           c == t["client"]
           sr == t["server"]
<1>1. s \in Settings /\ c.pc = "wait" /\ Peer("client") = "server" /\ "client" \in Sides
  BY SentFacts, SidesFacts DEF ExchangeInv
<1>2. PICK y \in Exponents : \E f \in Values(s, "server", y) :
        LET K == Shared(v, y)
            H == HashOf(s, GrantedBits(s), v, f, K)
        IN  /\ sr.pc = "done" /\ v # 0
            /\ sr.K = K /\ sr.H = H /\ sr.session = SessionOf(s, H)
            /\ m = ReplyWith(s, f, H)
  BY DEF HasAnswered
<1>3. PICK f \in Values(s, "server", y) :
        /\ sr.pc = "done" /\ v # 0
        /\ sr.K = Shared(v, y) /\ sr.H = HashOf(s, GrantedBits(s), v, f, Shared(v, y))
        /\ sr.session = SessionOf(s, sr.H) /\ m = ReplyWith(s, f, sr.H)
  BY <1>2
<1>4. Packet("client") = m /\ m.type = ReplyType(s) /\ m.value = f
  BY <1>3 DEF Packet, ReplyWith
<1>5. PICK r : r = [c EXCEPT !.f = f]
  OBVIOUS
<1>5a. r = Told(s, x, v, f)
  BY <1>5 DEF Told
<1>6. PICK H : H = ClientHash(s, v, f, x)
  OBVIOUS
<1>7. /\ DOMAIN r = EndFields /\ r.x = x /\ r.f = f /\ r.e = v /\ r.kex = EngineOf(s)
      /\ r.session = s.earlier /\ r.why = "none"
      /\ Sound(s, "client", r) /\ PicksKept(s, "client", r)
  BY <1>1, <1>5a, ClientHashes
<1>8. PICK done : done = WithSecret(r, Shared(f, x), H)
  OBVIOUS
<1>9. /\ DOMAIN done = EndFields /\ done.K = Shared(f, x) /\ done.H = H
      /\ done.session = SessionOf(s, H) /\ done.why = "none"
      /\ Sound(s, "client", done) /\ PicksKept(s, "client", done)
  <2>1. /\ DOMAIN done = EndFields /\ done.K = Shared(f, x) /\ done.H = H
        /\ done.session = (IF r.session = None THEN H ELSE r.session) /\ done.why = "none"
        /\ done.kex = r.kex /\ done.key = r.key /\ done.local = r.local /\ done.remote = r.remote
        /\ done.x = r.x /\ done.p = r.p
    BY <1>7, <1>8, SecretFacts
  <2>2. Sound(s, "client", done)
    BY <1>7, <2>1, SoundKept
  <2>3. PicksKept(s, "client", done)
    BY <1>7, <2>1 DEF PicksKept
  <2> QED
    BY <1>7, <2>1, <2>2, <2>3 DEF SessionOf
<1>10. CASE f = 0 /\ Dies("client", r, "range")
  <2>1. "server" \in s.strange
    <3>1. y # 0
      BY <1>1, SettingFacts
    <3> QED
      BY <1>10, <3>1 DEF Values
  <2>2. Reason(s, "client", "range")
    BY <1>1, <2>1 DEF Reason
  <2> QED
    BY <1>1, <1>7, <1>10, <2>2, DeadMoves DEF ClientMoves
<1>11. f # 0 => Shared(f, x) = sr.K
  <2> SUFFICES ASSUME f # 0 PROVE Shared(f, x) = sr.K
    OBVIOUS
  <2>1. f = y /\ v = x
    BY <1>3, ValueIs
  <2> QED
    BY <1>1, <1>3, <2>1, SharedSame
<1>12. ASSUME f # 0, EngineOf(s) \in FixedEngines \/ (EngineOf(s) \in GroupEngines /\ Fits(s))
       PROVE  H = sr.H
  BY <1>1, <1>3, <1>6, <1>11, <1>12, HashSame DEF ClientHash
<1>13. EngineOf(s) \in FixedEngines \cup GroupEngines
  BY DEF Engines, FixedEngines, GroupEngines
<1>14. ASSUME f # 0, Finishes("client", done, <<>>), done.session = sr.session,
              (EngineOf(s) = "gssgex" => Fits(s) \/ s.earlier = None) => H = sr.H
       PROVE  ClientMoves
  <2>1. /\ OnlyMoves("client") /\ t'["client"].pc = "done" /\ t'["client"].kex = done.kex
        /\ t'["client"].K = done.K /\ t'["client"].H = done.H
        /\ t'["client"].session = done.session
    BY <1>1, <1>9, <1>14, FinishMoves
  <2>2. ClientDone(s, t'["client"], sr)
    BY <1>3, <1>9, <1>11, <1>14, <2>1 DEF ClientDone, PicksKept
  <2> QED
    BY <2>1, <2>2 DEF ClientMoves
<1>15. ASSUME f # 0, EngineOf(s) \in SignedEngines, Concludes("client", r, H)
       PROVE  ClientMoves
  <2>1. m.sig = sr.H
    BY <1>3, <1>15 DEF ReplyWith
  <2>2. WithSecret(r, Shared(r.f, r.x), H) = done
    BY <1>7, <1>8
  <2>3. CASE m.sig = H /\ Finishes("client", done, <<>>)
    BY <1>3, <1>9, <1>14, <1>15, <2>1, <2>3
  <2>4. CASE m.sig # H /\ Dies("client", done, "signature")
    <3>1. ~Fits(s)
      BY <1>12, <1>13, <1>15, <2>1, <2>4
    <3>2. Reason(s, "client", "signature")
      BY <3>1 DEF Reason
    <3> QED
      BY <1>1, <1>9, <2>4, <3>2, DeadMoves DEF ClientMoves
  <2> QED
    BY <1>4, <1>9, <1>15, <2>2, <2>3, <2>4 DEF Concludes, Verifies
<1>16. ASSUME f # 0, EngineOf(s) \in {"gss", "gssgex"}, ChecksMic("client", r, H)
       PROVE  ClientMoves
  <2>1. m.mic = sr.session
    BY <1>3, <1>16 DEF ReplyWith, SignedEngines
  <2>2. WithSecret(r, Shared(r.f, r.x), H) = done
    BY <1>7, <1>8
  <2>3. CASE Dies("client", done, "gss")
    BY <1>1, <1>9, <2>3, DeadMoves, PlainReason DEF ClientMoves
  <2>4. CASE m.mic = done.session /\ Finishes("client", done, <<>>)
    <3>1. (EngineOf(s) = "gssgex" => Fits(s) \/ s.earlier = None) => H = sr.H
      <4>1. CASE EngineOf(s) = "gss"
        BY <1>12, <1>16, <4>1 DEF FixedEngines
      <4>2. CASE EngineOf(s) = "gssgex" /\ Fits(s)
        BY <1>12, <1>16, <4>2 DEF GroupEngines
      <4>3. CASE EngineOf(s) = "gssgex" /\ s.earlier = None
        BY <1>3, <1>9, <2>1, <2>4, <4>3 DEF SessionOf
      <4> QED
        BY <1>16, <4>1, <4>2, <4>3
    <3> QED
      BY <1>14, <1>16, <2>1, <2>4, <3>1
  <2>5. CASE m.mic # done.session /\ Dies("client", done, "mic")
    <3>1. ~Fits(s)
      BY <1>3, <1>9, <1>12, <1>13, <1>16, <2>1, <2>5
    <3>2. Reason(s, "client", "mic")
      BY <3>1 DEF Reason
    <3> QED
      BY <1>1, <1>9, <2>5, <3>2, DeadMoves DEF ClientMoves
  <2> QED
    BY <1>4, <1>16, <2>2, <2>3, <2>4, <2>5 DEF ChecksMic, MicFits
<1>17. CASE EngineOf(s) = "group"
  <2>1. ParseDhReply("client")
    BY <1>4, <1>17, TypesOf, Handles
  <2>2. GroupHash(r, Shared(r.f, r.x)) = H
    BY <1>1, <1>5a, <1>6, <1>17, ClientHashes
  <2>3. IF r.f = 0 THEN Dies("client", r, "range") ELSE Concludes("client", r, H)
    BY <1>4, <1>5, <2>1, <2>2 DEF ParseDhReply
  <2> QED
    BY <1>7, <1>10, <1>15, <1>17, <2>3 DEF SignedEngines
<1>18. CASE EngineOf(s) = "ecdh"
  <2>1. ParseEcdhReply("client")
    BY <1>4, <1>18, TypesOf, Handles
  <2>2. GroupHash(r, Shared(r.f, r.x)) = H
    BY <1>1, <1>5a, <1>6, <1>18, ClientHashes
  <2>3. IF r.f = 0 THEN Dies("client", r, "range") ELSE Concludes("client", r, H)
    BY <1>4, <1>5, <2>1, <2>2 DEF ParseEcdhReply
  <2> QED
    BY <1>7, <1>10, <1>15, <1>18, <2>3 DEF SignedEngines
<1>19. CASE EngineOf(s) = "gex"
  <2>1. ParseGexReply("client")
    BY <1>4, <1>19, TypesOf, Handles
  <2>2. GexHash(r, Shared(r.f, r.x)) = H
    BY <1>1, <1>5a, <1>6, <1>19, ClientHashes
  <2>3. IF r.f = 0 THEN Dies("client", r, "range") ELSE Concludes("client", r, H)
    BY <1>4, <1>5, <2>1, <2>2 DEF ParseGexReply
  <2> QED
    BY <1>7, <1>10, <1>15, <1>19, <2>3 DEF SignedEngines
<1>20. CASE EngineOf(s) = "gss"
  <2>1. ParseGssComplete("client") \/ ParseGssGexComplete("client")
    BY <1>4, <1>20, TypesOf, Handles
  <2>2. GssHash(r, Shared(r.f, r.x)) = H
    BY <1>1, <1>5a, <1>6, <1>20, ClientHashes
  <2>3. IF r.f = 0 THEN Dies("client", r, "range") ELSE ChecksMic("client", r, H)
    BY <1>4, <1>5, <1>7, <1>20, <2>1, <2>2 DEF ParseGssComplete, ParseGssGexComplete
  <2> QED
    BY <1>7, <1>10, <1>16, <1>20, <2>3
<1>21. CASE EngineOf(s) = "gssgex"
  <2>1. ParseGssComplete("client") \/ ParseGssGexComplete("client")
    BY <1>4, <1>21, TypesOf, Handles
  <2>2. GssGexHash(r, Shared(r.f, r.x)) = H
    BY <1>1, <1>5a, <1>6, <1>21, ClientHashes
  <2>3. IF r.f = 0 THEN Dies("client", r, "range") ELSE ChecksMic("client", r, H)
    BY <1>4, <1>5, <1>7, <1>21, <2>1, <2>2 DEF ParseGssComplete, ParseGssGexComplete
  <2> QED
    BY <1>7, <1>10, <1>16, <1>21, <2>3
<1> QED
  BY <1>17, <1>18, <1>19, <1>20, <1>21 DEF Engines

-----------------------------------------------------------------------------
(* Every step of a client.                                                  *)
LEMMA GssErrorOf ==
    ASSUME NEW s \in Settings, NEW x \in Exponents, NEW v, EngineOf(s) \in {"gss", "gssgex"},
           ExchangeInv, s = setting, t["client"] = SentInit(s, x, v),
           wire["client"] = <<[type |-> "GSS_CONTINUE"]>>, ParseNext("client")
    PROVE  ClientMoves
<1>1. t["client"].pc = "wait" /\ Sound(s, "client", t["client"])
  BY SentFacts, SentSane
<1>2. Packet("client").type = "GSS_CONTINUE"
  BY DEF Packet
<1>3. Dies("client", t["client"], "gss")
  BY <1>2, Handles DEF ParseGssContinue
<1> QED
  BY <1>1, <1>3, DeadMoves, PlainReason, SidesFacts DEF ClientMoves

LEMMA ExpectedRead ==
    ASSUME NEW e, wire[e] # <<>>, Packet(e).type \in t[e].expected, Run(e)
    PROVE  ParseKexInit(e) \/ ParseNext(e)
BY DEF Run, Refuse, PeerGone

LEMMA NothingRead ==
    ASSUME ExchangeInv, NEW e \in Sides, wire[e] = <<>>, Run(e)
    PROVE  OnlyMoves(e) /\ Stopped(e)
<1>1. ~ParseKexInit(e)
  BY StartsFirst DEF Receives
<1>2. ~ParseNext(e)
  BY Handles
<1>3. PeerGone(e)
  BY <1>1, <1>2 DEF Run, Refuse
<1> QED
  BY <1>3, StopMoves DEF PeerGone

LEMMA OnlyKexInit ==
    ASSUME NEW e, t[e] = Fresh(setting), ParseNext(e)
    PROVE  FALSE
<1>1. Packet(e).type = "KEXINIT"
  BY Handles, FreshFacts
<1> QED
  BY <1>1, Handles

LEMMA NoKexInit ==
    ASSUME NEW e, "KEXINIT" \notin t[e].expected, ParseKexInit(e)
    PROVE  FALSE
BY StartsFirst DEF Receives

LEMMA ClientRuns ==
    ASSUME ExchangeInv, t["client"].pc = "wait", Run("client")
    PROVE  ClientMoves
<1> DEFINE s == setting
<1>1. s \in Settings /\ "client" \in Sides /\ Peer("client") = "server"
  BY SidesFacts DEF ExchangeInv
<1>2. ClientWaits(s, t["client"], wire["client"], t["server"], wire["server"])
  BY DEF ExchangeInv
<1>3. CASE t["client"] = Fresh(s) /\ wire["client"] = <<KexInitOf(s, "server")>>
  <2>1. wire["client"] # <<>> /\ Packet("client").type = "KEXINIT"
    BY <1>3 DEF Packet, KexInitOf
  <2>2. t["client"].expected = {"KEXINIT"}
    BY <1>3, FreshFacts
  <2>3. ParseKexInit("client") \/ ParseNext("client")
    BY <2>1, <2>2, ExpectedRead
  <2>4. ParseKexInit("client")
    BY <1>3, <2>3, OnlyKexInit
  <2> QED
    BY <1>3, <2>4, ClientStarts
<1>4. CASE wire["client"] = <<>>
  BY <1>1, <1>4, NothingRead DEF ClientMoves
<1>5. CASE /\ t["client"] = SentRequest(s) /\ EngineOf(s) \in GroupEngines
           /\ wire["client"] = <<GroupOf(s)>>
  <2>1. wire["client"] # <<>> /\ Packet("client").type = GroupType(s)
    BY <1>5 DEF Packet, GroupOf
  <2>2. t["client"].expected = {GroupType(s)}
    BY <1>1, <1>5, SentRequestFacts
  <2>3. GroupType(s) # "KEXINIT"
    BY DEF GroupType
  <2>4. ParseNext("client")
    BY <2>1, <2>2, <2>3, ExpectedRead, NoKexInit
  <2> QED
    BY <1>5, <2>4, ClientReadsGroup
<1>6. ASSUME NEW x \in Exponents, NEW v \in Values(s, "client", x), t["client"] = SentInit(s, x, v),
             EngineOf(s) \in Engines, wire["client"] # <<>>, Packet("client").type \in RepliesTo(s)
      PROVE  ParseNext("client")
  <2>1. t["client"].expected = RepliesTo(s)
    BY <1>1, <1>6, SentFacts
  <2>2. "KEXINIT" \notin RepliesTo(s)
    BY DEF RepliesTo, ReplyType, GssReplies
  <2> QED
    BY <1>6, <2>1, <2>2, ExpectedRead, NoKexInit
<1>7. ASSUME NEW x \in Exponents, NEW v \in Values(s, "client", x), t["client"] = SentInit(s, x, v),
             wire["client"] = <<[type |-> "GSS_CONTINUE"]>>, EngineOf(s) \in {"gss", "gssgex"}
      PROVE  ClientMoves
  <2>1. Packet("client").type = "GSS_CONTINUE" /\ wire["client"] # <<>>
    BY <1>7 DEF Packet
  <2>2. "GSS_CONTINUE" \in RepliesTo(s)
    BY <1>7, TypesOf DEF GssReplies
  <2>3. ParseNext("client")
    BY <1>6, <1>7, <2>1, <2>2 DEF Engines
  <2> QED
    BY <1>1, <1>7, <2>3, GssErrorOf
<1>8. ASSUME NEW x \in Exponents, NEW v \in Values(s, "client", x), t["client"] = SentInit(s, x, v),
             NEW m, wire["client"] = <<m>>, EngineOf(s) \in Engines, HasAnswered(s, t["server"], v, m)
      PROVE  ClientMoves
  <2>1. Packet("client").type = ReplyType(s) /\ wire["client"] # <<>>
    BY <1>8 DEF Packet, HasAnswered, ReplyWith
  <2>2. ReplyType(s) \in RepliesTo(s)
    BY <1>8, TypesOf DEF GssReplies, Engines
  <2>3. ParseNext("client")
    BY <1>6, <1>8, <2>1, <2>2
  <2> QED
    BY <1>8, <2>3, ClientConcludes
<1> QED
  BY <1>2, <1>3, <1>4, <1>5, <1>7, <1>8, Zenon DEF ClientWaits

LEMMA RunWaits ==
    ASSUME NEW e, Run(e)
    PROVE  t[e].pc = "wait"
<1>1. ParseKexInit(e) => t[e].pc = "wait"
  BY StartsFirst DEF Receives
<1>2. ParseNext(e) => t[e].pc = "wait"
  <2>1. \A type : Receives(e, type) => t[e].pc = "wait"
    BY DEF Receives
  <2> QED
    BY <2>1, Zenon DEF ParseNext, ParseDhInit, ParseDhReply, ParseEcdhInit, ParseEcdhReply,
       ParseGexRequest, ParseGexRequestOld, ParseGexGroup, ParseGexInit, ParseGexReply,
       ParseGssGroupreq, ParseGssGroup, ParseGssInit, ParseGssGexInit, ParseGssContinue,
       ParseGssComplete, ParseGssGexComplete
<1> QED
  BY <1>1, <1>2 DEF Run, Refuse, PeerGone

LEMMA ClientSteps ==
    ASSUME ExchangeInv, Run("client") \/ HandshakeTimesOut("client") \/ FallsSilent("client")
    PROVE  ClientMoves
<1>1. CASE Run("client")
  BY <1>1, RunWaits, ClientRuns
<1>2. CASE HandshakeTimesOut("client") \/ FallsSilent("client")
  BY <1>2, StopMoves, SidesFacts DEF HandshakeTimesOut, FallsSilent, ClientMoves
<1> QED
  BY <1>1, <1>2

-----------------------------------------------------------------------------
(* The server starts.                                                       *)
LEMMA ServerStartsWith ==
    ASSUME ExchangeInv, t["server"] = Fresh(setting),
           Packet("server") = KexInitOf(setting, "client"),
           EngineOf(setting) \in FixedEngines,
           NEW replies, StartsWith("server", InitType(setting), replies)
    PROVE  ServerMoves
<1> DEFINE s == setting
<1>1. s \in Settings /\ t["server"].pc = "wait" /\ Peer("server") = "client" /\ "server" \in Sides
  BY FreshFacts, SidesFacts DEF ExchangeInv
<1>2. Agreement("server") = Agreed(s, "server")
  BY <1>1, AgreementIs
<1>3. PICK x \in Exponents : \E v \in Sent("server", x) :
        Goes("server", Expecting([[Agreed(s, "server") EXCEPT !.x = x] EXCEPT !.f = v], {InitType(s)}), <<>>)
  BY <1>2 DEF StartsWith
<1>4. PICK v \in Sent("server", x) :
        Goes("server", Expecting([[Agreed(s, "server") EXCEPT !.x = x] EXCEPT !.f = v], {InitType(s)}), <<>>)
  BY <1>3
<1>5. v \in Values(s, "server", x)
  BY DEF Values, Sent
<1>6. Goes("server", Prepared(s, x, v), <<>>)
  BY <1>4 DEF Prepared
<1>7. /\ t'["server"] = Prepared(s, x, v) /\ wire'["server"] = Tail(wire["server"])
      /\ wire'["client"] = wire["client"] \o <<>>
      /\ setting' = setting /\ t'["client"] = t["client"]
      /\ t' = [d \in Sides |-> t'[d]] /\ wire' = [d \in Sides |-> wire'[d]]
  <2> HIDE DEF s
  <2> QED BY <1>1, <1>6, GoesFacts
<1>8. t["client"].pc = "wait" => wire'["client"] = wire["client"]
  BY <1>7, NothingAdded, SidesFacts
<1>9. OnlyMoves("server")
  BY <1>1, <1>7, PreparedSane DEF OnlyMoves
<1> QED
  BY <1>5, <1>7, <1>8, <1>9 DEF ServerMoves

LEMMA ServerReadies ==
    ASSUME ExchangeInv, t["server"] = Fresh(setting),
           Packet("server") = KexInitOf(setting, "client"),
           StartGex("server") \/ StartGssGex("server")
    PROVE  ServerMoves
<1> DEFINE s == setting
<1>1. s \in Settings /\ t["server"].pc = "wait" /\ Peer("server") = "client" /\ "server" \in Sides
  BY FreshFacts, SidesFacts DEF ExchangeInv
<1>2. Agreement("server") = Agreed(s, "server")
  BY <1>1, AgreementIs
<1>3. EngineOf(s) \in GroupEngines /\ Goes("server", Ready(s), <<>>)
  <2>1. CASE StartGex("server")
    <3>1. EngineOf(s) = "gex"
      BY <1>1, <2>1, StartsEngine DEF StartGex
    <3>2. Goes("server", Expecting(Agreed(s, "server"), {"GEX_REQUEST", "GEX_REQUEST_OLD"}), <<>>)
      BY <1>2, <2>1 DEF StartGex
    <3> QED
      BY <3>1, <3>2, TypesOf DEF Ready, GroupEngines
  <2>2. CASE StartGssGex("server")
    <3>1. EngineOf(s) = "gssgex"
      BY <1>1, <2>2, StartsEngine DEF StartGssGex
    <3>2. Goes("server", Expecting(Agreed(s, "server"), {"GSS_GROUPREQ"}), <<>>)
      BY <1>2, <2>2 DEF StartGssGex
    <3> QED
      BY <3>1, <3>2, TypesOf DEF Ready, GroupEngines
  <2> QED
    BY <2>1, <2>2
<1>4. /\ t'["server"] = Ready(s) /\ wire'["server"] = Tail(wire["server"])
      /\ wire'["client"] = wire["client"] \o <<>>
      /\ setting' = setting /\ t'["client"] = t["client"]
      /\ t' = [d \in Sides |-> t'[d]] /\ wire' = [d \in Sides |-> wire'[d]]
  <2> HIDE DEF s
  <2> QED BY <1>1, <1>3, GoesFacts
<1>5. t["client"].pc = "wait" => wire'["client"] = wire["client"]
  BY <1>4, NothingAdded, SidesFacts
<1>6. OnlyMoves("server")
  BY <1>1, <1>4, ReadySane DEF OnlyMoves
<1> QED
  BY <1>3, <1>4, <1>5, <1>6 DEF ServerMoves

LEMMA ServerStarts ==
    ASSUME ExchangeInv, t["server"] = Fresh(setting),
           Packet("server") = KexInitOf(setting, "client"), ParseKexInit("server")
    PROVE  ServerMoves
<1>1. setting \in Settings /\ "server" \in Sides /\ Peer("server") = "client"
  BY SidesFacts DEF ExchangeInv
<1>2. CASE NothingInCommon("server")
  BY <1>1, <1>2, Disagrees DEF ServerMoves
<1>3. CASE StartGroup("server") \/ StartEcdh("server") \/ StartGss("server")
  <2>1. CASE StartGroup("server")
    <3>1. EngineOf(setting) = "group"
      BY <1>1, <2>1, StartsEngine DEF StartGroup
    <3> QED
      BY <2>1, <3>1, TypesOf, ServerStartsWith DEF StartGroup, FixedEngines
  <2>2. CASE StartEcdh("server")
    <3>1. EngineOf(setting) = "ecdh"
      BY <1>1, <2>2, StartsEngine DEF StartEcdh
    <3> QED
      BY <2>2, <3>1, TypesOf, ServerStartsWith DEF StartEcdh, FixedEngines
  <2>3. CASE StartGss("server")
    <3>1. EngineOf(setting) = "gss"
      BY <1>1, <2>3, StartsEngine DEF StartGss
    <3> QED
      BY <2>3, <3>1, TypesOf, ServerStartsWith DEF StartGss, FixedEngines
  <2> QED
    BY <1>3, <2>1, <2>2, <2>3
<1>4. CASE StartGex("server") \/ StartGssGex("server")
  BY <1>4, ServerReadies
<1> QED
  BY <1>2, <1>3, <1>4 DEF ParseKexInit

-----------------------------------------------------------------------------
(* The server grants a prime.                                               *)
LEMMA ServerSendsGroup ==
    ASSUME ExchangeInv, t["server"] = Ready(setting), EngineOf(setting) \in GroupEngines,
           wire["server"] = <<RequestOf(setting)>>, setting.guess = "none",
           SendsGroup("server", GrantedBits(setting), GroupType(setting), InitType(setting))
    PROVE  ServerMoves
<1> DEFINE s == setting
<1>1. s \in Settings /\ t["server"].pc = "wait" /\ Peer("server") = "client" /\ "server" \in Sides
  BY ReadyFacts, SidesFacts DEF ExchangeInv
<1>2. PICK r : r = [Ready(s) EXCEPT !.bits = GrantedBits(s)]
  OBVIOUS
<1>3. Sound(s, "server", r)
  BY <1>1, <1>2, ReadyFacts, SettingFacts DEF Sound, EndFields
<1>4. CASE Dies("server", r, "no pack") \/ Dies("server", r, "no moduli")
  BY <1>1, <1>3, <1>4, DeadMoves, PlainReason DEF ServerMoves
<1>5. CASE /\ HasPrimes(s)
           /\ Goes("server", Expecting([r EXCEPT !.p = PrimeOf(s)], {InitType(s)}),
                   <<[type |-> GroupType(s), p |-> PrimeOf(s)]>>)
  <2>1. Goes("server", Granted(s), <<GroupOf(s)>>)
    BY <1>2, <1>5 DEF Granted, GroupOf
  <2>2. /\ t'["server"] = Granted(s) /\ wire'["server"] = Tail(wire["server"])
        /\ wire'["client"] = wire["client"] \o <<GroupOf(s)>>
        /\ setting' = setting /\ t'["client"] = t["client"]
        /\ t' = [d \in Sides |-> t'[d]] /\ wire' = [d \in Sides |-> wire'[d]]
    <3> HIDE DEF s
    <3> QED BY <1>1, <2>1, GoesFacts
  <2>3. wire'["server"] = <<>>
    BY <2>2
  <2>4. OnlyMoves("server")
    BY <1>1, <1>5, <2>2, GrantedSane DEF OnlyMoves
  <2>5. Granting(s, t'["server"])
    BY <1>5, <2>2 DEF Granting
  <2> QED
    BY <2>2, <2>3, <2>4, <2>5 DEF ServerMoves
<1> QED
  BY <1>2, <1>4, <1>5 DEF SendsGroup, PrimeOf, HasPrimes

LEMMA ServerGrants ==
    ASSUME ExchangeInv, t["server"] = Ready(setting), EngineOf(setting) \in GroupEngines,
           wire["server"] = <<RequestOf(setting)>>, setting.guess = "none", ParseNext("server")
    PROVE  ServerMoves
<1> DEFINE s == setting
<1>1. s \in Settings
  BY DEF ExchangeInv
<1>2. Packet("server") = RequestOf(s)
  BY DEF Packet
<1>3. Packet("server").bits = AskedBits(s)
  BY <1>2 DEF RequestOf
<1>4. CASE EngineOf(s) = "gex" /\ s.request.old
  <2>1. ParseGexRequestOld("server")
    <3>1. Packet("server").type = "GEX_REQUEST_OLD"
      BY <1>2, <1>4 DEF RequestOf
    <3> QED
      BY <3>1, Handles
  <2>2. t["server"].bits = ClassBits /\ AskedBits(s) = s.request
    BY <1>1, <1>4, ReadyFacts DEF AskedBits
  <2>3. [t["server"].bits EXCEPT !.old = TRUE, !.n = Smooshed(Packet("server").bits.n)] = GrantedBits(s)
    BY <1>3, <1>4, <2>2 DEF GrantedBits
  <2> QED
    BY <1>4, <2>1, <2>3, TypesOf, ServerSendsGroup DEF ParseGexRequestOld
<1>5. CASE EngineOf(s) = "gex" /\ ~s.request.old
  <2>1. ParseGexRequest("server")
    <3>1. Packet("server").type = "GEX_REQUEST"
      BY <1>2, <1>5 DEF RequestOf
    <3> QED
      BY <3>1, Handles
  <2>2. Fixed(Packet("server").bits) = GrantedBits(s)
    BY <1>3, <1>5 DEF GrantedBits
  <2> QED
    BY <1>5, <2>1, <2>2, TypesOf, ServerSendsGroup DEF ParseGexRequest
<1>6. CASE EngineOf(s) = "gssgex"
  <2>1. ParseGssGroupreq("server")
    <3>1. Packet("server").type = "GSS_GROUPREQ"
      BY <1>2, <1>6 DEF RequestOf
    <3> QED
      BY <3>1, Handles
  <2>2. Fixed(Packet("server").bits) = GrantedBits(s)
    BY <1>3, <1>6 DEF GrantedBits
  <2> QED
    BY <1>6, <2>1, <2>2, TypesOf, ServerSendsGroup DEF ParseGssGroupreq
<1> QED
  BY <1>4, <1>5, <1>6 DEF GroupEngines

-----------------------------------------------------------------------------
(* The server has the value of the client.                                  *)
ServerHash(s, v, f, x) == HashOf(s, GrantedBits(s), v, f, Shared(v, x))

\* q is the server that has read v, when it has x and sends f.
Heard(s, q, v, x, f) ==
    /\ DOMAIN q = EndFields /\ q.pc = "wait" /\ q.why = "none"
    /\ q.x = x /\ q.e = v /\ q.f = f /\ q.key = KeyOf(s) /\ q.session = s.earlier
    /\ Sound(s, "server", q) /\ PicksKept(s, "server", q)
    /\ EngineOf(s) \in GroupEngines => q.bits = GrantedBits(s) /\ q.p = PrimeOf(s)

LEMMA ServerHashes ==
    ASSUME NEW s \in Settings, NEW q, NEW v, NEW x, NEW f, Heard(s, q, v, x, f)
    PROVE  /\ EngineOf(s) \in {"group", "ecdh"} =>
                GroupHash(q, Shared(q.e, q.x)) = ServerHash(s, v, f, x)
           /\ EngineOf(s) = "gex" => GexHash(q, Shared(q.e, x)) = ServerHash(s, v, f, x)
           /\ EngineOf(s) = "gss" => GssHash(q, Shared(q.e, q.x)) = ServerHash(s, v, f, x)
           /\ EngineOf(s) = "gssgex" => GssGexHash(q, Shared(q.e, x)) = ServerHash(s, v, f, x)
<1>1. EngineOf(s) \in {"group", "ecdh"} => GroupHash(q, Shared(q.e, q.x)) = ServerHash(s, v, f, x)
  BY DEF Heard, GroupHash, ServerHash, HashOf, FixedEngines, SignedEngines
<1>2. EngineOf(s) = "gss" => GssHash(q, Shared(q.e, q.x)) = ServerHash(s, v, f, x)
  BY DEF Heard, GssHash, ServerHash, HashOf, FixedEngines, SignedEngines
<1>3. EngineOf(s) = "gex" => GexHash(q, Shared(q.e, x)) = ServerHash(s, v, f, x)
  BY DEF Heard, GexHash, BitsHashed, ServerHash, HashOf, FixedEngines, SignedEngines, GroupEngines
<1>4. EngineOf(s) = "gssgex" => GssGexHash(q, Shared(q.e, x)) = ServerHash(s, v, f, x)
  BY DEF Heard, GssGexHash, BitsHashed, ServerHash, HashOf, FixedEngines, SignedEngines, GroupEngines
<1> QED
  BY <1>1, <1>2, <1>3, <1>4

(* It sends its answer, or wants another token.                             *)
LEMMA ServerReplies ==
    ASSUME ExchangeInv, t["server"].pc = "wait",
           NEW v \in UNION {Values(setting, "client", y) : y \in Exponents}, v # 0,
           Reading(setting, t["server"], wire["server"], v),
           NEW x \in Exponents, NEW f \in Values(setting, "server", x),
           NEW q, Heard(setting, q, v, x, f), EngineOf(setting) \in Engines,
           NEW H, H = ServerHash(setting, v, f, x),
           \/ EngineOf(setting) \in SignedEngines /\ Answers("server", q, H, ReplyType(setting))
           \/ EngineOf(setting) \in {"gss", "gssgex"} /\ AcceptsToken("server", q, H)
    PROVE  ServerMoves
<1> DEFINE s == setting
<1>1. s \in Settings /\ Peer("server") = "client" /\ "server" \in Sides
  BY SidesFacts DEF ExchangeInv
<1>2. PICK done : done = WithSecret(q, Shared(v, x), H)
  OBVIOUS
<1>3. /\ DOMAIN done = EndFields /\ done.K = Shared(v, x) /\ done.H = H
      /\ done.session = SessionOf(s, H) /\ done.why = "none" /\ done.pc = "wait"
      /\ Sound(s, "server", done) /\ PicksKept(s, "server", done)
  <2>1. /\ DOMAIN done = EndFields /\ done.K = Shared(v, x) /\ done.H = H
        /\ done.session = (IF q.session = None THEN H ELSE q.session) /\ done.why = "none"
        /\ done.pc = "wait"
        /\ done.kex = q.kex /\ done.key = q.key /\ done.local = q.local /\ done.remote = q.remote
        /\ done.x = q.x /\ done.p = q.p
    BY <1>2, SecretFacts DEF Heard
  <2>2. Sound(s, "server", done)
    BY <2>1, SoundKept DEF Heard
  <2>3. PicksKept(s, "server", done)
    BY <2>1 DEF Heard, PicksKept
  <2> QED
    BY <2>1, <2>2, <2>3 DEF Heard, SessionOf
<1>4. Shared(q.e, q.x) = Shared(v, x) /\ q.f = f
  BY DEF Heard
<1>5. Tail(wire["server"]) = <<>>
  BY DEF Reading
<1>6. ASSUME NEW m, m = ReplyWith(s, f, H), Finishes("server", done, <<m>>)
      PROVE  ServerMoves
  <2>1. /\ OnlyMoves("server") /\ t'["server"].pc = "done"
        /\ t'["server"].K = done.K /\ t'["server"].H = done.H
        /\ t'["server"].session = done.session
        /\ wire'["server"] = <<>> /\ wire'["client"] = wire["client"] \o <<m>>
    <3>1. /\ OnlyMoves("server") /\ t'["server"].pc = "done"
          /\ t'["server"].K = done.K /\ t'["server"].H = done.H
          /\ t'["server"].session = done.session
          /\ wire'["server"] = Tail(wire["server"])
          /\ wire'[Peer("server")] = wire[Peer("server")] \o <<m>>
      BY <1>1, <1>3, <1>6, FinishMoves
    <3> QED
      BY <1>1, <1>5, <3>1
  <2>2. HasAnswered(s, t'["server"], v, m)
    BY <1>3, <1>6, <2>1 DEF HasAnswered, ServerHash
  <2> QED
    BY <2>1, <2>2 DEF ServerMoves
<1>7. CASE EngineOf(s) \in SignedEngines /\ Answers("server", q, H, ReplyType(s))
  <2>1. Finishes("server", done, <<[type |-> ReplyType(s), value |-> f, sig |-> H]>>)
    BY <1>2, <1>4, <1>7 DEF Answers
  <2>2. [type |-> ReplyType(s), value |-> f, sig |-> H] = ReplyWith(s, f, H)
    BY <1>7 DEF ReplyWith
  <2> QED
    BY <1>6, <2>1, <2>2
<1>8. CASE EngineOf(s) \in {"gss", "gssgex"} /\ AcceptsToken("server", q, H)
  <2>1. CASE Finishes("server", done, <<[type |-> "GSS_COMPLETE", value |-> f, mic |-> done.session]>>)
    <3>1. [type |-> "GSS_COMPLETE", value |-> f, mic |-> done.session] = ReplyWith(s, f, H)
      BY <1>3, <1>8, TypesOf DEF ReplyWith, SignedEngines
    <3> QED
      BY <1>6, <2>1, <3>1
  <2>2. CASE Goes("server", Expecting(done, {"GSS_CONTINUE", "GSS_COMPLETE", "GSS_ERROR"}),
                  <<[type |-> "GSS_CONTINUE"]>>)
    <3>1. PICK r : r = Expecting(done, {"GSS_CONTINUE", "GSS_COMPLETE", "GSS_ERROR"})
      OBVIOUS
    <3>2. /\ DOMAIN r = EndFields /\ r.pc = "wait" /\ r.why = "none" /\ Continuing(r)
          /\ r.kex = done.kex /\ r.x = done.x /\ r.p = done.p
          /\ r.key = done.key /\ r.local = done.local /\ r.remote = done.remote
      BY <1>3, <3>1 DEF Expecting, EndFields, Continuing
    <3>3. Sane(s, "server", r)
      <4>1. Sound(s, "server", r)
        BY <1>3, <3>2, SoundKept
      <4>2. PicksKept(s, "server", r)
        BY <1>3, <3>2 DEF PicksKept
      <4>3. r.expected # {}
        BY <3>2 DEF Continuing
      <4> QED
        BY <3>2, <4>1, <4>2, <4>3, PlainReason DEF Sane
    <3>4. /\ t'["server"] = r /\ wire'["server"] = <<>>
          /\ wire'["client"] = wire["client"] \o <<[type |-> "GSS_CONTINUE"]>>
          /\ setting' = setting /\ t'["client"] = t["client"]
          /\ t' = [d \in Sides |-> t'[d]] /\ wire' = [d \in Sides |-> wire'[d]]
      BY <1>1, <1>5, <2>2, <3>1, GoesFacts
    <3>5. OnlyMoves("server")
      BY <1>1, <3>3, <3>4 DEF OnlyMoves
    <3> QED
      BY <1>8, <3>2, <3>4, <3>5 DEF ServerMoves
  <2>3. CASE Dies("server", done, "gss")
    BY <1>1, <1>3, <2>3, DeadMoves, PlainReason DEF ServerMoves
  <2> QED
    BY <1>2, <1>4, <1>8, <2>1, <2>2, <2>3 DEF AcceptsToken
<1> QED
  BY <1>7, <1>8

(* An end with a fixed group has read v.                                    *)
ReadFixed(s, x, f, v) == [Prepared(s, x, f) EXCEPT !.e = v]

LEMMA FixedHeard ==
    ASSUME NEW s \in Settings, EngineOf(s) \in FixedEngines, NEW x \in Exponents, NEW f, NEW v,
           NEW q, q = ReadFixed(s, x, f, v)
    PROVE  Heard(s, q, v, x, f)
<1>1. PICK r : r = Prepared(s, x, f)
  OBVIOUS
<1>2. /\ DOMAIN r = EndFields /\ r.pc = "wait" /\ r.why = "none"
      /\ r.kex = EngineOf(s) /\ r.key = KeyOf(s) /\ r.x = x /\ r.f = f /\ r.session = s.earlier
      /\ Sound(s, "server", r) /\ PicksKept(s, "server", r)
  BY <1>1, PreparedFacts, PreparedSane
<1>3. /\ DOMAIN q = EndFields /\ q.pc = "wait" /\ q.why = "none"
      /\ q.kex = r.kex /\ q.key = r.key /\ q.local = r.local /\ q.remote = r.remote
      /\ q.x = r.x /\ q.p = r.p /\ q.f = f /\ q.e = v /\ q.session = s.earlier
  BY <1>1, <1>2 DEF ReadFixed, EndFields
<1>4. Sound(s, "server", q)
  BY <1>2, <1>3, SoundKept
<1>5. PicksKept(s, "server", q)
  BY <1>2, <1>3 DEF PicksKept
<1> QED
  BY <1>2, <1>3, <1>4, <1>5 DEF Heard, FixedEngines, GroupEngines

(* An end that has granted a prime has read v, and chosen x.                *)
ReadGranted(s, x, f, v) == [Granted(s) EXCEPT !.e = v, !.x = x, !.f = f]

LEMMA GrantedHeard ==
    ASSUME NEW s \in Settings, EngineOf(s) \in GroupEngines, HasPrimes(s),
           NEW x \in Exponents, NEW f, NEW v, NEW q, q = ReadGranted(s, x, f, v)
    PROVE  Heard(s, q, v, x, f)
<1>1. PICK r : r = Granted(s)
  OBVIOUS
<1>2. /\ DOMAIN r = EndFields /\ r.pc = "wait" /\ r.why = "none"
      /\ r.kex = EngineOf(s) /\ r.key = KeyOf(s) /\ r.session = s.earlier
      /\ r.bits = GrantedBits(s) /\ r.p = PrimeOf(s)
      /\ Sound(s, "server", r) /\ PicksKept(s, "server", r)
  BY <1>1, GrantedFacts, GrantedSane
<1>3. /\ DOMAIN q = EndFields /\ q.pc = "wait" /\ q.why = "none"
      /\ q.kex = r.kex /\ q.key = r.key /\ q.local = r.local /\ q.remote = r.remote
      /\ q.x = x /\ q.p = r.p /\ q.f = f /\ q.e = v /\ q.session = s.earlier
      /\ q.bits = r.bits
  BY <1>1, <1>2 DEF ReadGranted, EndFields
<1>4. Sound(s, "server", q)
  BY <1>2, <1>3 DEF Sound
<1>5. PicksKept(s, "server", q)
  BY <1>2, <1>3 DEF PicksKept
<1> QED
  BY <1>2, <1>3, <1>4, <1>5 DEF Heard

LEMMA OutOfRange ==
    ASSUME ExchangeInv, t["server"].pc = "wait",
           0 \in UNION {Values(setting, "client", y) : y \in Exponents},
           NEW r, Sound(setting, "server", r), Dies("server", r, "range")
    PROVE  ServerMoves
<1>1. PICK y \in Exponents : 0 \in Values(setting, "client", y)
  OBVIOUS
<1>2. y # 0
  BY SettingFacts DEF ExchangeInv
<1>3. Reason(setting, "server", "range")
  BY <1>1, <1>2, SidesFacts DEF Values, Reason
<1> QED
  BY <1>3, DeadMoves, SidesFacts DEF ServerMoves

LEMMA ServerAnswersFixed ==
    ASSUME ExchangeInv, NEW v \in UNION {Values(setting, "client", y) : y \in Exponents},
           Reading(setting, t["server"], wire["server"], v),
           EngineOf(setting) \in FixedEngines,
           NEW x \in Exponents, NEW f \in Values(setting, "server", x),
           t["server"] = Prepared(setting, x, f), ParseNext("server")
    PROVE  ServerMoves
<1> DEFINE s == setting
<1>1. s \in Settings /\ t["server"].pc = "wait" /\ "server" \in Sides
  BY PreparedFacts, SidesFacts DEF ExchangeInv
<1>2. Packet("server").value = v /\ Packet("server").type = InitType(s)
  BY DEF Packet, Reading, InitWith
<1>3. PICK q : q = ReadFixed(s, x, f, v)
  OBVIOUS
<1>4. [t["server"] EXCEPT !.e = Packet("server").value] = q
  BY <1>2, <1>3 DEF ReadFixed
<1>5. Heard(s, q, v, x, f)
  BY <1>1, <1>3, FixedHeard
<1>6. q.e = v /\ Sound(s, "server", q)
  BY <1>5 DEF Heard
<1>7. PICK H : H = ServerHash(s, v, f, x)
  OBVIOUS
<1>8. CASE v = 0 /\ Dies("server", q, "range")
  BY <1>1, <1>6, <1>8, OutOfRange
<1>9. CASE EngineOf(s) = "group"
  <2>1. ParseDhInit("server")
    BY <1>2, <1>9, TypesOf, Handles
  <2>2. GroupHash(q, Shared(q.e, q.x)) = H
    BY <1>1, <1>5, <1>7, <1>9, ServerHashes
  <2>3. IF v = 0 THEN Dies("server", q, "range") ELSE Answers("server", q, H, "DH_REPLY")
    BY <1>4, <1>6, <2>1, <2>2 DEF ParseDhInit
  <2>4. ReplyType(s) = "DH_REPLY" /\ EngineOf(s) \in SignedEngines /\ EngineOf(s) \in Engines
    BY <1>9, TypesOf DEF SignedEngines, Engines
  <2> QED
    BY <1>1, <1>5, <1>7, <1>8, <2>3, <2>4, ServerReplies
<1>10. CASE EngineOf(s) = "ecdh"
  <2>1. ParseEcdhInit("server")
    BY <1>2, <1>10, TypesOf, Handles
  <2>2. GroupHash(q, Shared(q.e, q.x)) = H
    BY <1>1, <1>5, <1>7, <1>10, ServerHashes
  <2>3. IF v = 0 THEN Dies("server", q, "range") ELSE Answers("server", q, H, "ECDH_REPLY")
    BY <1>4, <1>6, <2>1, <2>2 DEF ParseEcdhInit
  <2>4. ReplyType(s) = "ECDH_REPLY" /\ EngineOf(s) \in SignedEngines /\ EngineOf(s) \in Engines
    BY <1>10, TypesOf DEF SignedEngines, Engines
  <2> QED
    BY <1>1, <1>5, <1>7, <1>8, <2>3, <2>4, ServerReplies
<1>11. CASE EngineOf(s) = "gss"
  <2>1. ParseGssInit("server")
    <3>1. t["server"].kex = "gss"
      BY <1>1, <1>11, PreparedFacts
    <3>2. ParseGssInit("server") \/ ParseGssGexInit("server")
      BY <1>2, <1>11, TypesOf, Handles
    <3> QED
      BY <3>1, <3>2 DEF ParseGssGexInit
  <2>2. GssHash(q, Shared(q.e, q.x)) = H
    BY <1>1, <1>5, <1>7, <1>11, ServerHashes
  <2>3. IF v = 0 THEN Dies("server", q, "range") ELSE AcceptsToken("server", q, H)
    BY <1>4, <1>6, <2>1, <2>2 DEF ParseGssInit
  <2>4. EngineOf(s) \in {"gss", "gssgex"} /\ EngineOf(s) \in Engines
    BY <1>11 DEF Engines
  <2> QED
    BY <1>1, <1>5, <1>7, <1>8, <2>3, <2>4, ServerReplies
<1> QED
  BY <1>9, <1>10, <1>11 DEF FixedEngines

LEMMA ServerAnswersGranted ==
    ASSUME ExchangeInv, NEW v \in UNION {Values(setting, "client", y) : y \in Exponents},
           Reading(setting, t["server"], wire["server"], v), Granting(setting, t["server"]),
           ParseNext("server")
    PROVE  ServerMoves
<1> DEFINE s == setting
<1>1. s \in Settings /\ "server" \in Sides
      /\ EngineOf(s) \in GroupEngines /\ HasPrimes(s) /\ t["server"] = Granted(s)
  BY SidesFacts DEF ExchangeInv, Granting
<1>2. Packet("server").value = v /\ Packet("server").type = InitType(s)
  BY DEF Packet, Reading, InitWith
<1>3. t["server"].pc = "wait" /\ t["server"].kex = EngineOf(s) /\ Sound(s, "server", t["server"])
  BY <1>1, GrantedFacts, GrantedSane
<1>4. CASE v = 0 /\ Dies("server", t["server"], "range")
  BY <1>3, <1>4, OutOfRange
<1>5. ASSUME NEW x \in Exponents, NEW f \in Sent("server", x),
             NEW q, q = [t["server"] EXCEPT !.e = Packet("server").value, !.x = x, !.f = f]
      PROVE  Heard(s, q, v, x, f) /\ f \in Values(s, "server", x)
  <2>1. q = ReadGranted(s, x, f, v)
    BY <1>1, <1>2, <1>5 DEF ReadGranted
  <2>2. f \in Values(s, "server", x)
    BY <1>5 DEF Values, Sent
  <2> QED
    BY <1>1, <2>1, <2>2, GrantedHeard
<1>6. CASE EngineOf(s) = "gex"
  <2>1. ParseGexInit("server")
    BY <1>2, <1>6, TypesOf, Handles
  <2>2. CASE v = 0
    BY <1>2, <1>4, <2>1, <2>2 DEF ParseGexInit
  <2>3. CASE v # 0
    <3>1. PICK x \in Exponents : \E f \in Sent("server", x) :
             LET q == [t["server"] EXCEPT !.e = Packet("server").value, !.x = x, !.f = f]
             IN  Answers("server", q, GexHash(q, Shared(q.e, x)), "GEX_REPLY")
      BY <1>2, <2>1, <2>3 DEF ParseGexInit
    <3>2. PICK f \in Sent("server", x) :
             LET q == [t["server"] EXCEPT !.e = Packet("server").value, !.x = x, !.f = f]
             IN  Answers("server", q, GexHash(q, Shared(q.e, x)), "GEX_REPLY")
      BY <3>1
    <3>3. PICK q : q = [t["server"] EXCEPT !.e = Packet("server").value, !.x = x, !.f = f]
      OBVIOUS
    <3>4. Answers("server", q, GexHash(q, Shared(q.e, x)), "GEX_REPLY")
      BY <3>2, <3>3
    <3>5. Heard(s, q, v, x, f) /\ f \in Values(s, "server", x)
      BY <1>5, <3>3
    <3>6. GexHash(q, Shared(q.e, x)) = ServerHash(s, v, f, x)
      BY <1>1, <1>6, <3>5, ServerHashes
    <3>7. ReplyType(s) = "GEX_REPLY" /\ EngineOf(s) \in SignedEngines /\ EngineOf(s) \in Engines
      BY <1>6, TypesOf DEF SignedEngines, Engines
    <3> QED
      BY <1>3, <2>3, <3>4, <3>5, <3>6, <3>7, ServerReplies
  <2> QED
    BY <2>2, <2>3
<1>7. CASE EngineOf(s) = "gssgex"
  <2>1. ParseGssGexInit("server")
    <3>1. ParseGssInit("server") \/ ParseGssGexInit("server")
      BY <1>2, <1>7, TypesOf, Handles
    <3>2. [t["server"] EXCEPT !.e = Packet("server").value].kex = "gssgex"
      BY <1>3, <1>7 DEF Sound, EndFields
    <3> QED
      BY <3>1, <3>2 DEF ParseGssInit
  <2>2. CASE v = 0
    BY <1>2, <1>4, <2>1, <2>2 DEF ParseGssGexInit
  <2>3. CASE v # 0
    <3>1. PICK x \in Exponents : \E f \in Sent("server", x) :
             LET q == [t["server"] EXCEPT !.e = Packet("server").value, !.x = x, !.f = f]
             IN  AcceptsToken("server", q, GssGexHash(q, Shared(q.e, x)))
      BY <1>2, <2>1, <2>3 DEF ParseGssGexInit
    <3>2. PICK f \in Sent("server", x) :
             LET q == [t["server"] EXCEPT !.e = Packet("server").value, !.x = x, !.f = f]
             IN  AcceptsToken("server", q, GssGexHash(q, Shared(q.e, x)))
      BY <3>1
    <3>3. PICK q : q = [t["server"] EXCEPT !.e = Packet("server").value, !.x = x, !.f = f]
      OBVIOUS
    <3>4. AcceptsToken("server", q, GssGexHash(q, Shared(q.e, x)))
      BY <3>2, <3>3
    <3>5. Heard(s, q, v, x, f) /\ f \in Values(s, "server", x)
      BY <1>5, <3>3
    <3>6. GssGexHash(q, Shared(q.e, x)) = ServerHash(s, v, f, x)
      BY <1>1, <1>7, <3>5, ServerHashes
    <3>7. EngineOf(s) \in {"gss", "gssgex"} /\ EngineOf(s) \in Engines
      BY <1>7 DEF Engines
    <3> QED
      BY <1>3, <2>3, <3>4, <3>5, <3>6, <3>7, ServerReplies
  <2> QED
    BY <2>2, <2>3
<1> QED
  BY <1>1, <1>6, <1>7 DEF GroupEngines

-----------------------------------------------------------------------------
(* Every step of a server.                                                  *)
LEMMA ServerRefuses ==
    ASSUME ExchangeInv, NEW e \in Sides, setting.guess # "none", wire[e] # <<>>,
           Packet(e).type \notin t[e].expected, Run(e)
    PROVE  OnlyMoves(e) /\ Stopped(e)
<1>1. ~ParseKexInit(e)
  BY StartsFirst DEF Receives
<1>2. ~ParseNext(e)
  BY Handles
<1>3. Refuse(e)
  BY <1>1, <1>2 DEF Run, PeerGone
<1>4. Reason(setting, e, "expected")
  BY DEF Reason
<1>5. Sound(setting, e, t[e])
  BY DEF ExchangeInv, Sane
<1> QED
  BY <1>3, <1>4, <1>5, DeadMoves DEF Refuse

LEMMA InitsAre ==
    ASSUME NEW s, NEW i \in Inits(s)
    PROVE  \E v \in UNION {Values(s, "client", x) : x \in Exponents} : i = InitWith(s, v)
BY DEF Inits

LEMMA ServerReads ==
    ASSUME ExchangeInv, NEW v \in UNION {Values(setting, "client", y) : y \in Exponents},
           Reading(setting, t["server"], wire["server"], v), Run("server")
    PROVE  ServerMoves
<1> DEFINE s == setting
<1>1. s \in Settings
  BY DEF ExchangeInv
<1>2. wire["server"] # <<>> /\ Packet("server").type = InitType(s)
  BY DEF Packet, Reading, InitWith
<1>3. t["server"].expected = {InitType(s)}
  BY <1>1, PreparedFacts, GrantedFacts DEF Reading, Granting
<1>4. InitType(s) # "KEXINIT"
  BY DEF InitType
<1>5. ParseNext("server")
  BY <1>2, <1>3, <1>4, ExpectedRead, NoKexInit
<1>6. CASE Granting(s, t["server"])
  BY <1>5, <1>6, ServerAnswersGranted
<1>7. CASE EngineOf(s) \in FixedEngines
           /\ \E x \in Exponents : \E f \in Values(s, "server", x) : t["server"] = Prepared(s, x, f)
  <2>1. PICK x \in Exponents : \E f \in Values(s, "server", x) : t["server"] = Prepared(s, x, f)
    BY <1>7
  <2>2. PICK f \in Values(s, "server", x) : t["server"] = Prepared(s, x, f)
    BY <2>1
  <2> QED
    BY <1>5, <1>7, <2>2, ServerAnswersFixed
<1> QED
  BY <1>6, <1>7 DEF Reading

LEMMA ServerAtStart ==
    ASSUME ExchangeInv, NEW q \in AtMostOne(Firsts(setting)), Run("server"),
           AtStart(setting, t["server"], wire["server"], q)
    PROVE  ServerMoves
<1> DEFINE s == setting
           w == wire["server"]
<1>1. s \in Settings /\ "server" \in Sides
  BY SidesFacts DEF ExchangeInv
<1>2. CASE t["server"] = Fresh(s) /\ w = <<KexInitOf(s, "client")>> \o Guessed(s) \o q
  <2>1. w # <<>> /\ Packet("server") = KexInitOf(s, "client")
    <3>1. PICK k : k = KexInitOf(s, "client")
      OBVIOUS
    <3>2. w # <<>> /\ Head(w) = k
      BY <1>1, <1>2, <3>1, StartQueue
    <3> QED
      BY <3>1, <3>2 DEF Packet
  <2>2. Packet("server").type = "KEXINIT" /\ t["server"].expected = {"KEXINIT"}
    BY <1>2, <2>1, FreshFacts DEF KexInitOf
  <2>3. ParseKexInit("server") \/ ParseNext("server")
    BY <2>1, <2>2, ExpectedRead
  <2>4. ParseKexInit("server")
    BY <1>2, <2>3, OnlyKexInit
  <2> QED
    BY <1>2, <2>1, <2>4, ServerStarts
<1>3. CASE w = Guessed(s) \o q /\ EngineOf(s) \in GroupEngines /\ t["server"] = Ready(s)
  <2>1. t["server"].expected = RequestTypes(s)
    BY <1>1, <1>3, ReadyFacts
  <2>2. CASE s.guess # "none"
    <3>1. w # <<>> /\ Packet("server").type \notin RequestTypes(s)
      BY <1>1, <1>3, <2>2, QueueHead DEF Packet
    <3> QED
      BY <1>1, <2>1, <2>2, <3>1, ServerRefuses DEF ServerMoves
  <2>3. CASE s.guess = "none" /\ q = <<>>
    <3>1. w = <<>>
      BY <1>1, <1>3, <2>3, QueueHead
    <3> QED
      BY <1>1, <3>1, NothingRead DEF ServerMoves
  <2>4. CASE s.guess = "none" /\ q = <<RequestOf(s)>>
    <3>1. w = <<RequestOf(s)>>
      BY <1>1, <1>3, <2>4, QueueHead
    <3>2. w # <<>> /\ Packet("server").type \in RequestTypes(s)
      BY <1>3, <3>1 DEF Packet, RequestOf, RequestTypes, GroupEngines
    <3>3. "KEXINIT" \notin RequestTypes(s)
      BY DEF RequestTypes
    <3>4. ParseNext("server")
      BY <2>1, <3>2, <3>3, ExpectedRead, NoKexInit
    <3> QED
      BY <1>3, <2>4, <3>1, <3>4, ServerGrants
  <2>5. Firsts(s) = {RequestOf(s)}
    BY <1>3 DEF Firsts, GroupEngines, FixedEngines
  <2>6. q = <<>> \/ q = <<RequestOf(s)>>
    BY <2>5 DEF AtMostOne
  <2> QED
    BY <2>2, <2>3, <2>4, <2>6
<1>4. ASSUME w = Guessed(s) \o q, EngineOf(s) \in FixedEngines,
             NEW x \in Exponents, NEW f \in Values(s, "server", x), t["server"] = Prepared(s, x, f)
      PROVE  ServerMoves
  <2>1. t["server"].expected = {InitType(s)}
    BY <1>1, <1>4, PreparedFacts
  <2>2. CASE s.guess # "none"
    <3>1. w # <<>> /\ Packet("server").type \in {"GEX_REQUEST", "GSS_GROUPREQ"}
      BY <1>1, <1>4, <2>2, QueueHead DEF Packet
    <3>2. InitType(s) \notin {"GEX_REQUEST", "GSS_GROUPREQ"}
      BY DEF InitType
    <3> QED
      BY <1>1, <2>1, <2>2, <3>1, <3>2, ServerRefuses DEF ServerMoves
  <2>3. CASE s.guess = "none" /\ q = <<>>
    <3>1. w = <<>>
      BY <1>1, <1>4, <2>3, QueueHead
    <3> QED
      BY <1>1, <3>1, NothingRead DEF ServerMoves
  <2>4. ASSUME s.guess = "none", NEW i \in Inits(s), q = <<i>>
        PROVE  ServerMoves
    <3>1. PICK v \in UNION {Values(s, "client", y) : y \in Exponents} : i = InitWith(s, v)
      BY InitsAre
    <3>2. w = <<InitWith(s, v)>>
      BY <1>1, <1>4, <2>4, <3>1, QueueHead
    <3>3. Reading(s, t["server"], w, v)
      BY <1>4, <2>4, <3>2 DEF Reading
    <3> QED
      BY <3>3, ServerReads
  <2>5. Firsts(s) = Inits(s)
    BY <1>4 DEF Firsts, Inits
  <2> QED
    BY <2>2, <2>3, <2>4, <2>5 DEF AtMostOne
<1> QED
  BY <1>2, <1>3, <1>4 DEF AtStart

LEMMA ServerRuns ==
    ASSUME ExchangeInv, t["server"].pc = "wait", Run("server")
    PROVE  ServerMoves
<1> DEFINE s == setting
           w == wire["server"]
<1>1. s \in Settings /\ "server" \in Sides /\ ServerWaits(s, t["server"], w)
  BY SidesFacts DEF ExchangeInv
<1>2. CASE \E q \in AtMostOne(Firsts(s)) : AtStart(s, t["server"], w, q)
  BY <1>2, ServerAtStart
<1>3. CASE w = <<>>
  BY <1>1, <1>3, NothingRead DEF ServerMoves
<1>4. ASSUME Granting(s, t["server"]), NEW i \in Inits(s), w = <<i>>
      PROVE  ServerMoves
  <2>1. PICK v \in UNION {Values(s, "client", y) : y \in Exponents} : i = InitWith(s, v)
    BY InitsAre
  <2>2. Reading(s, t["server"], w, v)
    BY <1>4, <2>1 DEF Reading, Granting
  <2> QED
    BY <2>2, ServerReads
<1> QED
  BY <1>1, <1>2, <1>3, <1>4 DEF ServerWaits, AtMostOne

LEMMA ServerSteps ==
    ASSUME ExchangeInv, Run("server") \/ HandshakeTimesOut("server") \/ FallsSilent("server")
    PROVE  ServerMoves
<1>1. CASE Run("server")
  BY <1>1, RunWaits, ServerRuns
<1>2. CASE HandshakeTimesOut("server") \/ FallsSilent("server")
  BY <1>2, StopMoves, SidesFacts DEF HandshakeTimesOut, FallsSilent, ServerMoves
<1> QED
  BY <1>1, <1>2

-----------------------------------------------------------------------------
(* The moves keep what holds.                                               *)
LEMMA EndsSane ==
    ASSUME ExchangeInv, NEW e \in Sides, OnlyMoves(e)
    PROVE  \A d \in Sides : Sane(setting, d, t'[d])
<1>1. Sane(setting, e, t'[e])
  BY DEF OnlyMoves
<1>2. t'[Peer(e)] = t[Peer(e)] /\ Sane(setting, Peer(e), t[Peer(e)])
  BY SidesFacts DEF OnlyMoves, ExchangeInv
<1>3. \A d \in Sides : d = e \/ d = Peer(e)
  BY DEF Sides, Peer
<1> QED
  BY <1>1, <1>2, <1>3

LEMMA OneMore ==
    ASSUME NEW S, NEW i \in S
    PROVE  <<>> \in AtMostOne(S) /\ <<i>> \in AtMostOne(S)
BY DEF AtMostOne

LEMMA NoneYet ==
    ASSUME NEW S
    PROVE  <<>> \in AtMostOne(S)
BY DEF AtMostOne

LEMMA InitOf ==
    ASSUME NEW s, NEW x \in Exponents, NEW v \in Values(s, "client", x)
    PROVE  InitWith(s, v) \in Inits(s) /\ v \in UNION {Values(s, "client", y) : y \in Exponents}
BY DEF Inits

(* The queue of the server gets one packet.                                 *)
LEMMA StartGrows ==
    ASSUME NEW s \in Settings, NEW r, NEW w, NEW a, AtStart(s, r, w, <<>>)
    PROVE  AtStart(s, r, w \o <<a>>, <<a>>)
<1>1. CASE r = Fresh(s) /\ w = <<KexInitOf(s, "client")>> \o Guessed(s) \o <<>>
  <2>1. w \o <<a>> = <<KexInitOf(s, "client")>> \o Guessed(s) \o <<a>>
    BY <1>1, QueueGrows
  <2> QED
    BY <1>1, <2>1 DEF AtStart
<1>2. CASE w = Guessed(s) \o <<>>
  <2>1. w \o <<a>> = Guessed(s) \o <<a>>
    BY <1>2, QueueGrows
  <2> QED
    BY <1>2, <2>1 DEF AtStart
<1> QED
  BY <1>1, <1>2 DEF AtStart

(* A server that has agreed has read the KEXINIT only.                      *)
LEMMA StartRead ==
    ASSUME NEW s \in Settings, NEW S, NEW q \in AtMostOne(S), NEW w, AtStart(s, Fresh(s), w, q),
           NEW r, \/ EngineOf(s) \in GroupEngines /\ r = Ready(s)
                  \/ EngineOf(s) \in FixedEngines
                     /\ \E x \in Exponents : \E v \in Values(s, "server", x) : r = Prepared(s, x, v)
    PROVE  AtStart(s, r, Tail(w), q)
<1>1. w = <<KexInitOf(s, "client")>> \o Guessed(s) \o q
  <2>1. Fresh(s).kex = None /\ Fresh(s).expected = {"KEXINIT"}
    BY FreshFacts
  <2>2. Ready(s).expected = RequestTypes(s)
    BY ReadyFacts
  <2>3. "KEXINIT" \notin RequestTypes(s)
    BY DEF RequestTypes
  <2>4. Fresh(s) # Ready(s)
    BY <2>1, <2>2, <2>3
  <2>5. \A x, v : Fresh(s) # Prepared(s, x, v)
    <3>1. \A x, v : Prepared(s, x, v).expected = {InitType(s)}
      BY PreparedFacts
    <3>2. InitType(s) # "KEXINIT"
      BY DEF InitType
    <3> QED
      BY <2>1, <3>1, <3>2
  <2> QED
    BY <2>4, <2>5 DEF AtStart
<1>2. Tail(w) = Guessed(s) \o q
  <2>1. PICK k : k = KexInitOf(s, "client")
    OBVIOUS
  <2> QED
    BY <1>1, <2>1, StartQueue
<1> QED
  BY <1>2 DEF AtStart

(* Which of the descriptions of a waiting client is true.                   *)
LEMMA ClientStages ==
    ASSUME NEW s \in Settings, NEW x, NEW v
    PROVE  /\ Fresh(s) # SentRequest(s) /\ Fresh(s) # SentInit(s, x, v)
           /\ EngineOf(s) \in GroupEngines => SentRequest(s) # SentInit(s, x, v)
<1>1. Fresh(s).expected = {"KEXINIT"} /\ SentRequest(s).expected = {GroupType(s)}
      /\ SentInit(s, x, v).expected = RepliesTo(s)
  BY FreshFacts, SentRequestFacts, SentFacts
<1>2. GroupType(s) # "KEXINIT"
  BY DEF GroupType
<1>3. "KEXINIT" \notin RepliesTo(s) /\ GroupType(s) \notin RepliesTo(s)
  BY DEF RepliesTo, ReplyType, GssReplies, GroupType
<1> QED
  BY <1>1, <1>2, <1>3

LEMMA FreshClient ==
    ASSUME ExchangeInv, t["client"] = Fresh(setting)
    PROVE  /\ wire["client"] = <<KexInitOf(setting, "server")>>
           /\ t["server"].pc = "wait" => AtStart(setting, t["server"], wire["server"], <<>>)
<1>1. setting \in Settings /\ t["client"].pc = "wait"
  BY FreshFacts DEF ExchangeInv
<1>2. ClientWaits(setting, t["client"], wire["client"], t["server"], wire["server"])
  BY <1>1 DEF ExchangeInv
<1> QED
  BY <1>1, <1>2, ClientStages DEF ClientWaits

LEMMA AskedClient ==
    ASSUME ExchangeInv, t["client"] = SentRequest(setting), EngineOf(setting) \in GroupEngines,
           wire["client"] = <<GroupOf(setting)>>
    PROVE  t["server"].pc = "wait" => Granting(setting, t["server"]) /\ wire["server"] = <<>>
<1>1. setting \in Settings /\ t["client"].pc = "wait"
  BY SentRequestFacts DEF ExchangeInv
<1>2. ClientWaits(setting, t["client"], wire["client"], t["server"], wire["server"])
  BY <1>1 DEF ExchangeInv
<1> QED
  BY <1>1, <1>2, ClientStages DEF ClientWaits

LEMMA ClientMovesKeep ==
    ASSUME ExchangeInv, ClientMoves
    PROVE  ExchangeInv'
<1> DEFINE s == setting
           sr == t["server"]
           sw == wire["server"]
<1>1. s \in Settings /\ "client" \in Sides /\ "server" \in Sides
      /\ Peer("client") = "server" /\ Peer("server") = "client"
  BY SidesFacts DEF ExchangeInv
<1>2. /\ OnlyMoves("client") /\ s' = s /\ t'["server"] = sr /\ t["client"].pc = "wait"
      /\ t' = [d \in Sides |-> t'[d]] /\ wire' = [d \in Sides |-> wire'[d]]
      /\ \A d \in Sides : Sane(s, d, t'[d])
  BY <1>1, EndsSane DEF ClientMoves, OnlyMoves
<1>3. sr.pc = "wait" => ServerWaits(s, sr, sw)
  BY DEF ExchangeInv
<1>4. SUFFICES /\ sr.pc = "wait" => ServerWaits(s, sr, wire'["server"])
               /\ t'["client"].pc = "wait" =>
                    ClientWaits(s, t'["client"], wire'["client"], sr, wire'["server"])
               /\ t'["client"].pc = "done" => ClientDone(s, t'["client"], sr)
  BY <1>1, <1>2 DEF ExchangeInv
<1>5. CASE Stopped("client")
  BY <1>1, <1>3, <1>5 DEF Stopped
<1>6. CASE /\ t["client"] = Fresh(s) /\ EngineOf(s) \in GroupEngines
           /\ t'["client"] = SentRequest(s) /\ wire'["client"] = <<>>
           /\ wire'["server"] = sw \o <<RequestOf(s)>>
  <2>1. sr.pc = "wait" => AtStart(s, sr, wire'["server"], <<RequestOf(s)>>)
    BY <1>1, <1>6, FreshClient, StartGrows
  <2>2. <<RequestOf(s)>> \in AtMostOne(Firsts(s))
    <3>1. RequestOf(s) \in Firsts(s)
      BY <1>6 DEF Firsts, GroupEngines, FixedEngines
    <3> QED
      BY <3>1, OneMore
  <2>3. t'["client"].pc = "wait"
    BY <1>1, <1>6, SentRequestFacts
  <2>4. ClientWaits(s, t'["client"], wire'["client"], sr, wire'["server"])
    BY <1>6, <2>1 DEF ClientWaits
  <2>5. sr.pc = "wait" => ServerWaits(s, sr, wire'["server"])
    BY <2>1, <2>2 DEF ServerWaits
  <2> QED
    BY <2>3, <2>4, <2>5
<1>7. CASE t["client"] = Fresh(s) /\ EngineOf(s) \in FixedEngines /\ SendsInit
  <2>1. PICK x \in Exponents : \E v \in Values(s, "client", x) :
           t'["client"] = SentInit(s, x, v) /\ wire'["server"] = sw \o <<InitWith(s, v)>>
    BY <1>7 DEF SendsInit
  <2>2. PICK v \in Values(s, "client", x) :
           t'["client"] = SentInit(s, x, v) /\ wire'["server"] = sw \o <<InitWith(s, v)>>
    BY <2>1
  <2>3. wire'["client"] = <<>> /\ t'["client"].pc = "wait"
    BY <1>1, <1>7, <2>2, SentFacts DEF SendsInit
  <2>4. sr.pc = "wait" => AtStart(s, sr, wire'["server"], <<InitWith(s, v)>>)
    BY <1>1, <1>7, <2>2, FreshClient, StartGrows
  <2>5. <<InitWith(s, v)>> \in AtMostOne(Firsts(s))
    <3>1. InitWith(s, v) \in Firsts(s)
      BY <1>7, InitOf DEF Firsts, Inits
    <3> QED
      BY <3>1, OneMore
  <2>6. ClientWaits(s, t'["client"], wire'["client"], sr, wire'["server"])
    BY <1>7, <2>2, <2>3, <2>4 DEF ClientWaits
  <2>7. sr.pc = "wait" => ServerWaits(s, sr, wire'["server"])
    BY <2>4, <2>5 DEF ServerWaits
  <2> QED
    BY <2>3, <2>6, <2>7
<1>8. CASE /\ t["client"] = SentRequest(s) /\ EngineOf(s) \in GroupEngines
           /\ wire["client"] = <<GroupOf(s)>> /\ SendsInit
  <2>1. PICK x \in Exponents : \E v \in Values(s, "client", x) :
           t'["client"] = SentInit(s, x, v) /\ wire'["server"] = sw \o <<InitWith(s, v)>>
    BY <1>8 DEF SendsInit
  <2>2. PICK v \in Values(s, "client", x) :
           t'["client"] = SentInit(s, x, v) /\ wire'["server"] = sw \o <<InitWith(s, v)>>
    BY <2>1
  <2>3. wire'["client"] = <<>> /\ t'["client"].pc = "wait"
    BY <1>1, <1>8, <2>2, SentFacts DEF SendsInit
  <2>4. sr.pc = "wait" => Granting(s, sr) /\ wire'["server"] = <<InitWith(s, v)>>
    <3>1. sr.pc = "wait" => Granting(s, sr) /\ sw = <<>>
      BY <1>8, AskedClient
    <3>2. <<>> \o <<InitWith(s, v)>> = <<InitWith(s, v)>>
      OBVIOUS
    <3> QED
      BY <2>2, <3>1, <3>2
  <2>5. <<InitWith(s, v)>> \in AtMostOne(Inits(s))
    BY InitOf, OneMore
  <2>6. ClientWaits(s, t'["client"], wire'["client"], sr, wire'["server"])
    BY <1>8, <2>2, <2>3, <2>4 DEF ClientWaits
  <2>7. sr.pc = "wait" => ServerWaits(s, sr, wire'["server"])
    BY <2>4, <2>5 DEF ServerWaits
  <2> QED
    BY <2>3, <2>6, <2>7
<1>9. CASE t'["client"].pc = "done" /\ ClientDone(s, t'["client"], sr)
  BY <1>9 DEF ClientDone
<1> QED
  BY <1>5, <1>6, <1>7, <1>8, <1>9, <1>2 DEF ClientMoves

(* What a server expects tells where it is.                                 *)
LEMMA ServerStages ==
    ASSUME NEW s \in Settings
    PROVE  /\ Fresh(s) # Ready(s) /\ Fresh(s) # Granted(s) /\ Ready(s) # Granted(s)
           /\ \A x, v : Fresh(s) # Prepared(s, x, v)
           /\ ~Continuing(Fresh(s)) /\ ~Continuing(Ready(s)) /\ ~Continuing(Granted(s))
           /\ \A x, v : ~Continuing(Prepared(s, x, v))
<1>1. /\ Fresh(s).expected = {"KEXINIT"} /\ Ready(s).expected = RequestTypes(s)
      /\ Granted(s).expected = {InitType(s)}
      /\ \A x, v : Prepared(s, x, v).expected = {InitType(s)}
  BY FreshFacts, ReadyFacts, GrantedFacts, PreparedFacts
<1>2. InitType(s) \notin {"KEXINIT", "GEX_REQUEST", "GEX_REQUEST_OLD", "GSS_GROUPREQ",
                          "GSS_CONTINUE", "GSS_COMPLETE", "GSS_ERROR"}
  BY DEF InitType
<1>3. InitType(s) \notin RequestTypes(s) /\ "KEXINIT" \notin RequestTypes(s)
      /\ "GSS_CONTINUE" \notin RequestTypes(s)
  BY <1>2 DEF RequestTypes
<1>4. "GSS_CONTINUE" \notin {InitType(s)} /\ "GSS_CONTINUE" \notin {"KEXINIT"}
      /\ "KEXINIT" \notin {InitType(s)}
  BY <1>2
<1>5. \A r : "GSS_CONTINUE" \notin r.expected => ~Continuing(r)
  BY DEF Continuing
<1> QED
  BY <1>1, <1>3, <1>4, <1>5

LEMMA StartedQueue ==
    ASSUME NEW s \in Settings, s.guess = "none", NEW S, NEW q \in AtMostOne(S), NEW r, r # Fresh(s),
           NEW w, AtStart(s, r, w, q)
    PROVE  w = q
<1>1. w = Guessed(s) \o q
  BY DEF AtStart
<1> QED
  BY <1>1, QueueHead

(* A server that reads a value reads that of the client.                    *)
LEMMA ReadingClient ==
    ASSUME ExchangeInv, t["client"].pc = "wait", t["server"].pc = "wait",
           NEW v, Reading(setting, t["server"], wire["server"], v)
    PROVE  \E x \in Exponents : /\ v \in Values(setting, "client", x)
                                /\ t["client"] = SentInit(setting, x, v)
                                /\ wire["client"] = <<>>
<1> DEFINE s == setting
           c == t["client"]
           cw == wire["client"]
           sr == t["server"]
           sw == wire["server"]
<1>1. s \in Settings /\ s.guess = "none" /\ sw = <<InitWith(s, v)>> /\ sw # <<>>
  BY DEF ExchangeInv, Reading
<1>2. sr # Fresh(s) /\ ~Continuing(sr)
  BY <1>1, ServerStages DEF Reading, Granting
<1>3. ClientWaits(s, c, cw, sr, sw)
  BY DEF ExchangeInv
<1>4. ~AtStart(s, sr, sw, <<>>)
  BY <1>1, <1>2, StartedQueue, NoneYet
<1>5. ~AtStart(s, sr, sw, <<RequestOf(s)>>)
  <2> SUFFICES ASSUME AtStart(s, sr, sw, <<RequestOf(s)>>) PROVE FALSE
    OBVIOUS
  <2>1. <<RequestOf(s)>> \in AtMostOne({RequestOf(s)})
    BY OneMore
  <2>2. sw = <<RequestOf(s)>>
    BY <1>1, <1>2, <2>1, StartedQueue
  <2>3. InitWith(s, v) = RequestOf(s)
    BY <1>1, <2>2
  <2>4. InitWith(s, v).type = InitType(s)
        /\ RequestOf(s).type \in {"GEX_REQUEST", "GEX_REQUEST_OLD", "GSS_GROUPREQ"}
    BY DEF InitWith, RequestOf
  <2>5. InitType(s) \notin {"GEX_REQUEST", "GEX_REQUEST_OLD", "GSS_GROUPREQ"}
    BY DEF InitType
  <2> QED
    BY <2>3, <2>4, <2>5
<1>6. ASSUME NEW u, AtStart(s, sr, sw, <<InitWith(s, u)>>) \/ sw = <<InitWith(s, u)>>
      PROVE  u = v
  <2>1. <<InitWith(s, u)>> \in AtMostOne({InitWith(s, u)})
    BY OneMore
  <2>2. sw = <<InitWith(s, u)>>
    BY <1>1, <1>2, <1>6, <2>1, StartedQueue
  <2>3. InitWith(s, u) = InitWith(s, v)
    BY <1>1, <2>2
  <2>4. InitWith(s, u).value = u /\ InitWith(s, v).value = v
    BY DEF InitWith
  <2> QED
    BY <2>3, <2>4
<1>7. \A u, m : ~HasAnswered(s, sr, u, m)
  BY DEF HasAnswered
<1>8. PICK x \in Exponents : \E u \in Values(s, "client", x) :
        /\ c = SentInit(s, x, u) /\ cw = <<>>
        /\ AtStart(s, sr, sw, <<InitWith(s, u)>>) \/ sw = <<InitWith(s, u)>>
  <2> HIDE DEF s, c, cw, sr, sw
  <2>1. sr.pc = "wait"
    BY DEF sr
  <2> QED
    BY <1>1, <1>2, <1>3, <1>4, <1>5, <1>7, <2>1 DEF ClientWaits
<1>9. PICK u \in Values(s, "client", x) :
        /\ c = SentInit(s, x, u) /\ cw = <<>>
        /\ AtStart(s, sr, sw, <<InitWith(s, u)>>) \/ sw = <<InitWith(s, u)>>
  BY <1>8
<1>10. u = v
  BY <1>6, <1>9
<1> QED
  BY <1>9, <1>10

(* A server that reads a request reads that of the client.                  *)
LEMMA RequestingClient ==
    ASSUME ExchangeInv, t["client"].pc = "wait", t["server"] = Ready(setting),
           setting.guess = "none", EngineOf(setting) \in GroupEngines,
           wire["server"] = <<RequestOf(setting)>>
    PROVE  t["client"] = SentRequest(setting) /\ wire["client"] = <<>>
<1> DEFINE s == setting
           c == t["client"]
           cw == wire["client"]
           sr == t["server"]
           sw == wire["server"]
<1>1. s \in Settings /\ sr.pc = "wait" /\ sw # <<>>
  BY ReadyFacts DEF ExchangeInv
<1>2. sr # Fresh(s) /\ ~Continuing(sr) /\ ~Granting(s, sr)
  BY <1>1, ServerStages DEF Granting
<1>3. ClientWaits(s, c, cw, sr, sw)
  BY DEF ExchangeInv
<1>4. ~AtStart(s, sr, sw, <<>>)
  BY <1>1, <1>2, StartedQueue, NoneYet
<1>5. \A u, m : ~HasAnswered(s, sr, u, m)
  BY <1>1 DEF HasAnswered
<1>6. EngineOf(s) \notin FixedEngines
  BY DEF GroupEngines, FixedEngines
<1> HIDE DEF s, c, cw, sr, sw
<1>7. c = SentRequest(s) /\ cw = <<>>
  BY <1>1, <1>2, <1>3, <1>4, <1>5, <1>6 DEF ClientWaits
<1> QED
  BY <1>7 DEF s, c, cw

(* A server that stops leaves its client waiting where it is.               *)
LEMMA ServerStops ==
    ASSUME NEW s, NEW c, NEW cw, NEW sr, NEW sw, ClientWaits(s, c, cw, sr, sw), sr.pc = "wait",
           NEW r, r.pc # "wait", NEW w
    PROVE  ClientWaits(s, c, cw, r, w)
<1>1. \A u, m : ~HasAnswered(s, sr, u, m)
  BY DEF HasAnswered
<1> QED
  BY <1>1 DEF ClientWaits

(* A server that agrees leaves its client waiting where it is.              *)
LEMMA ServerAgrees ==
    ASSUME NEW s \in Settings, NEW c, NEW cw, NEW sw, ClientWaits(s, c, cw, Fresh(s), sw),
           NEW r, r.pc = "wait",
           \/ EngineOf(s) \in GroupEngines /\ r = Ready(s)
           \/ EngineOf(s) \in FixedEngines
              /\ \E x \in Exponents : \E v \in Values(s, "server", x) : r = Prepared(s, x, v)
    PROVE  ClientWaits(s, c, cw, r, Tail(sw))
<1>1. Fresh(s).pc = "wait"
  BY FreshFacts
<1>2. ~Continuing(Fresh(s)) /\ ~Granting(s, Fresh(s))
  BY ServerStages DEF Granting
<1>3. \A u, m : ~HasAnswered(s, Fresh(s), u, m)
  BY <1>1 DEF HasAnswered
<1>4. AtStart(s, Fresh(s), sw, <<>>) => AtStart(s, r, Tail(sw), <<>>)
  BY NoneYet, StartRead
<1>5. \A a : AtStart(s, Fresh(s), sw, <<a>>) => AtStart(s, r, Tail(sw), <<a>>)
  <2> SUFFICES ASSUME NEW a, AtStart(s, Fresh(s), sw, <<a>>) PROVE AtStart(s, r, Tail(sw), <<a>>)
    OBVIOUS
  <2>1. <<a>> \in AtMostOne({a})
    BY OneMore
  <2> QED
    BY <2>1, StartRead
<1> QED
  BY <1>1, <1>2, <1>3, <1>4, <1>5 DEF ClientWaits

LEMMA ServerMovesKeep ==
    ASSUME ExchangeInv, ServerMoves
    PROVE  ExchangeInv'
<1> DEFINE s == setting
           c == t["client"]
           cw == wire["client"]
           sr == t["server"]
           sw == wire["server"]
           r == t'["server"]
<1>1. s \in Settings /\ "client" \in Sides /\ "server" \in Sides
      /\ Peer("client") = "server" /\ Peer("server") = "client"
  BY SidesFacts DEF ExchangeInv
<1>2. /\ OnlyMoves("server") /\ s' = s /\ t'["client"] = c /\ sr.pc = "wait"
      /\ t' = [d \in Sides |-> t'[d]] /\ wire' = [d \in Sides |-> wire'[d]]
      /\ \A d \in Sides : Sane(s, d, t'[d])
  BY <1>1, EndsSane DEF ServerMoves, OnlyMoves
<1>3. /\ ServerWaits(s, sr, sw)
      /\ c.pc = "wait" => ClientWaits(s, c, cw, sr, sw)
      /\ c.pc # "done"
  BY <1>2 DEF ExchangeInv, ClientDone
<1>4. SUFFICES /\ r.pc = "wait" => ServerWaits(s, r, wire'["server"])
               /\ c.pc = "wait" => ClientWaits(s, c, wire'["client"], r, wire'["server"])
  BY <1>1, <1>2, <1>3 DEF ExchangeInv
<1>5. CASE Stopped("server")
  <2>1. r.pc # "wait" /\ (c.pc = "wait" => wire'["client"] = cw)
    BY <1>1, <1>5 DEF Stopped
  <2> QED
    BY <1>2, <1>3, <2>1, ServerStops
<1>6. CASE /\ sr = Fresh(s) /\ (c.pc = "wait" => wire'["client"] = cw)
           /\ wire'["server"] = Tail(sw)
           /\ \/ EngineOf(s) \in GroupEngines /\ r = Ready(s)
              \/ /\ EngineOf(s) \in FixedEngines
                 /\ \E x \in Exponents : \E v \in Values(s, "server", x) : r = Prepared(s, x, v)
  <2>1. r.pc = "wait"
    BY <1>1, <1>6, ReadyFacts, PreparedFacts
  <2>2. c.pc = "wait" => ClientWaits(s, c, wire'["client"], r, wire'["server"])
    BY <1>1, <1>3, <1>6, <2>1, ServerAgrees
  <2>3. PICK q \in AtMostOne(Firsts(s)) : AtStart(s, Fresh(s), sw, q)
    BY <1>1, <1>3, <1>6, ServerStages DEF ServerWaits, Granting
  <2>4. AtStart(s, r, Tail(sw), q)
    BY <1>1, <1>6, <2>3, StartRead
  <2>5. ServerWaits(s, r, wire'["server"])
    BY <1>6, <2>4 DEF ServerWaits
  <2> QED
    BY <2>2, <2>5
<1>7. CASE /\ sr = Ready(s) /\ sw = <<RequestOf(s)>>
           /\ Granting(s, r) /\ wire'["server"] = <<>>
           /\ wire'["client"] = cw \o <<GroupOf(s)>>
  <2>1. s.guess = "none" /\ EngineOf(s) \in GroupEngines
    BY <1>7 DEF Granting
  <2>2. ServerWaits(s, r, wire'["server"])
    BY <1>7, NoneYet DEF ServerWaits
  <2>3. ASSUME c.pc = "wait" PROVE ClientWaits(s, c, wire'["client"], r, wire'["server"])
    <3>1. c = SentRequest(s) /\ cw = <<>>
      BY <1>7, <2>1, <2>3, RequestingClient
    <3>2. <<>> \o <<GroupOf(s)>> = <<GroupOf(s)>>
      OBVIOUS
    <3>3. wire'["client"] = <<GroupOf(s)>>
      BY <1>7, <3>1, <3>2
    <3> QED
      BY <1>7, <2>1, <3>1, <3>3 DEF ClientWaits
  <2> QED
    BY <2>2, <2>3
<1>8. ASSUME NEW v, Reading(s, sr, sw, v), wire'["server"] = <<>>, NEW m,
             wire'["client"] = cw \o <<m>>,
             \/ /\ Continuing(r) /\ r.pc = "wait" /\ EngineOf(s) \in {"gss", "gssgex"}
                /\ m = [type |-> "GSS_CONTINUE"]
             \/ HasAnswered(s, r, v, m)
      PROVE  /\ r.pc = "wait" => ServerWaits(s, r, wire'["server"])
             /\ c.pc = "wait" => ClientWaits(s, c, wire'["client"], r, wire'["server"])
  <2>1. r.pc = "wait" => ServerWaits(s, r, wire'["server"])
    BY <1>8 DEF ServerWaits, HasAnswered
  <2>2. ASSUME c.pc = "wait" PROVE ClientWaits(s, c, wire'["client"], r, wire'["server"])
    <3>1. PICK x \in Exponents : /\ v \in Values(s, "client", x)
                                 /\ c = SentInit(s, x, v) /\ cw = <<>>
      BY <1>2, <1>8, <2>2, ReadingClient
    <3>2. <<>> \o <<m>> = <<m>>
      OBVIOUS
    <3>3. wire'["client"] = <<m>> /\ Head(<<m>>) = m
      BY <1>8, <3>1, <3>2
    <3>4. EngineOf(s) \in Engines
      BY <1>8 DEF Reading, Granting, GroupEngines, FixedEngines, Engines
    <3> QED
      BY <1>8, <3>1, <3>3, <3>4 DEF ClientWaits
  <2> QED
    BY <2>1, <2>2
<1>9. CASE \E v \in UNION {Values(s, "client", x) : x \in Exponents} :
             /\ Reading(s, sr, sw, v) /\ wire'["server"] = <<>>
             /\ \/ /\ Continuing(r) /\ r.pc = "wait" /\ EngineOf(s) \in {"gss", "gssgex"}
                   /\ wire'["client"] = cw \o <<[type |-> "GSS_CONTINUE"]>>
                \/ \E m : wire'["client"] = cw \o <<m>> /\ HasAnswered(s, r, v, m)
  BY <1>8, <1>9
<1> QED
  BY <1>5, <1>6, <1>7, <1>9 DEF ServerMoves

LEMMA ExchangeStart ==
    ASSUME ExchangeInit
    PROVE  ExchangeInv
<1> DEFINE s == setting
<1>1. s \in Settings /\ "client" \in Sides /\ "server" \in Sides
  BY SidesFacts DEF ExchangeInit
<1>2. /\ t = [e \in Sides |-> Fresh(s)]
      /\ wire["server"] = <<KexInitOf(s, "client")>> \o Guessed(s)
      /\ wire["client"] = <<KexInitOf(s, "server")>>
      /\ wire = [e \in Sides |-> wire[e]]
  BY DEF ExchangeInit, Sides
<1>3. t["client"] = Fresh(s) /\ t["server"] = Fresh(s) /\ t = [e \in Sides |-> t[e]]
  BY <1>1, <1>2
<1>4. \A e \in Sides : Sane(s, e, t[e])
  <2>1. ASSUME NEW e \in Sides PROVE Sane(s, e, Fresh(s))
    BY <1>1, FreshSound, FreshFacts, PlainReason DEF Sane
  <2> QED
    BY <1>2, <2>1
<1>5. wire["server"] = <<KexInitOf(s, "client")>> \o Guessed(s) \o <<>>
  <2>1. PICK k : k = KexInitOf(s, "client")
    OBVIOUS
  <2>2. PICK P : <<k>> \in Seq(P) /\ Guessed(s) \in Seq(P)
    BY <1>1, NoneYet, QueueParts
  <2>3. <<k>> \o Guessed(s) \in Seq(P)
    BY <2>2, ConcatProperties
  <2>4. (<<k>> \o Guessed(s)) \o <<>> = <<k>> \o Guessed(s)
    BY <2>3, ConcatEmptySeq
  <2> QED
    BY <1>2, <2>1, <2>4
<1>6. AtStart(s, t["server"], wire["server"], <<>>)
  BY <1>3, <1>5 DEF AtStart
<1>7. ServerWaits(s, t["server"], wire["server"])
  BY <1>6, NoneYet DEF ServerWaits
<1>8. ClientWaits(s, t["client"], wire["client"], t["server"], wire["server"])
  BY <1>2, <1>3, <1>6 DEF ClientWaits
<1>9. t["client"].pc = "wait"
  BY <1>3, FreshFacts
<1> QED
  BY <1>1, <1>2, <1>3, <1>4, <1>7, <1>8, <1>9 DEF ExchangeInv

LEMMA ExchangeIdle ==
    ASSUME ExchangeInv, UNCHANGED exchangeVars
    PROVE  ExchangeInv'
BY DEF exchangeVars, ExchangeInv

(* What is known of an exchange holds throughout.                           *)
THEOREM ExchangeInvariant == ExchangeSpec => []ExchangeInv
<1>1. ExchangeInit => ExchangeInv
  BY ExchangeStart
<1>2. ExchangeInv /\ [ExchangeNext]_exchangeVars => ExchangeInv'
  <2> SUFFICES ASSUME ExchangeInv, [ExchangeNext]_exchangeVars PROVE ExchangeInv'
    OBVIOUS
  <2>1. CASE UNCHANGED exchangeVars
    BY <2>1, ExchangeIdle
  <2>2. ASSUME NEW e \in Sides, Run(e) \/ HandshakeTimesOut(e) \/ FallsSilent(e)
        PROVE  ExchangeInv'
    <3>1. CASE e = "client"
      BY <2>2, <3>1, ClientSteps, ClientMovesKeep
    <3>2. CASE e = "server"
      BY <2>2, <3>2, ServerSteps, ServerMovesKeep
    <3> QED
      BY <3>1, <3>2, SidesFacts
  <2> QED
    BY <2>1, <2>2 DEF ExchangeNext
<1> QED
  BY <1>1, <1>2, PTL DEF ExchangeSpec

-----------------------------------------------------------------------------
LEMMA FitsIsConsistent == Fits(setting) <=> Consistent
BY DEF Fits, Consistent

LEMMA InvAgrees ==
    ASSUME ExchangeInv
    PROVE  EndsAgree
<1> DEFINE s == setting
           c == t["client"]
           sr == t["server"]
<1>1. "client" \in Sides /\ "server" \in Sides /\ Peer("client") = "server"
  BY SidesFacts
<1>2. s \in Settings /\ \A e \in Sides : Sane(s, e, t[e])
  BY DEF ExchangeInv
<1>3. ExchangeTypeOK
  BY <1>2 DEF ExchangeTypeOK, Sane, Sound
<1>4. SameAlgorithms
  <2> SUFFICES ASSUME c.kex # None, sr.kex # None, c.pc # "dead", sr.pc # "dead"
               PROVE  c.kex = sr.kex /\ c.key = sr.key /\ c.local = sr.remote /\ c.remote = sr.local
    BY DEF SameAlgorithms
  <2>1. PicksKept(s, "client", c) /\ PicksKept(s, "server", sr)
    BY <1>1, <1>2 DEF Sane
  <2> QED
    BY <2>1 DEF PicksKept
<1>5. ASSUME c.pc = "done" PROVE ClientDone(s, c, sr)
  BY <1>5 DEF ExchangeInv
<1>6. SecretShared
  <2> SUFFICES ASSUME c.pc = "done", ~Unproved PROVE c.K = sr.K /\ c.H = sr.H
    BY DEF SecretShared
  <2>1. ClientDone(s, c, sr)
    BY <1>5
  <2>2. EngineOf(s) = "gssgex" => Fits(s) \/ s.earlier = None
    <3>1. CASE c.kex = "gssgex"
      BY <3>1, FitsIsConsistent DEF Unproved
    <3>2. CASE c.kex # "gssgex"
      BY <2>1, <3>2 DEF ClientDone
    <3> QED
      BY <3>1, <3>2
  <2> QED
    BY <2>1, <2>2 DEF ClientDone
<1>7. SameSession
  BY <1>5 DEF SameSession, ClientDone
<1> QED
  BY <1>3, <1>4, <1>6, <1>7 DEF EndsAgree

(* An exchange that succeeds leaves the two ends with the same engine, host key, *)
(* ciphers, secret, hash and session id, whatever they offered, asked for and    *)
(* sent.                                                                         *)
THEOREM ExchangeAgrees == ExchangeSpec => []EndsAgree
BY ExchangeInvariant, InvAgrees, PTL

LEMMA InvAlarm ==
    ASSUME ExchangeInv
    PROVE  NoFalseAlarm
<1>1. \A e \in Sides : Reason(setting, e, t[e].why)
  BY DEF ExchangeInv, Sane
<1> QED
  BY <1>1, FitsIsConsistent DEF Reason, NoFalseAlarm

(* No end of an exchange fails by itself.                                   *)
THEOREM ExchangeRaisesNoFalseAlarm == ExchangeSpec => []NoFalseAlarm
BY ExchangeInvariant, InvAlarm, PTL

LEMMA InvFits ==
    ASSUME ExchangeInv
    PROVE  GroupFits
<1> DEFINE s == setting
           p == t["server"].p
           r == IF s.request.old THEN [ClassBits EXCEPT !.n = s.request.n] ELSE s.request
           able == {b \in s.pack : b >= r.min /\ b <= r.max}
<1>1. s \in Settings
  BY DEF ExchangeInv
<1>2. p = None \/ (HasPrimes(s) /\ EngineOf(s) \in GroupEngines /\ p = PrimeOf(s))
  <2>1. Sound(s, "server", t["server"])
    BY SidesFacts DEF ExchangeInv, Sane
  <2> QED
    BY <2>1 DEF Sound
<1>3. ASSUME p # None, Consistent, able # {}
      PROVE  p \in able /\ \A b \in able : b >= r.n => p >= r.n /\ p <= b
  <2>1. Fits(s) /\ HasPrimes(s) /\ EngineOf(s) \in GroupEngines /\ p = PrimeOf(s)
    BY <1>2, <1>3, FitsIsConsistent
  <2> HIDE DEF s, r, able, p
  <2>2. r = IF s.request.old THEN [ClassBits EXCEPT !.n = s.request.n] ELSE s.request
    BY DEF r
  <2>3. able = {b \in s.pack : b >= r.min /\ b <= r.max}
    BY DEF able
  <2> QED
    BY <1>1, <1>3, <2>1, <2>2, <2>3, PrimeFits
<1> QED
  BY <1>3 DEF GroupFits

(* The server's prime is of a size that was asked for, and the nearest to the    *)
(* wish from above, whatever primes it has.                                      *)
THEOREM GroupIsNearest == ExchangeSpec => []GroupFits
BY ExchangeInvariant, InvFits, PTL
=============================================================================
