------------------------------- MODULE Userauth -------------------------------

(****************************************************************************)
(* User authentication between two transports: a user thread of the client  *)
(* that calls Transport.auth_none, auth_password, auth_publickey or         *)
(* auth_interactive, the client's transport thread, and the server's, which *)
(* asks the server object.  wetland is this server for its hacker, and this *)
(* client for its container.  Every call makes a new AuthHandler, and what  *)
(* the server sends is handled by the newest one, whichever request it      *)
(* answers.  (Auth looks at what wetland's server object decides.)          *)
(****************************************************************************)
EXTENDS Naturals, Sequences, FiniteSets

CONSTANTS
    MaxCalls,     \* bound on the user's calls
    MaxTimeouts,  \* how many waits run into auth_timeout
    MaxQueries,   \* how many questions a server object asks
    MaxFails,     \* failures after which the server disconnects, 10
    Methods,      \* what the user tries
    Allowances,   \* the lists get_allowed_auths may return
    Users         \* the user names

AllMethods == {"none", "password", "publickey", "interactive"}
Nobody == "nobody"

ASSUME BoundsAssumption ==
    MaxCalls \in Nat /\ MaxTimeouts \in Nat /\ MaxQueries \in Nat /\ MaxFails \in Nat \ {0}
ASSUME MethodsAssumption ==
    Methods \subseteq AllMethods /\ Allowances \subseteq SUBSET AllMethods /\ Nobody \notin Users

VARIABLES
    user,      \* the user thread: where it is in which call
    handler,   \* transport.auth_handler of the client
    active,    \* the client's transport is active
    saved,     \* saved_exception of the client's transport
    c2s,       \* packets on their way to the server
    s2c,       \* packets on their way to the client
    server,    \* the server's transport and its AuthHandler
    timeouts,  \* waits that have run out
    answers,   \* history: what the server answered to which request
    ignored,   \* history: requests taken when the server had accepted one
    verdicts   \* history: how the calls ended

client == <<user, handler, active, saved>>
wires == <<c2s, s2c>>
history == <<answers, ignored, verdicts>>
vars == <<client, wires, server, timeouts, history>>

NoHandler == [num |-> 0, method |-> "none", name |-> Nobody, authenticated |-> FALSE, event |-> FALSE]

\* fallback: the method of the call is being replaced by interactive, since the
\* server's answer to request first did not list it.
Idle == [pc |-> "idle", call |-> 0, first |-> 0, name |-> Nobody, fallback |-> FALSE]

Init ==
    /\ user = Idle /\ handler = NoHandler
    /\ active = TRUE /\ saved = "none"
    /\ c2s = <<>> /\ s2c = <<>>
    /\ \E allowed \in Allowances :
          server = [serving |-> TRUE, authenticated |-> FALSE, name |-> Nobody, fails |-> 0,
                    queries |-> 0, asked |-> 0, allowed |-> allowed]
    /\ timeouts = 0
    /\ answers = {} /\ ignored = {} /\ verdicts = {}

(****************************************************************************)
(* The user thread: auth_* and wait_for_response.                           *)
(****************************************************************************)
\* Mutant: the handler of the call before is used again.
FreshHandlerKept(method, name) ==
    [handler EXCEPT !.num = @ + 1, !.method = method, !.name = name]

FreshHandler(method, name) ==
    [num |-> handler.num + 1, method |-> method, name |-> name,
     authenticated |-> FALSE, event |-> FALSE]

\* _request_auth
Requests(method, name, u) ==
    /\ handler' = FreshHandler(method, name)
    /\ c2s' = Append(c2s, [type |-> "SERVICE_REQUEST"])
    /\ user' = u

Call ==
    /\ user.pc = "idle" /\ user.call < MaxCalls /\ active
    /\ \E method \in Methods, name \in Users :
          Requests(method, name, [pc |-> "wait", call |-> user.call + 1,
                                  first |-> handler.num + 1, name |-> name, fallback |-> FALSE])
    /\ UNCHANGED <<active, saved, s2c, server, timeouts, history>>

\* The call ends.
Returns(verdict) ==
    /\ verdicts' = verdicts \cup
          {[call |-> user.call, first |-> user.first, last |-> handler.num,
            verdict |-> verdict, late |-> timeouts # 0]}
    /\ user' = [user EXCEPT !.pc = "idle", !.fallback = FALSE]

\* In a fallback an SSHException gives way to the one before.
Raises(exception) == Returns(IF user.fallback THEN "badtype" ELSE exception)

\* is_active is looked at before the event; what ended the transport is raised,
\* and is not always an SSHException.
SeesEnd ==
    /\ user.pc = "wait" /\ ~active
    /\ Returns("error") \/ Raises("error")
    /\ saved' = "none"
    /\ UNCHANGED <<handler, active, wires, server, timeouts, answers, ignored>>

Falls == /\ saved = "badtype" /\ handler.method = "password" /\ ~user.fallback
         /\ "interactive" \in server.allowed

\* Mutant: saved_exception stays after it was raised.
TakesExceptionNot == UNCHANGED saved

\* get_exception
TakesException == saved' = "none"

SeesEvent ==
    /\ user.pc = "wait" /\ active /\ handler.event
    /\ IF handler.authenticated THEN Returns("success") /\ UNCHANGED saved
       ELSE /\ ~Falls
            /\ CASE saved = "partial" -> Returns("partial")
                 [] saved = "none" -> Raises("failed")
                 [] OTHER -> Raises(saved)
            /\ TakesException
    /\ UNCHANGED <<handler, active, wires, server, timeouts, answers, ignored>>

\* auth_password tries auth_interactive with the password.
FallsBack ==
    /\ user.pc = "wait" /\ active /\ handler.event /\ ~handler.authenticated /\ Falls
    /\ Requests("interactive", user.name, [user EXCEPT !.fallback = TRUE])
    /\ TakesException
    /\ UNCHANGED <<active, s2c, server, timeouts, history>>

\* auth_timeout
TimesOut ==
    /\ user.pc = "wait" /\ active /\ ~handler.event /\ timeouts < MaxTimeouts
    /\ timeouts' = timeouts + 1
    /\ Raises("timeout")
    /\ UNCHANGED <<handler, active, saved, wires, server, answers, ignored>>

(****************************************************************************)
(* The client's transport thread: the newest handler takes what arrives.    *)
(****************************************************************************)
Arrives(type) == active /\ s2c # <<>> /\ Head(s2c).type = type

Takes == s2c' = Tail(s2c)

\* An exception ends run: it is saved, and abort sets the event.
Ends(why) ==
    /\ active' = FALSE /\ saved' = why
    /\ handler' = [handler EXCEPT !.event = TRUE]

\* The name is gone when this handler has had a FAILURE already.
ServiceAccept ==
    /\ Arrives("ACCEPT") /\ Takes
    /\ IF handler.name = Nobody
       THEN Ends("error") /\ UNCHANGED c2s
       ELSE /\ c2s' = Append(c2s, [type |-> "REQUEST", num |-> handler.num,
                                   method |-> handler.method, name |-> handler.name])
            /\ UNCHANGED <<handler, active, saved>>
    /\ UNCHANGED <<user, server, timeouts, history>>

\* Mutant: nobody is woken.
SuccessQuietly ==
    /\ Arrives("SUCCESS") /\ Takes
    /\ handler' = [handler EXCEPT !.authenticated = TRUE]
    /\ UNCHANGED <<user, active, saved, c2s, server, timeouts, history>>

Success ==
    /\ Arrives("SUCCESS") /\ Takes
    /\ handler' = [handler EXCEPT !.authenticated = TRUE, !.event = TRUE]
    /\ UNCHANGED <<user, active, saved, c2s, server, timeouts, history>>

Failure ==
    /\ Arrives("FAILURE") /\ Takes
    /\ saved' = CASE Head(s2c).partial -> "partial"
                  [] ~Head(s2c).partial /\ handler.method \notin server.allowed -> "badtype"
                  [] OTHER -> saved
    /\ handler' = [handler EXCEPT !.authenticated = FALSE, !.name = Nobody, !.event = TRUE]
    /\ UNCHANGED <<user, active, c2s, server, timeouts, history>>

\* The handler of the caller answers or raises; another method knows no questions.
InfoRequest ==
    /\ Arrives("INFO_REQUEST") /\ Takes
    /\ \/ /\ handler.method = "interactive"
          /\ c2s' = Append(c2s, [type |-> "INFO_RESPONSE"])
          /\ UNCHANGED <<handler, active, saved>>
       \/ Ends("error") /\ UNCHANGED c2s
    /\ UNCHANGED <<user, server, timeouts, history>>

\* MSG_DISCONNECT: the transport is not active any more, and nobody is woken.
ReadDisconnect ==
    /\ Arrives("DISCONNECT") /\ Takes
    /\ active' = FALSE
    /\ UNCHANGED <<user, handler, saved, c2s, server, timeouts, history>>

Eof ==
    /\ active /\ s2c = <<>> /\ ~server.serving
    /\ Ends("error")
    /\ UNCHANGED <<user, wires, server, timeouts, history>>

(****************************************************************************)
(* The server's transport thread.                                           *)
(****************************************************************************)
Asked(type) == server.serving /\ c2s # <<>> /\ Head(c2s).type = type

Sends(packets) == c2s' = Tail(c2s) /\ s2c' = s2c \o packets

Disconnect == <<[type |-> "DISCONNECT"]>>

ServiceRequest ==
    /\ Asked("SERVICE_REQUEST")
    /\ Sends(<<[type |-> "ACCEPT"]>>)
    /\ UNCHANGED <<client, server, timeouts, history>>

\* Mutant: the tenth failure is one more.
TooManyOneMore(fails) == fails > MaxFails

TooMany(fails) == fails >= MaxFails

\* Mutant: a failure takes back that a request was accepted.
AcceptsLast(s, result) == result = "success"

Accepts(s, result) == s.authenticated \/ result = "success"

\* _send_auth_result: result is the server object's verdict on request num.
SendAuthResult(s, num, result) ==
    LET fails == s.fails + IF result = "failed" THEN 1 ELSE 0
        failure == [type |-> "FAILURE", partial |-> result = "partial"]
        sent == [s EXCEPT !.fails = fails, !.queries = 0,
                          !.authenticated = Accepts(s, result),
                          !.serving = ~TooMany(fails)]
    IN  /\ server' = sent
        /\ Sends((IF result = "success" THEN <<[type |-> "SUCCESS"]>> ELSE <<failure>>)
                 \o IF TooMany(fails) THEN Disconnect ELSE <<>>)
        /\ answers' = answers \cup {[num |-> num, result |-> result, name |-> s.name]}

\* A server object accepts only what its get_allowed_auths lists.
Results(s, method) == {"failed"} \cup IF method \in s.allowed THEN {"success", "partial"} ELSE {}

\* _interactive_query
Query(s, num) ==
    /\ "interactive" \in s.allowed /\ s.queries < MaxQueries
    /\ server' = [s EXCEPT !.queries = @ + 1, !.asked = num]
    /\ Sends(<<[type |-> "INFO_REQUEST"]>>)
    /\ UNCHANGED answers

\* _disconnect_no_more_auth
NoMoreAuth(s) ==
    /\ server' = [s EXCEPT !.serving = FALSE]
    /\ Sends(Disconnect)
    /\ UNCHANGED answers

\* Mutant: the request of another user goes through.
OtherUserAccepted(name) == FALSE

\* The name may not change on the way.
OtherUser(name) == server.name \notin {Nobody, name}

\* Mutant: a request is answered though one was accepted.
IgnoresNothing == FALSE

Ignores == server.authenticated

UserauthRequest ==
    LET r == Head(c2s)
        s == [server EXCEPT !.name = r.name]
    IN  /\ Asked("REQUEST")
        /\ IF Ignores
           THEN Sends(<<>>) /\ UNCHANGED <<server, answers>>
           ELSE IF OtherUser(r.name) THEN NoMoreAuth(server)
           ELSE \/ r.method = "publickey" /\ NoMoreAuth(s)   \* the key is mangled
                \/ r.method = "interactive" /\ Query(s, r.num)
                \/ \E result \in Results(s, r.method) : SendAuthResult(s, r.num, result)
        /\ ignored' = IF server.authenticated THEN ignored \cup {r.num} ELSE ignored
        /\ UNCHANGED <<client, timeouts, verdicts>>

\* An answer is taken even when a request has been accepted.
InfoResponse ==
    /\ Asked("INFO_RESPONSE")
    /\ \/ Query(server, server.asked)
       \/ \E result \in Results(server, "interactive") :
             SendAuthResult(server, server.asked, result)
    /\ UNCHANGED <<client, timeouts, ignored, verdicts>>

\* The connection breaks, or the server's owner closes it.
ServerGoes ==
    /\ server.serving
    /\ server' = [server EXCEPT !.serving = FALSE]
    /\ UNCHANGED <<client, wires, timeouts, history>>

UserSteps == SeesEnd \/ SeesEvent \/ FallsBack
ClientRun ==
    ServiceAccept \/ Success \/ Failure \/ InfoRequest \/ ReadDisconnect \/ Eof
ServerRun == ServiceRequest \/ UserauthRequest \/ InfoResponse

Next == Call \/ TimesOut \/ UserSteps \/ ClientRun \/ ServerRun \/ ServerGoes

Spec == Init /\ [][Next]_vars

\* Both transport threads and a waiting user thread run; that auth_timeout ends a
\* wait is not counted on.
FairSpec == Spec /\ WF_vars(UserSteps) /\ WF_vars(ClientRun) /\ WF_vars(ServerRun)
-----------------------------------------------------------------------------

(* The state has its type; once the failures are used up the server is gone. *)
TypeOK ==
    /\ user.pc \in {"idle", "wait"} /\ user.call \in 0 .. MaxCalls
    /\ handler.method \in AllMethods /\ handler.name \in Users \cup {Nobody}
    /\ saved \in {"none", "partial", "badtype", "error"}
    /\ server.fails \in 0 .. MaxFails
    /\ server.fails = MaxFails => ~server.serving
    /\ server.queries \in 0 .. MaxQueries

Answered(num, results) == \E a \in answers : a.num = num /\ a.result \in results

(* A call that returns without an exception has been let in: the server has *)
(* accepted a request, and this very call's unless one before it timed out. *)
SuccessIsOwn ==
    \A v \in verdicts : v.verdict = "success" =>
        /\ \E a \in answers : a.result = "success"
        /\ ~v.late => Answered(v.last, {"success"})

(* What a call raises or returns of a step of several is the server's answer to *)
(* its own request, as long as no call has timed out (saved_exception).         *)
ErrorIsOwn ==
    \A v \in verdicts : ~v.late =>
        /\ v.verdict = "partial" => Answered(v.last, {"partial"})
        /\ v.verdict \in {"failed", "badtype"} => Answered(v.first, {"failed"})
        /\ v.verdict = "failed" => v.first = v.last

(* A client that believes it is let in has been let in by the server.       *)
BothAuthenticated == handler.authenticated => server.authenticated

(* One connection is for one user: every request that is answered is of the name *)
(* the first one had.                                                            *)
OneUser == \A a, b \in answers : a.name = b.name

(* Without a call that timed out the server accepts once.                   *)
AcceptedOnce ==
    timeouts = 0 => \A a, b \in answers : a.result = "success" /\ b.result = "success" => a = b

(* A call returns though nobody counts on auth_timeout, unless the server has *)
(* ignored its request, having accepted one before.                           *)
CallReturns == user.pc = "wait" ~> user.pc # "wait" \/ handler.num \in ignored

(* A call ends with the server's answer to its own request, whether it is let  *)
(* in or not, and the server accepts one request.                              *)
AnswersAreOwn == SuccessIsOwn /\ ErrorIsOwn /\ AcceptedOnce

(* It is the server that lets one in: one user, and before the client believes *)
(* it.                                                                         *)
ServerDecides == TypeOK /\ BothAuthenticated /\ OneUser
=============================================================================
