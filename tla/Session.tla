------------------------------- MODULE Session -------------------------------

(*********************************************************************************)
(* One connection of a hacker to wetland: the thread of SocketServer that runs   *)
(* tcp_handler.handle, the transport thread of the hacker's connection, which    *)
(* answers his requests by requests to the container, the transport thread of    *)
(* the container's connection, and the threads of the services.  What the        *)
(* transports do inside is in Opening; a channel here is an object that lives as *)
(* long as somebody refers to it, because the maps of channels hold weak         *)
(* references and Channel.__del__ closes what is collected.                      *)
(*********************************************************************************)
EXTENDS Naturals, Sequences, FiniteSets

CONSTANTS
    MaxHacker,   \* bound on the channels of the hacker's connection
    MaxDocker,   \* bound on the channels of the container's connection
    WishSets,    \* sets of requests a hacker may keep to
    Tries        \* 10, how often direct_service looks for the hacker's channel

AllWishes == {"pty", "shell", "exec", "env", "forward", "direct"}
ASSUME BoundsAssumption ==
    MaxHacker \in Nat /\ MaxDocker \in Nat /\ Tries \in Nat \ {0}
ASSUME WishSetsAssumption == WishSets \subseteq SUBSET AllWishes

HackerChannels == 1 .. MaxHacker
DockerChannels == 1 .. MaxDocker
None == 0

VARIABLES
    wishes,     \* what this hacker asks for
    handler,    \* the thread of SocketServer: pc, and the variable chann
    socket,     \* the hacker's socket is open
    accepts,    \* server_accepts of hacker_trans
    ht,         \* hacker_trans: pc, active, the variable chan of run, and the
                \*   locals of the request it handles
    dt,         \* docker_trans: pc, active, the variable chan of run
    hch,        \* state of the hacker's channels
    dch,        \* state of the container's channels
    chain,      \* ssh_server.chain
    service,    \* the service thread of a container's channel
    forwarding, \* _tcp_handler of docker_trans is set
    known,      \* history: channels opened before the look that ended accept's loop
    overtaken   \* history: container's channels, not served yet, after whose last
                \*   message another one had a message

hackers == <<socket, ht, hch, accepts>>
dockers == <<dt, dch>>
history == <<known, overtaken>>
sessionVars == <<wishes, handler, hackers, dockers, chain, service, forwarding, history>>

NoService == [pc |-> "none", h |-> None, goal |-> None, tries |-> 0, answer |-> "none"]
Absent == [state |-> "none", linked |-> FALSE]

SessionInit ==
    /\ wishes \in WishSets
    /\ handler = [pc |-> "init", chann |-> None]
    /\ socket = TRUE /\ accepts = <<>> /\ forwarding = FALSE
    /\ ht = [pc |-> "off", active |-> FALSE, chan |-> None, h |-> None, d |-> None,
             wish |-> "none", answer |-> "none"]
    /\ dt = [pc |-> "off", active |-> FALSE, chan |-> None]
    /\ hch = [h \in HackerChannels |-> Absent] /\ dch = [d \in DockerChannels |-> Absent]
    /\ chain = [h \in HackerChannels |-> None]
    /\ service = [d \in DockerChannels |-> NoService]
    /\ known = {} /\ overtaken = {}

(****************************************************************************)
(* References.                                                              *)
(****************************************************************************)
Serving(d) == service[d].pc \notin {"none", "end"}

HeldWith(chann) ==
    {chann, ht.chan, ht.h} \cup {accepts[i] : i \in 1 .. Len(accepts)}
        \cup {service[d].h : d \in {c \in DockerChannels : Serving(c)}}

HackerHeld == HeldWith(handler.chann)

\* Mutant: run forgets the channel it has handled a message for.
LastChannelForgotten == None

\* The variable chan of run keeps the channel of the last message alive.
LastChannel == dt.chan

DockerHeld == {LastChannel, ht.d} \cup {d \in DockerChannels : Serving(d)}

\* _channels.get
GetHacker(h) == IF h \in HackerHeld /\ hch[h].linked THEN h ELSE None
GetDocker(d) == IF d \in DockerHeld /\ dch[d].linked THEN d ELSE None

HackerOpen(h) == GetHacker(h) = h /\ hch[h].state = "open"
DockerOpen(d) == d \in DockerHeld /\ dch[d].state = "open"

NextOf(ch, limit) == Cardinality({c \in DOMAIN ch : ch[c].state # "none"}) + 1
NextHacker == NextOf(hch, MaxHacker)
NextDocker == NextOf(dch, MaxDocker)

Opened == [state |-> "open", linked |-> TRUE]
Asked == [state |-> "asked", linked |-> TRUE]

\* CLOSE from the other end.
ClosedByPeer(c) == [c EXCEPT !.state = "closed", !.linked = FALSE]

\* Transport.run's tail and Transport.close: every channel in the map is closed,
\* and Channel.__del__ has closed the others.
UnlinkedAll(ch) ==
    [c \in DOMAIN ch |-> IF ch[c].state = "none" THEN ch[c] ELSE ClosedByPeer(ch[c])]

\* close by a service: the other end still has to answer.
ClosedByUser(c) == IF c.state = "open" THEN [c EXCEPT !.state = "closed"] ELSE c

(****************************************************************************)
(* SocketServer and tcp_handler.handle.                                     *)
(****************************************************************************)
\* ssh_server.__init__ connects to the container and starts its transport.
InitServer ==
    /\ handler.pc = "init"
    /\ \/ dt' = [dt EXCEPT !.pc = "read", !.active = TRUE]
          /\ handler' = [handler EXCEPT !.pc = "serve"]
       \/ handler' = [handler EXCEPT !.pc = "shutdown"] /\ UNCHANGED dt   \* handle_error
    /\ UNCHANGED <<wishes, hackers, dch, chain, service, forwarding, history>>

\* start_server
StartServer ==
    /\ handler.pc = "serve"
    /\ \/ /\ ht' = [ht EXCEPT !.pc = "read", !.active = TRUE]
          /\ handler' = [handler EXCEPT !.pc = "accept"]
       \/ /\ handler' = [handler EXCEPT !.pc = "shutdown"]    \* SSHException
          /\ UNCHANGED ht
       \/ /\ handler' = [handler EXCEPT !.pc = "close"]       \* EOFError
          /\ UNCHANGED ht
    /\ UNCHANGED <<wishes, socket, hch, accepts, dockers, chain, service, forwarding, history>>

\* Mutant: the channel just accepted decides.
NoChannelAccepted(chann) == chann = None

\* No channel left: _channels.values() lists what is held.
NoChannel(chann) == \A h \in HackerChannels : h \in HeldWith(chann) => ~hch[h].linked

\* accept gives the next channel, or none after sixty seconds or at the end of
\* the transport, and the loop ends if the map is empty then.
Accept ==
    LET chann == IF accepts = <<>> THEN None ELSE Head(accepts)
    IN  /\ handler.pc = "accept"
        /\ handler' = [pc |-> IF NoChannel(chann) THEN "close" ELSE "accept", chann |-> chann]
        /\ accepts' = IF accepts = <<>> THEN <<>> ELSE Tail(accepts)
        /\ known' = IF handler'.pc = "close"
                    THEN {h \in HackerChannels : hch[h].state \in {"open", "closed"}}
                    ELSE known
        /\ UNCHANGED <<wishes, socket, ht, hch, dockers, chain, service, forwarding, overtaken>>

\* Mutant: the thread is not told.
DeactivatedNot == dt

Deactivated == [dt EXCEPT !.active = FALSE]

\* docker_trans.close: stop_thread joins the transport's thread before the
\* channels are unlinked.
CloseDocker ==
    /\ handler.pc = "close"
    /\ dt' = Deactivated
    /\ handler' = [handler EXCEPT !.pc = "join"]
    /\ UNCHANGED <<wishes, hackers, dch, chain, service, forwarding, history>>

\* Mutant: nobody waits for it.
JoinedAtOnce == TRUE

Joined == dt.pc = "dead"

JoinDocker ==
    /\ handler.pc = "join" /\ Joined
    /\ dch' = UnlinkedAll(dch)
    /\ handler' = [handler EXCEPT !.pc = "shutdown"]
    /\ UNCHANGED <<wishes, hackers, dt, chain, service, forwarding, history>>

\* shutdown_request closes the hacker's socket under his transport.
ShutdownRequest ==
    /\ handler.pc = "shutdown"
    /\ socket' = FALSE
    /\ handler' = [pc |-> "done", chann |-> None]
    /\ UNCHANGED <<wishes, ht, hch, accepts, dockers, chain, service, forwarding, history>>

Handler ==
    \/ InitServer \/ StartServer \/ Accept \/ CloseDocker \/ JoinDocker \/ ShutdownRequest

(********************************************************************************)
(* The transport thread of the hacker's connection.  It answers the requests    *)
(* of ServerInterface itself, one after the other, and waits for the container. *)
(********************************************************************************)
\* Mutant: the request's channels are still referred to.
IdleHolding(h, chan) == [ht EXCEPT !.pc = "read", !.chan = chan]

Idle(h, chan) ==
    [ht EXCEPT !.pc = "read", !.chan = chan, !.h = None, !.d = None, !.wish = "none",
               !.answer = "none"]

Answered == ht' = Idle(ht.h, ht.chan)

\* An exception of a handler leaves run, as does the end of the connection.
HackerDead ==
    /\ ht' = [Idle(None, None) EXCEPT !.pc = "dead", !.active = FALSE]
    /\ hch' = UnlinkedAll(hch)

HackerReads == ht.pc = "read" /\ socket

\* check_channel_request
OpenSession ==
    /\ HackerReads /\ NextHacker <= MaxHacker
    /\ hch' = [hch EXCEPT ![NextHacker] = Opened]
    /\ accepts' = Append(accepts, NextHacker)
    /\ UNCHANGED <<wishes, handler, socket, ht, dockers, chain, service, forwarding, history>>

\* docker_trans.open_session or open_channel, up to its message; it raises if
\* the transport is not active.
AskChannel(h, chan, wish) ==
    /\ NextDocker <= MaxDocker
    /\ dch' = [dch EXCEPT ![NextDocker] = Asked]
    /\ ht' = [ht EXCEPT !.pc = "open", !.chan = chan, !.h = h, !.d = NextDocker, !.wish = wish]

Request(h, wish) ==
    /\ HackerReads /\ HackerOpen(h) /\ wish \in wishes
    /\ UNCHANGED <<wishes, handler, socket, accepts, dt, chain, service, forwarding, history>>

\* The request fails at once.
Refused(h) == ht' = Idle(h, h) /\ UNCHANGED <<dch, hch>>

\* check_channel_pty_request, check_channel_exec_request
RequestSession(h) ==
    \E wish \in {"pty", "exec"} :
        /\ Request(h, wish)
        /\ IF dt.active THEN AskChannel(h, h, wish) /\ UNCHANGED hch ELSE Refused(h)

\* check_channel_shell_request, with the container's channel of the pty or
\* with one of its own.
RequestShell(h) ==
    /\ Request(h, "shell")
    /\ IF chain[h] = None
       THEN IF dt.active THEN AskChannel(h, h, "shell") /\ UNCHANGED hch
            ELSE HackerDead /\ UNCHANGED dch
       ELSE IF GetDocker(chain[h]) = None \/ ~DockerOpen(chain[h]) THEN Refused(h)
       ELSE /\ ht' = [ht EXCEPT !.pc = "shell", !.chan = h, !.h = h, !.d = chain[h]]
            /\ UNCHANGED <<dch, hch>>

\* check_channel_env_request
RequestEnv(h) ==
    /\ Request(h, "env")
    /\ IF chain[h] = None THEN Refused(h)
       ELSE IF GetDocker(chain[h]) = None \/ ~DockerOpen(chain[h]) THEN Refused(h)
       ELSE /\ ht' = [ht EXCEPT !.pc = "env", !.chan = h, !.h = h, !.d = chain[h]]
            /\ UNCHANGED <<dch, hch>>

\* check_channel_direct_tcpip_request: the id is taken, the channel is not in
\* the map yet.
RequestDirect ==
    /\ HackerReads /\ "direct" \in wishes /\ NextHacker <= MaxHacker
    /\ IF dt.active
       THEN /\ AskChannel(NextHacker, ht.chan, "direct")
            /\ hch' = [hch EXCEPT ![NextHacker].state = "taken"]
       ELSE HackerDead /\ UNCHANGED dch
    /\ UNCHANGED <<wishes, handler, socket, accepts, dt, chain, service, forwarding, history>>

\* check_port_forward_request
RequestForward ==
    /\ HackerReads /\ "forward" \in wishes
    /\ IF dt.active
       THEN ht' = [ht EXCEPT !.pc = "global"] /\ UNCHANGED hch
       ELSE HackerDead
    /\ UNCHANGED <<wishes, handler, socket, accepts, dockers, chain, service, forwarding, history>>

Yes == ht.answer = "yes"

\* Mutant: who waits does not look whether the transport still runs.
NoAnswered == ht.answer = "no"

\* The end of the container's transport is an answer too.
No == ht.answer = "no" \/ ~dt.active

Start(d, h, pc) == service' = [service EXCEPT ![d] = [NoService EXCEPT !.h = h, !.pc = pc]]

\* The container's channel is open; ht.d holds it from here on.
SessionOpened ==
    /\ ht.pc = "open" /\ Yes /\ ht.wish \in {"pty", "shell"}
    /\ ht' = [ht EXCEPT !.pc = "pty", !.answer = "none"]
    /\ UNCHANGED <<wishes, handler, socket, hch, accepts, dockers, chain, service, forwarding, history>>

ExecOpened ==
    /\ ht.pc = "open" /\ Yes /\ ht.wish = "exec"
    /\ chain' = [chain EXCEPT ![ht.h] = ht.d]
    /\ Start(ht.d, ht.h, "exec")
    /\ Answered
    /\ UNCHANGED <<wishes, handler, socket, hch, accepts, dockers, forwarding, history>>

DirectOpened ==
    /\ ht.pc = "open" /\ Yes /\ ht.wish = "direct"
    /\ chain' = [chain EXCEPT ![ht.h] = ht.d]
    /\ service' = [service EXCEPT ![ht.d] =
           [NoService EXCEPT !.goal = ht.h, !.pc = "seek"]]
    /\ ht' = [ht EXCEPT !.pc = "put", !.d = None]
    /\ UNCHANGED <<wishes, handler, socket, hch, accepts, dockers, forwarding, history>>

\* The rest of _parse_channel_open.
PutDirect ==
    /\ ht.pc = "put"
    /\ hch' = [hch EXCEPT ![ht.h] = Opened]
    /\ accepts' = Append(accepts, ht.h)
    /\ ht' = Idle(None, ht.chan)
    /\ UNCHANGED <<wishes, handler, socket, dockers, chain, service, forwarding, history>>

\* Only a ChannelException is caught for direct-tcpip, and nothing for the
\* channel that a shell without pty opens.
OpenRefused ==
    /\ ht.pc = "open" /\ No
    /\ \/ /\ (ht.wish \in {"pty", "exec"} \/ (ht.wish = "direct" /\ ht.answer = "no"))
          /\ Answered /\ UNCHANGED hch
       \/ /\ (ht.wish = "shell" \/ (ht.wish = "direct" /\ ~dt.active))
          /\ HackerDead
    /\ UNCHANGED <<wishes, handler, socket, accepts, dockers, chain, service, forwarding, history>>

PtyDone ==
    /\ ht.pc = "pty" /\ Yes
    /\ chain' = [chain EXCEPT ![ht.h] = ht.d]
    /\ IF ht.wish = "pty" THEN Answered
       ELSE ht' = [ht EXCEPT !.pc = "shell", !.answer = "none"]
    /\ UNCHANGED <<wishes, handler, socket, hch, accepts, dockers, service, forwarding, history>>

PtyRefused ==
    /\ ht.pc = "pty" /\ No
    /\ IF ht.wish = "pty" THEN Answered /\ UNCHANGED hch ELSE HackerDead
    /\ UNCHANGED <<wishes, handler, socket, accepts, dockers, chain, service, forwarding, history>>

\* invoke_shell
ShellDone ==
    /\ ht.pc = "shell" /\ Yes
    /\ Start(ht.d, ht.h, "relay")
    /\ Answered
    /\ UNCHANGED <<wishes, handler, socket, hch, accepts, dockers, chain, forwarding, history>>

ShellRefused ==
    /\ ht.pc = "shell" /\ No
    /\ Answered
    /\ UNCHANGED <<wishes, handler, socket, hch, accepts, dockers, chain, service, forwarding, history>>

EnvDone ==
    /\ ht.pc = "env" /\ (Yes \/ No)
    /\ Answered
    /\ UNCHANGED <<wishes, handler, socket, hch, accepts, dockers, chain, service, forwarding, history>>

\* request_port_forward raises when it is denied, and nobody catches it.
ForwardDone ==
    /\ ht.pc = "global"
    /\ \/ Yes /\ ht' = Idle(None, ht.chan) /\ forwarding' = TRUE /\ UNCHANGED hch
       \/ No /\ HackerDead /\ UNCHANGED forwarding
    /\ UNCHANGED <<wishes, handler, socket, accepts, dockers, chain, service, history>>

\* Data, a window or an end of file.
HackerSpeaks(h) ==
    /\ HackerReads /\ HackerOpen(h)
    /\ ht' = [ht EXCEPT !.chan = h]
    /\ UNCHANGED <<wishes, handler, socket, hch, accepts, dockers, chain, service, forwarding, history>>

\* run's variable keeps a channel here that is in no map any more.
HackerClose(h) ==
    /\ HackerReads /\ GetHacker(h) = h
    /\ hch' = [hch EXCEPT ![h] = ClosedByPeer(@)]
    /\ ht' = [ht EXCEPT !.chan = None]
    /\ UNCHANGED <<wishes, handler, socket, accepts, dockers, chain, service, forwarding, history>>

\* The connection is lost, or shutdown_request has closed it.
HackerDrops ==
    /\ ht.pc = "read"
    /\ HackerDead
    /\ UNCHANGED <<wishes, handler, socket, accepts, dockers, chain, service, forwarding, history>>

HackerThread ==
    \/ SessionOpened \/ ExecOpened \/ DirectOpened \/ PutDirect \/ OpenRefused
    \/ PtyDone \/ PtyRefused \/ ShellDone \/ ShellRefused \/ EnvDone \/ ForwardDone

Hacker ==
    \/ OpenSession \/ RequestDirect \/ RequestForward \/ HackerDrops
    \/ \E h \in HackerChannels :
          RequestSession(h) \/ RequestShell(h) \/ RequestEnv(h) \/ HackerSpeaks(h) \/ HackerClose(h)

(****************************************************************************)
(* The transport thread of the container's connection, and sshd behind it.  *)
(****************************************************************************)
DockerReads == dt.pc = "read" /\ dt.active

\* A message for the channel d.
Speaks(d, kept) ==
    /\ dt' = [dt EXCEPT !.chan = kept]
    /\ overtaken' = {c \in (overtaken \cup {dt.chan}) \ {None, d} : service[c].pc = "none"}
    /\ UNCHANGED known

AnswerOpen ==
    /\ DockerReads /\ ht.pc = "open" /\ ht.answer = "none"
    /\ \/ dch' = [dch EXCEPT ![ht.d] = Opened] /\ ht' = [ht EXCEPT !.answer = "yes"]
       \/ dch' = [dch EXCEPT ![ht.d] = ClosedByPeer(@)] /\ ht' = [ht EXCEPT !.answer = "no"]
    /\ UNCHANGED <<wishes, handler, socket, hch, accepts, dt, chain, service, forwarding, history>>

\* A refused request closes the channel, which only wakes who waits for it.
AnswerRequest ==
    /\ DockerReads /\ ht.pc \in {"pty", "shell", "env"} /\ ht.answer = "none"
    /\ Speaks(ht.d, ht.d)
    /\ \/ /\ ht.pc = "shell" => service[ht.d].pc = "none"
          /\ ht' = [ht EXCEPT !.answer = "yes"] /\ UNCHANGED dch
       \/ /\ ht' = [ht EXCEPT !.answer = "no"]
          /\ dch' = [dch EXCEPT ![ht.d] = ClosedByUser(@)]
    /\ UNCHANGED <<wishes, handler, socket, hch, accepts, chain, service, forwarding>>

AnswerGlobal ==
    /\ DockerReads /\ ht.pc = "global" /\ ht.answer = "none"
    /\ \E answer \in {"yes", "no"} : ht' = [ht EXCEPT !.answer = answer]
    /\ UNCHANGED <<wishes, handler, socket, hch, accepts, dockers, chain, service, forwarding, history>>

AnswerExec(d) ==
    /\ DockerReads /\ service[d].pc = "exec" /\ service[d].answer = "none"
    /\ Speaks(d, d)
    /\ \/ service' = [service EXCEPT ![d].answer = "yes"] /\ UNCHANGED dch
       \/ /\ service' = [service EXCEPT ![d].answer = "no"]
          /\ dch' = [dch EXCEPT ![d] = ClosedByUser(@)]
    /\ UNCHANGED <<wishes, handler, hackers, chain, forwarding>>

\* Data, a window, an exit status or an end of file.
DockerSpeaks(d) ==
    /\ DockerReads /\ GetDocker(d) = d /\ DockerOpen(d)
    /\ Speaks(d, d)
    /\ UNCHANGED <<wishes, handler, hackers, dch, chain, service, forwarding>>

DockerClose(d) ==
    /\ DockerReads /\ GetDocker(d) = d /\ dch[d].state \in {"open", "closed"}
    /\ Speaks(d, None)
    /\ dch' = [dch EXCEPT ![d] = ClosedByPeer(@)]
    /\ UNCHANGED <<wishes, handler, hackers, chain, service, forwarding>>

\* Mutant: reverse_handler does not start a thread.
AfterHandlerBlocked == "blocked"

AfterHandler == "read"

\* A forwarded connection: reverse_handler.
DockerForwards ==
    LET d == NextDocker
    IN  /\ DockerReads /\ forwarding /\ d <= MaxDocker
        /\ dch' = [dch EXCEPT ![d] = Opened]
        /\ Start(d, None, "ask")
        /\ dt' = [dt EXCEPT !.pc = AfterHandler]
        /\ UNCHANGED <<wishes, handler, hackers, chain, forwarding, history>>

DockerDead ==
    /\ dt.pc = "read"
    /\ dt' = [pc |-> "dead", active |-> FALSE, chan |-> None]
    /\ dch' = UnlinkedAll(dch)
    /\ UNCHANGED <<wishes, handler, hackers, chain, service, forwarding, history>>

DockerAnswers ==
    AnswerOpen \/ AnswerRequest \/ AnswerGlobal \/ \E d \in DockerChannels : AnswerExec(d)

Docker ==
    \/ DockerAnswers \/ DockerForwards \/ DockerDead
    \/ \E d \in DockerChannels : DockerSpeaks(d) \/ DockerClose(d)

(****************************************************************************)
(* The services.                                                            *)
(****************************************************************************)
End(d) == service' = [service EXCEPT ![d] = [NoService EXCEPT !.pc = "end"]]

CloseBoth(d) ==
    /\ dch' = [dch EXCEPT ![d] = ClosedByUser(@)]
    /\ hch' = [hch EXCEPT ![service[d].h] = ClosedByUser(@)]

\* exec_command, outside the try: the thread ends without closing anything.
ExecRuns(d) ==
    /\ service[d].pc = "exec"
    /\ \/ service[d].answer = "yes" /\ service' = [service EXCEPT ![d].pc = "relay"]
       \/ (service[d].answer = "no" \/ dch[d].state = "closed") /\ End(d)
    /\ UNCHANGED <<wishes, handler, hackers, dockers, chain, forwarding, history>>

\* direct_service looks for the hacker's channel once a second.
DirectFinds(d) ==
    /\ service[d].pc = "seek" /\ GetHacker(service[d].goal) # None
    /\ service' = [service EXCEPT ![d].pc = "relay", ![d].h = service[d].goal]
    /\ UNCHANGED <<wishes, handler, hackers, dockers, chain, forwarding, history>>

\* Mutant: the container's channel is left open.
AbandonedOpen(d) == dch

Abandoned(d) == [dch EXCEPT ![d] = ClosedByUser(@)]

DirectLooks(d) ==
    /\ service[d].pc = "seek" /\ GetHacker(service[d].goal) = None
    /\ IF service[d].tries + 1 < Tries
       THEN service' = [service EXCEPT ![d].tries = @ + 1] /\ UNCHANGED dch
       ELSE End(d) /\ dch' = Abandoned(d)
    /\ UNCHANGED <<wishes, handler, hackers, dt, chain, forwarding, history>>

Unblocked(d) == dt' = [dt EXCEPT !.pc = IF @ = "blocked" THEN "read" ELSE @]

\* open_forwarded_tcpip_channel is confirmed by the hacker.
ReverseOpens(d) ==
    /\ service[d].pc = "ask" /\ HackerReads /\ NextHacker <= MaxHacker
    /\ hch' = [hch EXCEPT ![NextHacker] = Opened]
    /\ service' = [service EXCEPT ![d].pc = "relay", ![d].h = NextHacker]
    /\ Unblocked(d)
    /\ UNCHANGED <<wishes, handler, socket, ht, accepts, dch, chain, forwarding, history>>

\* He refuses, or his connection is gone.
ReverseFails(d) ==
    /\ service[d].pc = "ask" /\ (HackerReads \/ ~ht.active)
    /\ End(d)
    /\ dch' = Abandoned(d)
    /\ Unblocked(d)
    /\ UNCHANGED <<wishes, handler, hackers, chain, forwarding, history>>

\* The loop ends, by the EOF of one side or of both, or by the exception of a
\* send on a closed channel, see Relay.
RelayEnds(d) ==
    /\ service[d].pc = "relay"
    /\ CloseBoth(d) /\ End(d)
    /\ UNCHANGED <<wishes, handler, socket, ht, accepts, dt, chain, forwarding, history>>

ServiceSteps(d) ==
    ExecRuns(d) \/ DirectFinds(d) \/ DirectLooks(d) \/ ReverseFails(d)

ServiceThreads == \E d \in DockerChannels : ServiceSteps(d) \/ ReverseOpens(d) \/ RelayEnds(d)
-----------------------------------------------------------------------------
SessionNext == Handler \/ HackerThread \/ Hacker \/ Docker \/ ServiceThreads

SessionSpec == SessionInit /\ [][SessionNext]_sessionVars

\* The threads run, sshd answers what it is asked, and a socket that was closed
\* ends its transport; the hacker and the container need not do anything else.
SessionFairSpec ==
    /\ SessionSpec
    /\ WF_sessionVars(Handler) /\ WF_sessionVars(HackerThread) /\ WF_sessionVars(DockerAnswers)
    /\ WF_sessionVars(HackerDrops /\ ~socket) /\ WF_sessionVars(DockerDead /\ ~dt.active)
    /\ WF_sessionVars(\E d \in DockerChannels : ServiceSteps(d))
-----------------------------------------------------------------------------
SessionTypeOK ==
    /\ handler.chann \in 0 .. MaxHacker /\ ht.chan \in 0 .. MaxHacker
    /\ ht.h \in 0 .. MaxHacker /\ ht.d \in 0 .. MaxDocker /\ dt.chan \in 0 .. MaxDocker
    /\ handler.pc \in {"init", "serve", "accept", "close", "join", "shutdown", "done"}
    /\ ht.pc \in {"off", "read", "dead"} => {ht.h, ht.d} = {None} /\ ht.answer = "none"
    /\ chain \in [HackerChannels -> 0 .. MaxDocker]
    /\ \A h \in HackerChannels : hch[h].state \in {"none", "taken", "open", "closed"}
    /\ \A d \in DockerChannels :
        /\ dch[d].state \in {"none", "asked", "open", "closed"}
        /\ service[d].pc \in {"none", "exec", "seek", "ask", "relay", "end"}

(* The container's channel that a pty was asked for waits, with no reference of *)
(* wetland's own, for the shell request: it is lost only when another of the    *)
(* container's channels has a message meanwhile.                                *)
PtyKept ==
    \A h \in HackerChannels :
        LET d == chain[h]
        IN  d # None /\ service[d].pc = "none" /\ dch[d].state = "open" /\ dt.active
              => GetDocker(d) = d \/ d \in overtaken

(* The handler closes the container's connection only when no channel of the *)
(* hacker was left at its last look.                                         *)
ClosedOnlyIdle ==
    handler.pc = "join" /\ ht.active =>
        \A h \in HackerChannels : HackerOpen(h) => h \notin known

(* When the handler is through with a connection that was negotiated, nothing *)
(* of it is left in the container.                                            *)
ContainerGoesFirst ==
    handler.pc = "done" /\ ht.pc # "off" =>
        dt.pc = "dead" /\ \A d \in DockerChannels : ~DockerOpen(d)

(* No request of the hacker waits for ever: the container's thread, which has to *)
(* bring the answer, never waits for the hacker's.  So the hacker's transport is *)
(* out of any request again and again: not started, in its loop or at its end.   *)
RequestsAnswered == []<>(ht.pc \in {"off", "read", "dead"})

(* When the hacker's connection is gone, which it stays, the container's is *)
(* closed.                                                                  *)
DockerReleased == []<>(ht.pc = "dead" => dt.pc = "dead")

(* A channel of the container is never left open behind its service.        *)
NothingLeftOpen == \A d \in DockerChannels : service[d].pc = "end" => ~DockerOpen(d)

(* The container's side of a session goes when it is no longer needed and not  *)
(* before: with its service, and with the hacker's last channel.               *)
ContainerTidy == SessionTypeOK /\ ClosedOnlyIdle /\ ContainerGoesFirst /\ NothingLeftOpen
=============================================================================
