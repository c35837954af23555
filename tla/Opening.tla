------------------------------- MODULE Opening -------------------------------

(*******************************************************************************)
(* One Transport after its first key exchange: its thread, the users that open *)
(* channels, make requests on them, make global requests and accept channels,  *)
(* and the peer, which answers when it likes.  The map of channels holds weak  *)
(* references: a channel nobody refers to any more is not found in it.         *)
(* Channel objects are numbered as they are made; a message that answers an    *)
(* open names, beside the channel id of the wire, the object it was meant for, *)
(* which only the properties look at.  The peer's state is fed directly by the *)
(* sends: what it has not looked at yet is on the wire.                        *)
(*******************************************************************************)
EXTENDS Naturals, Sequences, FiniteSets

CONSTANTS
    Openers,      \* threads that open channels and make requests on them
    Askers,       \* threads that make global requests
    Forwards,     \* kinds of channel the peer opens: "session", "forwarded"
    Modes,        \* the server_mode of the transport, TRUE or FALSE
    IdSpace,      \* 2^24, the channel ids
    Budgets       \* bounds on what happens: opens, incoming opens, requests on
                  \* channels, global requests, key exchanges

ASSUME PeopleAssumption == Openers \cap Askers = {} /\ Modes \subseteq BOOLEAN
ASSUME ForwardsAssumption == Forwards \subseteq {"session", "forwarded"}
ASSUME BudgetsAssumption ==
    Budgets \subseteq [{"opens", "incoming", "requests", "globals", "rekeys"} -> Nat]
ASSUME IdsAssumption ==
    IdSpace \in Nat \ {0} /\ \A b \in Budgets : b["opens"] + b["incoming"] <= IdSpace

Ids == 0 .. IdSpace - 1
Channels == 1 .. IdSpace
None == 0

VARIABLES
    active,       \* Transport.active
    counter,      \* _channel_counter
    map,          \* _channels, without the weakness of its references
    seen,         \* channels_seen
    events,       \* channel_events: the channel an id's event belongs to
    chan,         \* the channel objects, see Made
    made,         \* channels made
    completion,   \* completion_event: "none", "clear" or "set"
    response,     \* global_response: the request it answers and the answer
    saved,        \* saved_exception
    tcpHandler,   \* _tcp_handler is set
    accepts,      \* server_accepts
    thread,       \* the transport thread
    user,         \* the openers
    asker,        \* the askers
    accepter,     \* the one thread that calls accept
    in,           \* messages to the transport
    peer,         \* what the peer has to answer and has open
    serverMode,   \* server_mode
    left          \* what is left of the budget

ids   == <<counter, map, seen, events, made>>
calls == <<completion, response, tcpHandler>>
rest  == <<serverMode, left>>
vars  == <<active, ids, chan, calls, saved, accepts, thread, user, asker, accepter, in, peer, rest>>

Spend(what) == left[what] > 0 /\ left' = [left EXCEPT ![what] = @ - 1]

Made == [id |-> None, remote |-> None, closed |-> FALSE, opened |-> FALSE,
         event |-> FALSE, ready |-> FALSE, late |-> FALSE]

Init ==
    /\ active = TRUE /\ counter = 0 /\ map = [i \in Ids |-> None] /\ seen = {}
    /\ events = [i \in Ids |-> None] /\ chan = [s \in Channels |-> Made] /\ made = 0
    /\ completion = "none" /\ response = [n |-> None, ok |-> FALSE] /\ saved = "none"
    /\ tcpHandler = FALSE /\ accepts = <<>>
    /\ thread = [pc |-> "read", chan |-> None, id |-> None, why |-> "none"]
    /\ user = [u \in Openers |-> [pc |-> "idle", chan |-> None]]
    /\ asker = [a \in Askers |-> [pc |-> "idle", n |-> None, stirred |-> FALSE,
                                  got |-> [n |-> None, ok |-> FALSE]]]
    /\ \E pc \in {"idle", "away"} :    \* a program may never call accept
          accepter = [pc |-> pc, chan |-> None, told |-> FALSE]
    /\ in = <<>>
    /\ peer = [opens |-> {}, open |-> {}, requests |-> {}, globals |-> <<>>, gone |-> FALSE]
    /\ serverMode \in Modes /\ left \in Budgets

(****************************************************************************)
(* ChannelMap.                                                              *)
(****************************************************************************)
Held ==
    {user[u].chan : u \in Openers} \cup {accepts[i] : i \in 1 .. Len(accepts)}
        \cup {thread.chan, accepter.chan}

Get(id) == IF map[id] \in Held THEN map[id] ELSE None

\* Mutant: an id is given again until its channel is in the map.
NextCounterLazy(id) == id

\* Mutant: the counter is not masked.
NextCounterWide(id) == id + 1

NextCounter(id) == (id + 1) % IdSpace

\* _next_channel, under the lock: the id it returns.
NextChannel ==
    LET distance(i) == (i + IdSpace - counter) % IdSpace
    IN  CHOOSE i \in Ids :
            Get(i) = None /\ \A j \in Ids : Get(j) = None => distance(i) <= distance(j)

(****************************************************************************)
(* Channel objects.                                                         *)
(****************************************************************************)
\* Mutant: the end of a channel does not wake the waiter for an answer.
ClosedQuietly(c) == [c EXCEPT !.closed = TRUE]

\* _set_closed
Closed(c) == [c EXCEPT !.closed = TRUE, !.event = TRUE]

IsOpen(s) == chan[s].remote # None /\ ~chan[s].closed

\* _close_internal tells the peer, which is free to answer with a CLOSE.
CloseInternal(s) == chan' = IF IsOpen(s) THEN [chan EXCEPT ![s] = Closed(@)] ELSE chan

(****************************************************************************)
(* open_channel                                                             *)
(****************************************************************************)
\* Mutant: the id is known only when the peer has confirmed it.
SeenByUser(id) == seen

SeenWith(id) == seen \cup {id}

\* The section under the lock.
Register(u) ==
    LET s == made + 1
        id == NextChannel
    IN  /\ user[u].pc = "idle" /\ active /\ Spend("opens")
        /\ counter' = NextCounter(id)
        /\ made' = s
        /\ chan' = [chan EXCEPT ![s] = [Made EXCEPT !.id = id]]
        /\ map' = [map EXCEPT ![id] = s]
        /\ events' = [events EXCEPT ![id] = s]
        /\ seen' = SeenWith(id)
        /\ user' = [user EXCEPT ![u] = [pc |-> "send", chan |-> s]]
        /\ UNCHANGED <<serverMode, active, calls, saved, accepts, thread, asker, accepter, in, peer>>

\* _send_user_message drops what comes after the transport's end.
SendOpen(u) ==
    /\ user[u].pc = "send"
    /\ peer' = IF active THEN [peer EXCEPT !.opens = @ \cup {user[u].chan}] ELSE peer
    /\ user' = [user EXCEPT ![u].pc = "wait"]
    /\ UNCHANGED <<rest, active, ids, chan, calls, saved, accepts, thread, asker, accepter, in>>

\* An exception leaves open_channel; get_exception forgets the one it returns.
OpenFails(u) ==
    /\ saved' = "none"
    /\ user' = [user EXCEPT ![u] = [pc |-> "idle", chan |-> None]]

\* Mutant: the loop waits for the event alone.
SeesEndNever == FALSE

SeesEnd == ~active

WaitEnds(u) ==
    /\ user[u].pc = "wait"
    /\ \/ SeesEnd /\ OpenFails(u)
       \/ active /\ chan[user[u].chan].opened
          /\ user' = [user EXCEPT ![u].pc = "get"] /\ UNCHANGED saved
    /\ UNCHANGED <<rest, active, ids, chan, calls, accepts, thread, asker, accepter, in, peer>>

OpenTimeout(u) ==
    /\ user[u].pc = "wait" /\ active /\ ~chan[user[u].chan].opened
    /\ user' = [user EXCEPT ![u] = [pc |-> "idle", chan |-> None]]
    /\ UNCHANGED <<rest, active, ids, chan, calls, saved, accepts, thread, asker, accepter, in, peer>>

\* The second look at the map: the channel may be closed again by now.
GetOpened(u) ==
    LET s == Get(chan[user[u].chan].id)
    IN  /\ user[u].pc = "get"
        /\ \/ s # None /\ user' = [user EXCEPT ![u] = [pc |-> "have", chan |-> s]]
              /\ UNCHANGED saved
           \/ s = None /\ OpenFails(u)
        /\ UNCHANGED <<rest, active, ids, chan, calls, accepts, thread, asker, accepter, in, peer>>

\* close, by the user or by __del__.
Drop(u) ==
    /\ user[u].pc = "have"
    /\ CloseInternal(user[u].chan)
    /\ user' = [user EXCEPT ![u] = [pc |-> "idle", chan |-> None]]
    /\ UNCHANGED <<rest, active, ids, calls, saved, accepts, thread, asker, accepter, in, peer>>

(****************************************************************************)
(* get_pty, invoke_shell, exec_command, update_environment, ...: open_only, *)
(* _event_pending, send, _wait_for_event.                                   *)
(****************************************************************************)
RequestCheck(u) ==
    /\ user[u].pc = "have" /\ IsOpen(user[u].chan) /\ Spend("requests")
    /\ user' = [user EXCEPT ![u].pc = "clear"]
    /\ UNCHANGED <<serverMode, active, ids, chan, calls, saved, accepts, thread, asker, accepter, in, peer>>

EventPending(u) ==
    LET s == user[u].chan
    IN  /\ user[u].pc = "clear"
        /\ chan' = [chan EXCEPT ![s].event = FALSE, ![s].ready = FALSE,
                                ![s].late = chan[s].closed]
        /\ user' = [user EXCEPT ![u].pc = "ask"]
        /\ UNCHANGED <<rest, active, ids, calls, saved, accepts, thread, asker, accepter, in, peer>>

SendRequest(u) ==
    LET s == user[u].chan
    IN  /\ user[u].pc = "ask"
        /\ peer' = IF active /\ s \in peer.open
                   THEN [peer EXCEPT !.requests = @ \cup {s}] ELSE peer
        /\ user' = [user EXCEPT ![u].pc = "await"]
        /\ UNCHANGED <<rest, active, ids, chan, calls, saved, accepts, thread, asker, accepter, in>>

\* _wait_for_event
RequestEnds(u) ==
    LET s == user[u].chan
    IN  /\ user[u].pc = "await" /\ chan[s].event
        /\ saved' = IF chan[s].ready THEN saved ELSE "none"
        /\ user' = [user EXCEPT ![u].pc = "have"]
        /\ UNCHANGED <<rest, active, ids, chan, calls, accepts, thread, asker, accepter, in, peer>>

(****************************************************************************)
(* global_request with wait, as request_port_forward calls it.              *)
(****************************************************************************)
\* Another call that uses the one completion_event, or its end.
Stirred(a) ==
    [b \in Askers |-> IF b # a /\ asker[b].pc # "idle"
                      THEN [asker[b] EXCEPT !.stirred = TRUE] ELSE asker[b]]

\* Mutant: the event of the last request is used again.
FreshEventReused == IF completion = "none" THEN "clear" ELSE completion

FreshEvent == "clear"

AskGlobal(a) ==
    /\ asker[a].pc = "idle" /\ active /\ Spend("globals")
    /\ completion' = FreshEvent
    /\ asker' = [Stirred(a) EXCEPT
                   ![a] = [pc |-> "send", n |-> left["globals"], got |-> [n |-> None, ok |-> FALSE],
                           stirred |-> \/ asker[a].stirred
                                       \/ \E b \in Askers : b # a /\ asker[b].pc # "idle"]]
    /\ UNCHANGED <<serverMode, active, ids, chan, response, tcpHandler, saved, accepts, thread, user,
                   accepter, in, peer>>

SendGlobal(a) ==
    /\ asker[a].pc = "send"
    /\ peer' = IF active THEN [peer EXCEPT !.globals = Append(@, asker[a].n)] ELSE peer
    /\ asker' = [asker EXCEPT ![a].pc = "wait"]
    /\ UNCHANGED <<rest, active, ids, chan, calls, saved, accepts, thread, user, accepter, in>>

\* The event is read again in every round of the loop.
GlobalEnds(a) ==
    /\ asker[a].pc = "wait"
    /\ \/ ~active
          /\ asker' = [asker EXCEPT ![a].pc = "idle"] /\ UNCHANGED tcpHandler
       \/ active /\ completion = "set"
          /\ asker' = [asker EXCEPT ![a].pc = "idle", ![a].got = response]
          /\ tcpHandler' = (tcpHandler \/ response.ok)
    /\ UNCHANGED <<rest, active, ids, chan, completion, response, saved, accepts, thread,
                   user, accepter, in, peer>>

(****************************************************************************)
(* accept: the condition variable has the transport's lock.                 *)
(****************************************************************************)
PopAccepted ==
    /\ accepter' = [pc |-> "have", chan |-> Head(accepts), told |-> FALSE]
    /\ accepts' = Tail(accepts)

Accept ==
    /\ accepter.pc = "idle"
    /\ \/ accepts # <<>> /\ PopAccepted
       \/ accepts = <<>> /\ accepter' = [accepter EXCEPT !.pc = "wait"] /\ UNCHANGED accepts
    /\ UNCHANGED <<rest, active, ids, chan, calls, saved, thread, user, asker, in, peer>>

Wake ==
    \/ accepts # <<>> /\ PopAccepted
    \/ accepts = <<>> /\ accepter' = [pc |-> "idle", chan |-> None, told |-> FALSE]
       /\ UNCHANGED accepts

AcceptWakes ==
    /\ accepter.pc = "wait" /\ accepter.told /\ Wake
    /\ UNCHANGED <<rest, active, ids, chan, calls, saved, thread, user, asker, in, peer>>

AcceptTimeout ==
    /\ accepter.pc = "wait" /\ ~accepter.told /\ Wake
    /\ UNCHANGED <<rest, active, ids, chan, calls, saved, thread, user, asker, in, peer>>

AccepterDrops ==
    /\ accepter.pc = "have"
    /\ CloseInternal(accepter.chan)
    /\ accepter' = [pc |-> "idle", chan |-> None, told |-> FALSE]
    /\ UNCHANGED <<rest, active, ids, calls, saved, accepts, thread, user, asker, in, peer>>

\* notify
Notified == [accepter EXCEPT !.told = @ \/ accepter.pc = "wait"]

(****************************************************************************)
(* The transport thread.                                                    *)
(****************************************************************************)
Message(type, id, s) ==
    [type |-> type, id |-> id, to |-> s, ok |-> TRUE, kind |-> "none"]

Receives(type) ==
    /\ thread.pc = "read" /\ active /\ in # <<>> /\ Head(in).type = type
    /\ in' = Tail(in)

\* _parse_channel_open_success: the channel may have been given up.
ParseOpenSuccess ==
    LET m == Head(in)
        s == Get(m.id)
        own == events[m.id]
    IN  /\ Receives("OPEN_SUCCESS")
        /\ IF s = None THEN UNCHANGED <<chan, events>>
           ELSE /\ chan' = [c \in Channels |->
                       [chan[c] EXCEPT !.remote = IF c = s THEN m.to ELSE @,
                                       !.opened = @ \/ c = own]]
                /\ events' = [events EXCEPT ![m.id] = None]
        /\ UNCHANGED <<rest, active, counter, map, seen, made, calls, saved, accepts, thread, user,
                       asker, accepter, peer>>

\* _parse_channel_open_failure: the exception is saved for whoever asks first.
ParseOpenFailure ==
    LET m == Head(in)
        own == events[m.id]
    IN  /\ Receives("OPEN_FAILURE")
        /\ saved' = "refused"
        /\ IF own = None THEN UNCHANGED <<chan, events, map>>
           ELSE /\ chan' = [chan EXCEPT ![own].opened = TRUE]
                /\ events' = [events EXCEPT ![m.id] = None]
                /\ map' = [map EXCEPT ![m.id] = None]
        /\ UNCHANGED <<rest, active, counter, seen, made, calls, accepts, thread, user, asker,
                       accepter, peer>>

\* _parse_channel_open: an id is taken for a channel that may be opened.
Admissible(kind) == serverMode \/ (kind = "forwarded" /\ tcpHandler)

ParseOpen ==
    LET kind == Head(in).kind
        id == NextChannel
    IN  /\ Receives("OPEN")
        /\ \/ /\ Admissible(kind)
              /\ counter' = NextCounter(id)
              /\ \/ thread' = [thread EXCEPT !.pc = "put", !.id = id]
                 \/ serverMode /\ UNCHANGED thread    \* the server object refuses
           \/ ~Admissible(kind) /\ UNCHANGED <<counter, thread>>
        /\ UNCHANGED <<rest, active, map, seen, events, made, chan, calls, saved, accepts, user,
                       asker, accepter, peer>>

\* The channel is put in the map under the lock, then confirmed.
PutOpened ==
    LET s == made + 1
        id == thread.id
    IN  /\ thread.pc = "put"
        /\ made' = s
        /\ chan' = [chan EXCEPT ![s] = [Made EXCEPT !.id = id, !.remote = s]]
        /\ map' = [map EXCEPT ![id] = s]
        /\ seen' = SeenWith(id)
        /\ peer' = [peer EXCEPT !.open = @ \cup {s}]
        /\ thread' = [thread EXCEPT !.pc = "queue", !.chan = s, !.id = None]
        /\ UNCHANGED <<rest, active, counter, events, calls, saved, accepts, user, asker, accepter, in>>

\* Mutant: the waiting accept is not told.
ToldQuietly == accepter

Told == Notified

\* _queue_incoming_channel
QueueIncoming ==
    /\ thread.pc = "queue"
    /\ accepts' = Append(accepts, thread.chan)
    /\ accepter' = Told
    /\ thread' = [thread EXCEPT !.pc = "read", !.chan = None]
    /\ UNCHANGED <<rest, active, ids, chan, calls, saved, user, asker, in, peer>>

\* _parse_request_success, _parse_request_failure
ParseRequestAnswer ==
    /\ Receives("GLOBAL_ANSWER")
    /\ response' = [n |-> Head(in).to, ok |-> Head(in).ok]
    /\ completion' = IF completion = "none" THEN "none" ELSE "set"
    /\ UNCHANGED <<rest, active, ids, chan, tcpHandler, saved, accepts, thread, user, asker,
                   accepter, peer>>

\* _parse_newkeys, the last step of a key exchange, sets the event too.
ParseNewkeys ==
    /\ Receives("NEWKEYS")
    /\ completion' = IF completion = "none" THEN "none" ELSE "set"
    /\ asker' = [a \in Askers |-> IF asker[a].pc # "idle"
                                  THEN [asker[a] EXCEPT !.stirred = TRUE] ELSE asker[a]]
    /\ UNCHANGED <<rest, active, ids, chan, response, tcpHandler, saved, accepts, thread, user,
                   accepter, peer>>

(****************************************************************************)
(* The dispatch of a message that belongs to a channel.                     *)
(****************************************************************************)
Found == Get(Head(in).id)

Dispatch(type) ==
    /\ Receives(type) /\ Found # None
    /\ thread' = [thread EXCEPT !.chan = Found]
    /\ UNCHANGED <<rest, active, counter, seen, events, made, calls, saved, accepts, user, asker,
                   accepter, peer>>

HandleClose ==
    /\ Dispatch("CLOSE")
    /\ CloseInternal(Found)
    /\ map' = [map EXCEPT ![chan[Found].id] = None]

RequestSuccess ==
    /\ Dispatch("SUCCESS")
    /\ chan' = [chan EXCEPT ![Found].event = TRUE, ![Found].ready = TRUE]
    /\ UNCHANGED map

\* A refused request closes the channel.
RequestFailed ==
    /\ Dispatch("FAILURE")
    /\ CloseInternal(Found)
    /\ UNCHANGED map

ForChannel == \E type \in {"CLOSE", "SUCCESS", "FAILURE"} : Receives(type)

\* No such channel: a late message is ignored, an unknown id ends the transport.
NoChannel ==
    /\ ForChannel /\ Found = None
    /\ active' = (Head(in).id \in seen)
    /\ thread' = IF Head(in).id \in seen THEN [thread EXCEPT !.chan = None]
                 ELSE [thread EXCEPT !.pc = "unlink", !.why = "unknown", !.chan = None]
    /\ UNCHANGED <<rest, ids, chan, calls, saved, accepts, user, asker, accepter, peer>>

\* An exception leaves the loop, or the loop sees that active is false.
LoopEnds ==
    /\ thread.pc = "read"
    /\ \/ ~active /\ saved' \in {saved, "eof"}
       \/ active /\ peer.gone /\ in = <<>> /\ saved' = "eof"
    /\ thread' = [thread EXCEPT !.pc = "unlink", !.chan = None]
    /\ UNCHANGED <<rest, active, ids, chan, calls, accepts, user, asker, accepter, in, peer>>

ParseDisconnect ==
    /\ Receives("DISCONNECT")
    /\ active' = FALSE
    /\ thread' = [thread EXCEPT !.pc = "unlink", !.chan = None]
    /\ UNCHANGED <<rest, ids, chan, calls, saved, accepts, user, asker, accepter, peer>>

\* _unlink of every channel in the map.
UnlinkAll ==
    LET linked == {Get(i) : i \in Ids} \ {None}
        alive == {s \in linked : ~chan[s].closed}
    IN  /\ thread.pc = "unlink"
        /\ chan' = [s \in Channels |-> IF s \in alive THEN Closed(chan[s]) ELSE chan[s]]
        /\ map' = [i \in Ids |-> IF map[i] \in alive THEN None ELSE map[i]]
        /\ thread' = [thread EXCEPT !.pc = IF active THEN "inactive" ELSE "end"]
        /\ UNCHANGED <<rest, active, counter, seen, events, made, calls, saved, accepts, user, asker,
                       accepter, in, peer>>

\* What only an end by an exception does: the events of everybody who waits.
Deactivate ==
    /\ thread.pc = "inactive"
    /\ IF active THEN active' = FALSE /\ thread' = [thread EXCEPT !.pc = "wake"]
       ELSE thread' = [thread EXCEPT !.pc = "end"] /\ UNCHANGED active
    /\ UNCHANGED <<rest, ids, chan, calls, saved, accepts, user, asker, accepter, in, peer>>

WakeAll ==
    /\ thread.pc = "wake"
    /\ completion' = IF completion = "none" THEN "none" ELSE "set"
    /\ chan' = [s \in Channels |->
                  [chan[s] EXCEPT !.opened = @ \/ \E i \in Ids : events[i] = s]]
    /\ thread' = [thread EXCEPT !.pc = "notify"]
    /\ UNCHANGED <<rest, active, ids, response, tcpHandler, saved, accepts, user, asker,
                   accepter, in, peer>>

NotifyAccept ==
    /\ thread.pc = "notify"
    /\ accepter' = Notified
    /\ thread' = [thread EXCEPT !.pc = "end"]
    /\ UNCHANGED <<rest, active, ids, chan, calls, saved, accepts, user, asker, in, peer>>

\* Transport.close by another thread; it joins the transport thread first.
Close ==
    /\ active
    /\ active' = FALSE
    /\ UNCHANGED <<rest, ids, chan, calls, saved, accepts, thread, user, asker, accepter, in, peer>>

(****************************************************************************)
(* The peer, another implementation of the protocol.                        *)
(****************************************************************************)
Says(m) ==
    /\ ~peer.gone
    /\ in' = Append(in, m)
    /\ UNCHANGED <<serverMode, active, ids, chan, calls, saved, accepts, thread, user, asker, accepter>>

PeerConfirms ==
    \E s \in peer.opens :
        /\ Says(Message("OPEN_SUCCESS", chan[s].id, s))
        /\ UNCHANGED left
        /\ peer' = [peer EXCEPT !.opens = @ \ {s}, !.open = @ \cup {s}]

PeerRefuses ==
    \E s \in peer.opens :
        /\ Says(Message("OPEN_FAILURE", chan[s].id, s))
        /\ UNCHANGED left
        /\ peer' = [peer EXCEPT !.opens = @ \ {s}]

PeerAnswers ==
    \E s \in peer.requests, type \in {"SUCCESS", "FAILURE"} :
        /\ Says(Message(type, chan[s].id, s))
        /\ UNCHANGED left
        /\ peer' = [peer EXCEPT !.requests = @ \ {s}]

PeerCloses ==
    \E s \in peer.open :
        /\ Says(Message("CLOSE", chan[s].id, s))
        /\ UNCHANGED left
        /\ peer' = [peer EXCEPT !.open = @ \ {s}, !.requests = @ \ {s}]

PeerOpens ==
    \E kind \in Forwards :
        /\ Spend("incoming")
        /\ Says([Message("OPEN", None, None) EXCEPT !.kind = kind])
        /\ UNCHANGED peer

PeerAnswersGlobal ==
    \E ok \in BOOLEAN :
        /\ peer.globals # <<>>
        /\ Says([Message("GLOBAL_ANSWER", None, Head(peer.globals)) EXCEPT !.ok = ok])
        /\ UNCHANGED left
        /\ peer' = [peer EXCEPT !.globals = Tail(@)]

PeerDisconnects ==
    /\ Says(Message("DISCONNECT", None, None))
    /\ UNCHANGED left
    /\ peer' = [peer EXCEPT !.gone = TRUE]

PeerDrops ==
    /\ ~peer.gone
    /\ peer' = [peer EXCEPT !.gone = TRUE]
    /\ UNCHANGED <<rest, active, ids, chan, calls, saved, accepts, thread, user, asker, accepter, in>>

\* The last packet of a key exchange, which either end may have asked for.
PeerRekeys ==
    /\ Spend("rekeys")
    /\ Says(Message("NEWKEYS", None, None))
    /\ UNCHANGED peer

-----------------------------------------------------------------------------
Transport ==
    \/ ParseOpenSuccess \/ ParseOpenFailure \/ ParseOpen \/ PutOpened \/ QueueIncoming
    \/ ParseRequestAnswer \/ ParseNewkeys
    \/ HandleClose \/ RequestSuccess \/ RequestFailed \/ NoChannel
    \/ LoopEnds \/ ParseDisconnect \/ UnlinkAll \/ Deactivate \/ WakeAll \/ NotifyAccept

\* What a user does without choosing to, once it has called.
Opens(u) == SendOpen(u) \/ WaitEnds(u) \/ GetOpened(u)
Requests(u) == EventPending(u) \/ SendRequest(u) \/ RequestEnds(u)
Asks(a) == SendGlobal(a) \/ GlobalEnds(a)
Accepts == Accept \/ AcceptWakes \/ AccepterDrops

Users ==
    \/ \E u \in Openers :
          \/ Opens(u) \/ Requests(u)
          \/ Register(u) \/ OpenTimeout(u) \/ RequestCheck(u) \/ Drop(u)
    \/ \E a \in Askers : AskGlobal(a) \/ Asks(a)
    \/ Accepts \/ AcceptTimeout \/ Close

Peer ==
    \/ PeerConfirms \/ PeerRefuses \/ PeerAnswers \/ PeerCloses \/ PeerOpens
    \/ PeerAnswersGlobal \/ PeerDisconnects \/ PeerDrops \/ PeerRekeys

Next == Transport \/ Users \/ Peer

Spec == Init /\ [][Next]_vars

\* The threads run; nothing is assumed of the peer, nor that a timeout fires.
Fairness ==
    /\ WF_vars(Transport) /\ WF_vars(Accepts)
    /\ \A u \in Openers : WF_vars(Opens(u)) /\ WF_vars(Requests(u))
    /\ \A a \in Askers : WF_vars(Asks(a))

FairSpec == Spec /\ Fairness
-----------------------------------------------------------------------------
TypeOK ==
    /\ active \in BOOLEAN /\ counter \in Ids /\ seen \subseteq Ids /\ made \in 0 .. IdSpace
    /\ map \in [Ids -> 0 .. made] /\ events \in [Ids -> 0 .. made]
    /\ completion \in {"none", "clear", "set"} /\ saved \in {"none", "refused", "eof"}
    /\ \A i \in 1 .. Len(accepts) : accepts[i] \in 1 .. made
    /\ \A u \in Openers : user[u].chan \in 0 .. made /\ (user[u].chan = None <=> user[u].pc = "idle")

(* open_channel returns the channel it has made, confirmed by the peer's answer *)
(* to its own message, whatever other threads and the peer open meanwhile.      *)
OpenIsOwn ==
    \A u \in Openers :
        user[u].pc \in {"have", "clear", "ask", "await"} =>
            /\ chan[user[u].chan].remote = user[u].chan
            /\ \A v \in Openers : user[v].chan = user[u].chan => v = u

(* A peer that keeps to the protocol is never taken to speak of an unknown    *)
(* channel, which ends the transport: an id is registered before the peer can *)
(* know it, and is still known when the channel is gone.                      *)
NeverUnknown == thread.why # "unknown"

(* A global request returns the peer's answer to it, as long as no two of them *)
(* have overlapped and no key exchange has ended during one, which share their *)
(* event.                                                                      *)
GlobalAnswerIsOwn ==
    (\A b \in Askers : ~asker[b].stirred) =>
        \A a \in Askers : asker[a].got.n # None => asker[a].got.n = asker[a].n

(* Whoever waits for the answer to a request on a channel that is closed is *)
(* woken, if the channel was still open when the wait began.                *)
RequestWoken ==
    \A u \in Openers :
        user[u].pc = "await" /\ chan[user[u].chan].closed =>
            chan[user[u].chan].event \/ chan[user[u].chan].late

(* "SSHException -- if the request was rejected or the channel was closed": *)
(* a request on a channel that is closed does not wait for ever.            *)
RequestEndsWithChannel ==
    \A u \in Openers :
        user[u].pc = "await" /\ chan[user[u].chan].closed ~> user[u].pc # "await"

(* When the transport has ended, by whichever way, nobody waits in          *)
(* open_channel or global_request any longer.                               *)
NobodyWaitsOnTheDead ==
    /\ \A u \in Openers : ~active /\ user[u].pc \in {"send", "wait", "get"} ~>
           user[u].pc \notin {"send", "wait", "get"}
    /\ \A a \in Askers : ~active /\ asker[a].pc # "idle" ~> asker[a].pc = "idle"

(* A channel in server_accepts is taken without waiting for the timeout of  *)
(* accept: the notification is not lost between the look and the wait.      *)
AcceptNotMissed == accepts # <<>> ~> accepts = <<>> \/ accepter.pc = "have"

(* Whoever asks the peer gets the answer to his own question.                  *)
OwnAnswers == TypeOK /\ OpenIsOwn /\ GlobalAnswerIsOwn

(* Nobody waits for what has already happened: the end of the transport, or a  *)
(* channel to accept.                                                          *)
NobodyForgotten == NobodyWaitsOnTheDead /\ AcceptNotMissed
=============================================================================
