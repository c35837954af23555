---------------------------- MODULE OpeningProofs ----------------------------

(****************************************************************************)
(* That whoever asks the peer gets the answer to his own question, that the *)
(* peer is never taken to speak of an unknown channel, and that the end of  *)
(* a channel wakes whoever waits on it, for any number of threads, channels *)
(* and requests.  OpeningInv says what every state keeps to.                *)
(****************************************************************************)
EXTENDS Opening, SequenceTheorems, TLAPS

Real == 1 .. made

Budgeted == {"opens", "incoming", "requests", "globals", "rekeys"}

\* The messages that name a channel of ours.
ChannelTypes == {"OPEN_SUCCESS", "OPEN_FAILURE", "CLOSE", "SUCCESS", "FAILURE"}
Types == ChannelTypes \cup {"OPEN", "GLOBAL_ANSWER", "NEWKEYS", "DISCONNECT"}
Kinds == {"none", "session", "forwarded"}
Messages == [type : Types, id : Ids, to : Nat, ok : BOOLEAN, kind : Kinds]

Answers == [n : Nat, ok : BOOLEAN]

UserPlaces == {"idle", "send", "wait", "get", "have", "clear", "ask", "await"}

-----------------------------------------------------------------------------
\* What each variable can be.
FlagsOK ==
    /\ active \in BOOLEAN /\ tcpHandler \in BOOLEAN /\ serverMode \in BOOLEAN
    /\ completion \in {"none", "clear", "set"} /\ saved \in {"none", "refused", "eof"}
    /\ response \in Answers

BudgetOK == left \in [Budgeted -> Nat]

MapsOK ==
    /\ made \in 0 .. IdSpace /\ counter \in Ids /\ seen \subseteq Ids
    /\ map \in [Ids -> 0 .. made] /\ events \in [Ids -> 0 .. made]

ChannelState ==
    [id : Ids, remote : Nat, closed : BOOLEAN, opened : BOOLEAN, event : BOOLEAN,
     ready : BOOLEAN, late : BOOLEAN]

ChannelsOK == chan \in [Channels -> ChannelState]

ThreadOK ==
    /\ thread \in [pc : {"read", "put", "queue", "unlink", "inactive", "wake", "notify", "end"},
                   chan : Nat, id : Ids, why : {"none", "unknown"}]
    /\ thread.chan \in 0 .. made
    /\ thread.pc = "queue" => thread.chan # None
    /\ thread.pc \in {"wake", "notify"} => ~active

UsersOK ==
    /\ user \in [Openers -> [pc : UserPlaces, chan : Nat]]
    /\ \A u \in Openers : user[u].chan \in 0 .. made /\ (user[u].chan = None <=> user[u].pc = "idle")

AskersOK ==
    asker \in [Askers -> [pc : {"idle", "send", "wait"}, n : Nat, stirred : BOOLEAN, got : Answers]]

AccepterOK ==
    /\ accepts \in Seq(1 .. made)
    /\ accepter \in [pc : {"idle", "away", "wait", "have"}, chan : Nat, told : BOOLEAN]
    /\ accepter.chan \in 0 .. made
    /\ accepter.pc = "have" => accepter.chan # None

WireOK == in \in Seq(Messages)

PeerOK ==
    /\ peer \in [opens : SUBSET Nat, open : SUBSET Nat, requests : SUBSET Nat,
                 globals : Seq(Nat), gone : BOOLEAN]
    /\ peer.opens \subseteq Real /\ peer.open \subseteq Real /\ peer.requests \subseteq Real

Shape ==
    /\ FlagsOK /\ BudgetOK /\ MapsOK /\ ChannelsOK /\ ThreadOK /\ UsersOK /\ AskersOK
    /\ AccepterOK /\ WireOK /\ PeerOK

-----------------------------------------------------------------------------
\* t[i]: the ids given once the first i messages have been looked at, at most.
Tally(n, t) ==
    /\ n <= t[0]
    /\ \A i, j \in 0 .. Len(in) : i <= j => t[i] <= t[j]
    /\ \A i \in 1 .. Len(in) : in[i].type = "OPEN" => t[i - 1] < t[i]
    /\ t[Len(in)] + left["opens"] + left["incoming"] <= IdSpace

Tallied(n) == \E t \in [0 .. Len(in) -> 0 .. IdSpace] : Tally(n, t)

\* n ids have been given, each of them once; they are enough for what is to come.
Given(n) ==
    /\ counter = (IF n = IdSpace THEN 0 ELSE n)
    /\ Tallied(n)
    /\ made <= n
    /\ \A s \in Real : chan[s].id < n
    /\ thread.pc = "put" => made + 1 <= n /\ thread.id < n

Numbered == \E n \in 0 .. IdSpace : Given(n)

\* A channel is found by its own id, which no other channel has.
Named ==
    /\ \A s, r \in Real : chan[s].id = chan[r].id => s = r
    /\ \A i \in Ids : map[i] # None => chan[map[i]].id = i
    /\ \A i \in Ids : events[i] # None => chan[events[i]].id = i
    /\ thread.pc = "put" => \A s \in Real : chan[s].id # thread.id

\* The end of the wait of open_channel means a confirmation, no channel, or the
\* end of the transport.
Confirmed ==
    /\ \A s \in Real : chan[s].remote \in {None, s}
    /\ \A s \in Real : chan[s].opened => chan[s].remote = s \/ map[chan[s].id] = None \/ ~active

\* What a user has is the channel made for it.
Own ==
    /\ \A u, v \in Openers : user[u].chan # None /\ user[u].chan = user[v].chan => u = v
    /\ \A u \in Openers : user[u].pc = "get" =>
           chan[user[u].chan].remote = user[u].chan \/ map[chan[user[u].chan].id] = None
    /\ \A u \in Openers : user[u].pc \in {"have", "clear", "ask", "await"} =>
           chan[user[u].chan].remote = user[u].chan

\* What is said about a channel gives the id of that channel, which is known.
Addressed ==
    /\ \A s \in Real : chan[s].id \in seen
    /\ \A i \in 1 .. Len(in) : in[i].type \in ChannelTypes =>
           in[i].to \in Real /\ in[i].id = chan[in[i].to].id
    /\ NeverUnknown

Woken ==
    \A u \in Openers : user[u].pc \in {"ask", "await"} /\ chan[user[u].chan].closed =>
        chan[user[u].chan].event \/ chan[user[u].chan].late

-----------------------------------------------------------------------------
IsAnswer(i) == in[i].type = "GLOBAL_ANSWER"
NoAnswer == \A i \in 1 .. Len(in) : ~IsAnswer(i)

\* The peer owes no answer.
Quiet == peer.globals = <<>> /\ NoAnswer

\* It owes one, to request n.
Owes(n) ==
    \/ peer.globals = <<n>> /\ NoAnswer
    \/ /\ peer.globals = <<>>
       /\ \E i \in 1 .. Len(in) :
              IsAnswer(i) /\ in[i].to = n /\ \A j \in 1 .. Len(in) : IsAnswer(j) => j = i

OneAsker ==
    /\ \A a, b \in Askers : asker[a].pc # "idle" /\ asker[b].pc # "idle" => a = b
    /\ (\A a \in Askers : asker[a].pc = "idle") => Quiet
    /\ \A a \in Askers : asker[a].pc = "send" => Quiet /\ completion = "clear"
    /\ \A a \in Askers : asker[a].pc = "wait" =>
           \/ completion = "clear" /\ Owes(asker[a].n)
           \/ completion = "set" /\ response.n = asker[a].n /\ Quiet

Stirless == \A b \in Askers : ~asker[b].stirred

\* Requests that nothing disturbs have the event to themselves.
Undisturbed == GlobalAnswerIsOwn /\ (Stirless /\ active => OneAsker)

OpeningInv ==
    /\ Shape
    /\ Numbered /\ Named /\ Confirmed /\ Own /\ Addressed /\ Woken /\ Undisturbed

-----------------------------------------------------------------------------
(****************************************************************************)
(* Which steps write which variable.                                        *)
(****************************************************************************)
LEMMA MadeWriters ==
  ASSUME Next
  PROVE \/ UNCHANGED <<made, seen>>
        \/ \E u \in Openers : Register(u)
        \/ PutOpened
<1>1. CASE Transport
  BY <1>1, Zenon
     DEF Transport, ids, ParseOpenSuccess, ParseOpenFailure, ParseOpen, QueueIncoming,
         ParseRequestAnswer, ParseNewkeys, HandleClose, RequestSuccess, RequestFailed, NoChannel,
         LoopEnds, ParseDisconnect, UnlinkAll, Deactivate, WakeAll, NotifyAccept, Dispatch
<1>2. CASE Users
  BY <1>2, Zenon
     DEF Users, Opens, Requests, Asks, Accepts, ids, SendOpen, WaitEnds, GetOpened, OpenTimeout,
         RequestCheck, EventPending, SendRequest, RequestEnds, Drop, AskGlobal, SendGlobal,
         GlobalEnds, Accept, AcceptWakes, AcceptTimeout, AccepterDrops, Close
<1>3. CASE Peer
  BY <1>3, Zenon
     DEF Peer, Says, ids, PeerConfirms, PeerRefuses, PeerAnswers, PeerCloses, PeerOpens,
         PeerAnswersGlobal, PeerDisconnects, PeerDrops, PeerRekeys
<1> QED
  BY <1>1, <1>2, <1>3, Zenon DEF Next

LEMMA CounterWriters ==
  ASSUME Next
  PROVE \/ UNCHANGED counter
        \/ \E u \in Openers : Register(u)
        \/ ParseOpen
<1>1. CASE Transport
  BY <1>1, Zenon
     DEF Transport, ids, ParseOpenSuccess, ParseOpenFailure, PutOpened, QueueIncoming,
         ParseRequestAnswer, ParseNewkeys, HandleClose, RequestSuccess, RequestFailed, NoChannel,
         LoopEnds, ParseDisconnect, UnlinkAll, Deactivate, WakeAll, NotifyAccept, Dispatch
<1>2. CASE Users
  BY <1>2, Zenon
     DEF Users, Opens, Requests, Asks, Accepts, ids, SendOpen, WaitEnds, GetOpened, OpenTimeout,
         RequestCheck, EventPending, SendRequest, RequestEnds, Drop, AskGlobal, SendGlobal,
         GlobalEnds, Accept, AcceptWakes, AcceptTimeout, AccepterDrops, Close
<1>3. CASE Peer
  BY <1>3, Zenon
     DEF Peer, Says, ids, PeerConfirms, PeerRefuses, PeerAnswers, PeerCloses, PeerOpens,
         PeerAnswersGlobal, PeerDisconnects, PeerDrops, PeerRekeys
<1> QED
  BY <1>1, <1>2, <1>3, Zenon DEF Next

LEMMA MapWriters ==
  ASSUME Next
  PROVE \/ UNCHANGED map
        \/ \E u \in Openers : Register(u)
        \/ ParseOpenFailure \/ PutOpened \/ HandleClose \/ UnlinkAll
<1>1. CASE Transport
  BY <1>1, Zenon
     DEF Transport, ids, ParseOpenSuccess, ParseOpen, QueueIncoming, ParseRequestAnswer,
         ParseNewkeys, RequestSuccess, RequestFailed, NoChannel, LoopEnds, ParseDisconnect,
         Deactivate, WakeAll, NotifyAccept, Dispatch
<1>2. CASE Users
  BY <1>2, Zenon
     DEF Users, Opens, Requests, Asks, Accepts, ids, SendOpen, WaitEnds, GetOpened, OpenTimeout,
         RequestCheck, EventPending, SendRequest, RequestEnds, Drop, AskGlobal, SendGlobal,
         GlobalEnds, Accept, AcceptWakes, AcceptTimeout, AccepterDrops, Close
<1>3. CASE Peer
  BY <1>3, Zenon
     DEF Peer, Says, ids, PeerConfirms, PeerRefuses, PeerAnswers, PeerCloses, PeerOpens,
         PeerAnswersGlobal, PeerDisconnects, PeerDrops, PeerRekeys
<1> QED
  BY <1>1, <1>2, <1>3, Zenon DEF Next

LEMMA EventsWriters ==
  ASSUME Next
  PROVE \/ UNCHANGED events
        \/ \E u \in Openers : Register(u)
        \/ ParseOpenSuccess \/ ParseOpenFailure
<1>1. CASE Transport
  BY <1>1, Zenon
     DEF Transport, ids, ParseOpen, PutOpened, QueueIncoming, ParseRequestAnswer, ParseNewkeys,
         HandleClose, RequestSuccess, RequestFailed, NoChannel, LoopEnds, ParseDisconnect,
         UnlinkAll, Deactivate, WakeAll, NotifyAccept, Dispatch
<1>2. CASE Users
  BY <1>2, Zenon
     DEF Users, Opens, Requests, Asks, Accepts, ids, SendOpen, WaitEnds, GetOpened, OpenTimeout,
         RequestCheck, EventPending, SendRequest, RequestEnds, Drop, AskGlobal, SendGlobal,
         GlobalEnds, Accept, AcceptWakes, AcceptTimeout, AccepterDrops, Close
<1>3. CASE Peer
  BY <1>3, Zenon
     DEF Peer, Says, ids, PeerConfirms, PeerRefuses, PeerAnswers, PeerCloses, PeerOpens,
         PeerAnswersGlobal, PeerDisconnects, PeerDrops, PeerRekeys
<1> QED
  BY <1>1, <1>2, <1>3, Zenon DEF Next

LEMMA ChanWriters ==
  ASSUME Next
  PROVE \/ UNCHANGED chan
        \/ \E u \in Openers : Register(u) \/ EventPending(u) \/ Drop(u)
        \/ AccepterDrops \/ ParseOpenSuccess \/ ParseOpenFailure \/ PutOpened \/ HandleClose
        \/ RequestSuccess \/ RequestFailed \/ UnlinkAll \/ WakeAll
<1>1. CASE Transport
  BY <1>1, Zenon
     DEF Transport, ParseOpen, QueueIncoming, ParseRequestAnswer, ParseNewkeys, NoChannel,
         LoopEnds, ParseDisconnect, Deactivate, NotifyAccept
<1>2. CASE Users
  BY <1>2, Zenon
     DEF Users, Opens, Requests, Asks, Accepts, SendOpen, WaitEnds, GetOpened, OpenTimeout,
         RequestCheck, SendRequest, RequestEnds, AskGlobal, SendGlobal, GlobalEnds, Accept,
         AcceptWakes, AcceptTimeout, Close
<1>3. CASE Peer
  BY <1>3, Zenon
     DEF Peer, Says, PeerConfirms, PeerRefuses, PeerAnswers, PeerCloses, PeerOpens,
         PeerAnswersGlobal, PeerDisconnects, PeerDrops, PeerRekeys
<1> QED
  BY <1>1, <1>2, <1>3, Zenon DEF Next

LEMMA ActiveWriters ==
  ASSUME Next
  PROVE \/ UNCHANGED active
        \/ Close \/ NoChannel \/ ParseDisconnect \/ Deactivate
<1>1. CASE Transport
  BY <1>1, Zenon
     DEF Transport, ParseOpenSuccess, ParseOpenFailure, ParseOpen, PutOpened, QueueIncoming,
         ParseRequestAnswer, ParseNewkeys, HandleClose, RequestSuccess, RequestFailed, LoopEnds,
         UnlinkAll, WakeAll, NotifyAccept, Dispatch
<1>2. CASE Users
  BY <1>2, Zenon
     DEF Users, Opens, Requests, Asks, Accepts, Register, SendOpen, WaitEnds, GetOpened,
         OpenTimeout, RequestCheck, EventPending, SendRequest, RequestEnds, Drop, AskGlobal,
         SendGlobal, GlobalEnds, Accept, AcceptWakes, AcceptTimeout, AccepterDrops
<1>3. CASE Peer
  BY <1>3, Zenon
     DEF Peer, Says, PeerConfirms, PeerRefuses, PeerAnswers, PeerCloses, PeerOpens,
         PeerAnswersGlobal, PeerDisconnects, PeerDrops, PeerRekeys
<1> QED
  BY <1>1, <1>2, <1>3, Zenon DEF Next

LEMMA ThreadWriters ==
  ASSUME Next
  PROVE \/ UNCHANGED thread
        \/ ParseOpen \/ PutOpened \/ QueueIncoming \/ HandleClose \/ RequestSuccess
        \/ RequestFailed \/ NoChannel \/ LoopEnds \/ ParseDisconnect \/ UnlinkAll \/ Deactivate
        \/ WakeAll \/ NotifyAccept
<1>1. CASE Transport
  BY <1>1, Zenon
     DEF Transport, ParseOpenSuccess, ParseOpenFailure, ParseRequestAnswer, ParseNewkeys
<1>2. CASE Users
  BY <1>2, Zenon
     DEF Users, Opens, Requests, Asks, Accepts, Register, SendOpen, WaitEnds, GetOpened,
         OpenTimeout, RequestCheck, EventPending, SendRequest, RequestEnds, Drop, AskGlobal,
         SendGlobal, GlobalEnds, Accept, AcceptWakes, AcceptTimeout, AccepterDrops, Close
<1>3. CASE Peer
  BY <1>3, Zenon
     DEF Peer, Says, PeerConfirms, PeerRefuses, PeerAnswers, PeerCloses, PeerOpens,
         PeerAnswersGlobal, PeerDisconnects, PeerDrops, PeerRekeys
<1> QED
  BY <1>1, <1>2, <1>3, Zenon DEF Next

LEMMA UserWriters ==
  ASSUME Next
  PROVE \/ UNCHANGED user
        \/ \E u \in Openers : Register(u) \/ SendOpen(u) \/ WaitEnds(u) \/ GetOpened(u) \/
             OpenTimeout(u) \/ RequestCheck(u) \/ EventPending(u) \/ SendRequest(u) \/
             RequestEnds(u) \/ Drop(u)
<1>1. CASE Transport
  BY <1>1, Zenon
     DEF Transport, ParseOpenSuccess, ParseOpenFailure, ParseOpen, PutOpened, QueueIncoming,
         ParseRequestAnswer, ParseNewkeys, HandleClose, RequestSuccess, RequestFailed, NoChannel,
         LoopEnds, ParseDisconnect, UnlinkAll, Deactivate, WakeAll, NotifyAccept, Dispatch
<1>2. CASE Users
  BY <1>2, Zenon
     DEF Users, Opens, Requests, Asks, Accepts, AskGlobal, SendGlobal, GlobalEnds, Accept,
         AcceptWakes, AcceptTimeout, AccepterDrops, Close
<1>3. CASE Peer
  BY <1>3, Zenon
     DEF Peer, Says, PeerConfirms, PeerRefuses, PeerAnswers, PeerCloses, PeerOpens,
         PeerAnswersGlobal, PeerDisconnects, PeerDrops, PeerRekeys
<1> QED
  BY <1>1, <1>2, <1>3, Zenon DEF Next

LEMMA AskerWriters ==
  ASSUME Next
  PROVE \/ UNCHANGED asker
        \/ \E a \in Askers : AskGlobal(a) \/ SendGlobal(a) \/ GlobalEnds(a)
        \/ ParseNewkeys
<1>1. CASE Transport
  BY <1>1, Zenon
     DEF Transport, ParseOpenSuccess, ParseOpenFailure, ParseOpen, PutOpened, QueueIncoming,
         ParseRequestAnswer, HandleClose, RequestSuccess, RequestFailed, NoChannel, LoopEnds,
         ParseDisconnect, UnlinkAll, Deactivate, WakeAll, NotifyAccept, Dispatch
<1>2. CASE Users
  BY <1>2, Zenon
     DEF Users, Opens, Requests, Asks, Accepts, Register, SendOpen, WaitEnds, GetOpened,
         OpenTimeout, RequestCheck, EventPending, SendRequest, RequestEnds, Drop, Accept,
         AcceptWakes, AcceptTimeout, AccepterDrops, Close
<1>3. CASE Peer
  BY <1>3, Zenon
     DEF Peer, Says, PeerConfirms, PeerRefuses, PeerAnswers, PeerCloses, PeerOpens,
         PeerAnswersGlobal, PeerDisconnects, PeerDrops, PeerRekeys
<1> QED
  BY <1>1, <1>2, <1>3, Zenon DEF Next

LEMMA AccepterWriters ==
  ASSUME Next
  PROVE \/ UNCHANGED <<accepts, accepter>>
        \/ Accept \/ AcceptWakes \/ AcceptTimeout \/ AccepterDrops \/ QueueIncoming
        \/ NotifyAccept
<1>1. CASE Transport
  BY <1>1, Zenon
     DEF Transport, ParseOpenSuccess, ParseOpenFailure, ParseOpen, PutOpened, ParseRequestAnswer,
         ParseNewkeys, HandleClose, RequestSuccess, RequestFailed, NoChannel, LoopEnds,
         ParseDisconnect, UnlinkAll, Deactivate, WakeAll, Dispatch
<1>2. CASE Users
  BY <1>2, Zenon
     DEF Users, Opens, Requests, Asks, Accepts, Register, SendOpen, WaitEnds, GetOpened,
         OpenTimeout, RequestCheck, EventPending, SendRequest, RequestEnds, Drop, AskGlobal,
         SendGlobal, GlobalEnds, Close
<1>3. CASE Peer
  BY <1>3, Zenon
     DEF Peer, Says, PeerConfirms, PeerRefuses, PeerAnswers, PeerCloses, PeerOpens,
         PeerAnswersGlobal, PeerDisconnects, PeerDrops, PeerRekeys
<1> QED
  BY <1>1, <1>2, <1>3, Zenon DEF Next

LEMMA EventWriters ==
  ASSUME Next
  PROVE \/ UNCHANGED completion
        \/ \E a \in Askers : AskGlobal(a)
        \/ ParseRequestAnswer \/ ParseNewkeys \/ WakeAll
<1>1. CASE Transport
  BY <1>1, Zenon
     DEF Transport, calls, ParseOpenSuccess, ParseOpenFailure, ParseOpen, PutOpened,
         QueueIncoming, HandleClose, RequestSuccess, RequestFailed, NoChannel, LoopEnds,
         ParseDisconnect, UnlinkAll, Deactivate, NotifyAccept, Dispatch
<1>2. CASE Users
  BY <1>2, Zenon
     DEF Users, Opens, Requests, Asks, Accepts, calls, Register, SendOpen, WaitEnds, GetOpened,
         OpenTimeout, RequestCheck, EventPending, SendRequest, RequestEnds, Drop, SendGlobal,
         GlobalEnds, Accept, AcceptWakes, AcceptTimeout, AccepterDrops, Close
<1>3. CASE Peer
  BY <1>3, Zenon
     DEF Peer, Says, calls, PeerConfirms, PeerRefuses, PeerAnswers, PeerCloses, PeerOpens,
         PeerAnswersGlobal, PeerDisconnects, PeerDrops, PeerRekeys
<1> QED
  BY <1>1, <1>2, <1>3, Zenon DEF Next

LEMMA ResponseWriters ==
  ASSUME Next
  PROVE \/ UNCHANGED response
        \/ ParseRequestAnswer
<1>1. CASE Transport
  BY <1>1, Zenon
     DEF Transport, calls, ParseOpenSuccess, ParseOpenFailure, ParseOpen, PutOpened,
         QueueIncoming, ParseNewkeys, HandleClose, RequestSuccess, RequestFailed, NoChannel,
         LoopEnds, ParseDisconnect, UnlinkAll, Deactivate, WakeAll, NotifyAccept, Dispatch
<1>2. CASE Users
  BY <1>2, Zenon
     DEF Users, Opens, Requests, Asks, Accepts, calls, Register, SendOpen, WaitEnds, GetOpened,
         OpenTimeout, RequestCheck, EventPending, SendRequest, RequestEnds, Drop, AskGlobal,
         SendGlobal, GlobalEnds, Accept, AcceptWakes, AcceptTimeout, AccepterDrops, Close
<1>3. CASE Peer
  BY <1>3, Zenon
     DEF Peer, Says, calls, PeerConfirms, PeerRefuses, PeerAnswers, PeerCloses, PeerOpens,
         PeerAnswersGlobal, PeerDisconnects, PeerDrops, PeerRekeys
<1> QED
  BY <1>1, <1>2, <1>3, Zenon DEF Next

LEMMA HandlerWriters ==
  ASSUME Next
  PROVE \/ UNCHANGED tcpHandler
        \/ \E a \in Askers : GlobalEnds(a)
<1>1. CASE Transport
  BY <1>1, Zenon
     DEF Transport, calls, ParseOpenSuccess, ParseOpenFailure, ParseOpen, PutOpened,
         QueueIncoming, ParseRequestAnswer, ParseNewkeys, HandleClose, RequestSuccess,
         RequestFailed, NoChannel, LoopEnds, ParseDisconnect, UnlinkAll, Deactivate, WakeAll,
         NotifyAccept, Dispatch
<1>2. CASE Users
  BY <1>2, Zenon
     DEF Users, Opens, Requests, Asks, Accepts, calls, Register, SendOpen, WaitEnds, GetOpened,
         OpenTimeout, RequestCheck, EventPending, SendRequest, RequestEnds, Drop, AskGlobal,
         SendGlobal, Accept, AcceptWakes, AcceptTimeout, AccepterDrops, Close
<1>3. CASE Peer
  BY <1>3, Zenon
     DEF Peer, Says, calls, PeerConfirms, PeerRefuses, PeerAnswers, PeerCloses, PeerOpens,
         PeerAnswersGlobal, PeerDisconnects, PeerDrops, PeerRekeys
<1> QED
  BY <1>1, <1>2, <1>3, Zenon DEF Next

LEMMA SavedWriters ==
  ASSUME Next
  PROVE \/ UNCHANGED saved
        \/ \E u \in Openers : WaitEnds(u) \/ GetOpened(u) \/ RequestEnds(u)
        \/ ParseOpenFailure \/ LoopEnds
<1>1. CASE Transport
  BY <1>1, Zenon
     DEF Transport, ParseOpenSuccess, ParseOpen, PutOpened, QueueIncoming, ParseRequestAnswer,
         ParseNewkeys, HandleClose, RequestSuccess, RequestFailed, NoChannel, ParseDisconnect,
         UnlinkAll, Deactivate, WakeAll, NotifyAccept, Dispatch
<1>2. CASE Users
  BY <1>2, Zenon
     DEF Users, Opens, Requests, Asks, Accepts, Register, SendOpen, OpenTimeout, RequestCheck,
         EventPending, SendRequest, Drop, AskGlobal, SendGlobal, GlobalEnds, Accept, AcceptWakes,
         AcceptTimeout, AccepterDrops, Close
<1>3. CASE Peer
  BY <1>3, Zenon
     DEF Peer, Says, PeerConfirms, PeerRefuses, PeerAnswers, PeerCloses, PeerOpens,
         PeerAnswersGlobal, PeerDisconnects, PeerDrops, PeerRekeys
<1> QED
  BY <1>1, <1>2, <1>3, Zenon DEF Next

LEMMA ModeWriters ==
  ASSUME Next
  PROVE UNCHANGED serverMode
<1>1. CASE Transport
  BY <1>1, Zenon
     DEF Transport, rest, ParseOpenSuccess, ParseOpenFailure, ParseOpen, PutOpened, QueueIncoming,
         ParseRequestAnswer, ParseNewkeys, HandleClose, RequestSuccess, RequestFailed, NoChannel,
         LoopEnds, ParseDisconnect, UnlinkAll, Deactivate, WakeAll, NotifyAccept, Dispatch
<1>2. CASE Users
  BY <1>2, Zenon
     DEF Users, Opens, Requests, Asks, Accepts, rest, Register, SendOpen, WaitEnds, GetOpened,
         OpenTimeout, RequestCheck, EventPending, SendRequest, RequestEnds, Drop, AskGlobal,
         SendGlobal, GlobalEnds, Accept, AcceptWakes, AcceptTimeout, AccepterDrops, Close
<1>3. CASE Peer
  BY <1>3, Zenon
     DEF Peer, Says, rest, PeerConfirms, PeerRefuses, PeerAnswers, PeerCloses, PeerOpens,
         PeerAnswersGlobal, PeerDisconnects, PeerDrops, PeerRekeys
<1> QED
  BY <1>1, <1>2, <1>3, Zenon DEF Next

LEMMA LeftWriters ==
  ASSUME Next
  PROVE \/ UNCHANGED left
        \/ \E u \in Openers : Register(u) \/ RequestCheck(u)
        \/ \E a \in Askers : AskGlobal(a)
        \/ PeerOpens \/ PeerRekeys
<1>1. CASE Transport
  BY <1>1, Zenon
     DEF Transport, rest, ParseOpenSuccess, ParseOpenFailure, ParseOpen, PutOpened, QueueIncoming,
         ParseRequestAnswer, ParseNewkeys, HandleClose, RequestSuccess, RequestFailed, NoChannel,
         LoopEnds, ParseDisconnect, UnlinkAll, Deactivate, WakeAll, NotifyAccept, Dispatch
<1>2. CASE Users
  BY <1>2, Zenon
     DEF Users, Opens, Requests, Asks, Accepts, rest, SendOpen, WaitEnds, GetOpened, OpenTimeout,
         EventPending, SendRequest, RequestEnds, Drop, SendGlobal, GlobalEnds, Accept,
         AcceptWakes, AcceptTimeout, AccepterDrops, Close
<1>3. CASE Peer
  BY <1>3, Zenon
     DEF Peer, Says, rest, PeerConfirms, PeerRefuses, PeerAnswers, PeerCloses, PeerAnswersGlobal,
         PeerDisconnects, PeerDrops
<1> QED
  BY <1>1, <1>2, <1>3, Zenon DEF Next

LEMMA WireWriters ==
  ASSUME Next
  PROVE \/ UNCHANGED in
        \/ ParseOpenSuccess \/ ParseOpenFailure \/ ParseOpen \/ ParseRequestAnswer
        \/ ParseNewkeys \/ HandleClose \/ RequestSuccess \/ RequestFailed \/ NoChannel
        \/ ParseDisconnect \/ PeerConfirms \/ PeerRefuses \/ PeerAnswers \/ PeerCloses
        \/ PeerOpens \/ PeerAnswersGlobal \/ PeerDisconnects \/ PeerRekeys
<1>1. CASE Transport
  BY <1>1, Zenon
     DEF Transport, PutOpened, QueueIncoming, LoopEnds, UnlinkAll, Deactivate, WakeAll,
         NotifyAccept
<1>2. CASE Users
  BY <1>2, Zenon
     DEF Users, Opens, Requests, Asks, Accepts, Register, SendOpen, WaitEnds, GetOpened,
         OpenTimeout, RequestCheck, EventPending, SendRequest, RequestEnds, Drop, AskGlobal,
         SendGlobal, GlobalEnds, Accept, AcceptWakes, AcceptTimeout, AccepterDrops, Close
<1>3. CASE Peer
  BY <1>3, Zenon DEF Peer, Says, PeerDrops
<1> QED
  BY <1>1, <1>2, <1>3, Zenon DEF Next

LEMMA PeerWriters ==
  ASSUME Next
  PROVE \/ UNCHANGED peer
        \/ \E u \in Openers : SendOpen(u) \/ SendRequest(u)
        \/ \E a \in Askers : SendGlobal(a)
        \/ PutOpened \/ PeerConfirms \/ PeerRefuses \/ PeerAnswers \/ PeerCloses
        \/ PeerAnswersGlobal \/ PeerDisconnects \/ PeerDrops
<1>1. CASE Transport
  BY <1>1, Zenon
     DEF Transport, ParseOpenSuccess, ParseOpenFailure, ParseOpen, QueueIncoming,
         ParseRequestAnswer, ParseNewkeys, HandleClose, RequestSuccess, RequestFailed, NoChannel,
         LoopEnds, ParseDisconnect, UnlinkAll, Deactivate, WakeAll, NotifyAccept, Dispatch
<1>2. CASE Users
  BY <1>2, Zenon
     DEF Users, Opens, Requests, Asks, Accepts, Register, WaitEnds, GetOpened, OpenTimeout,
         RequestCheck, EventPending, RequestEnds, Drop, AskGlobal, GlobalEnds, Accept,
         AcceptWakes, AcceptTimeout, AccepterDrops, Close
<1>3. CASE Peer
  BY <1>3, Zenon DEF Peer, Says, PeerOpens, PeerRekeys
<1> QED
  BY <1>1, <1>2, <1>3, Zenon DEF Next

-----------------------------------------------------------------------------
(****************************************************************************)
(* What a step does to the channels.  A new one gets an id that was never   *)
(* given; the others keep theirs, and a channel is confirmed as itself.     *)
(****************************************************************************)
LEMMA Below ==
  ASSUME NEW d \in Nat \ {0}, NEW x \in 0 .. d - 1
  PROVE x % d = x
  BY SMT

LEMMA OnceMore ==
  ASSUME NEW d \in Nat \ {0}, NEW x \in Nat, d <= x, x < d + d
  PROVE x % d = x - d
  BY SMT

\* Budgets are enough for the ids.
LEMMA SpaceFacts == IdSpace \in Nat \ {0} /\ 0 \in Ids /\ \A i \in Ids : i \in Nat /\ i < IdSpace
  BY IdsAssumption DEF Ids

LEMMA CounterGoesOn ==
  ASSUME NEW i \in Ids
  PROVE NextCounter(i) = (IF i + 1 = IdSpace THEN 0 ELSE i + 1) /\ NextCounter(i) \in Ids
<1> DEFINE d == IdSpace
<1>1. d \in Nat \ {0} /\ i \in 0 .. d - 1
  BY SpaceFacts DEF Ids
<1>2. CASE i + 1 = d
  <2>1. NextCounter(i) = 0
    BY <1>1, <1>2, OnceMore DEF NextCounter
  <2> QED
    BY <1>2, <2>1, SpaceFacts
<1>3. CASE i + 1 # d
  <2>1. i + 1 \in 0 .. d - 1
    BY <1>1, <1>3
  <2> QED
    BY <1>1, <1>3, <2>1, Below DEF NextCounter, Ids
<1> QED
  BY <1>2, <1>3

\* While ids are left, the counter's own has no channel, so it is the next.
LEMMA NextIsFresh ==
  ASSUME MapsOK, Named, NEW n \in 0 .. IdSpace, Given(n), n < IdSpace
  PROVE counter = n /\ n \in Ids /\ NextChannel = n
<1> DEFINE distance(i) == (i + IdSpace - counter) % IdSpace
<1>1. counter = n /\ n \in Ids /\ n \in Nat /\ IdSpace \in Nat \ {0}
  BY SpaceFacts DEF Given, Ids
<1>2. map[n] = None
  <2> SUFFICES ASSUME map[n] # None PROVE FALSE
    OBVIOUS
  <2>1. map[n] \in Real /\ chan[map[n]].id = n
    BY <1>1 DEF MapsOK, Named, Real, None
  <2> QED
    BY <2>1, <1>1 DEF Given
<1>3. Get(n) = None
  BY <1>2 DEF Get
<1>4. distance(n) = 0
  <2>1. n + IdSpace - n = IdSpace
    BY <1>1
  <2>2. IdSpace % IdSpace = 0
    BY <1>1, OnceMore
  <2> QED
    BY <2>1, <2>2, <1>1
<1>5. ASSUME NEW i \in Ids, i # n
      PROVE distance(i) \in Nat /\ distance(i) > 0
  <2>1. i \in Nat /\ i < IdSpace
    BY SpaceFacts
  <2>2. CASE i < n
    <3>1. i + IdSpace - n \in 0 .. IdSpace - 1 /\ i + IdSpace - n > 0
      BY <2>1, <2>2, <1>1
    <3> QED
      BY <3>1, <1>1, Below
  <2>3. CASE i > n
    <3> DEFINE x == i + IdSpace - n
    <3>1. x \in Nat /\ IdSpace <= x /\ x < IdSpace + IdSpace /\ x - IdSpace > 0
      BY <2>1, <2>3, <1>1
    <3>2. x % IdSpace = x - IdSpace
      BY <3>1, <1>1, OnceMore
    <3> QED
      BY <3>1, <3>2, <1>1
  <2> QED
    BY <1>1, <1>5, <2>1, <2>2, <2>3
<1> HIDE DEF distance
<1>6. \E i \in Ids : Get(i) = None /\ \A j \in Ids : Get(j) = None => distance(i) <= distance(j)
  BY <1>1, <1>3, <1>4, <1>5
<1>7. NextChannel =
        CHOOSE i \in Ids : Get(i) = None /\ \A j \in Ids : Get(j) = None => distance(i) <= distance(j)
  BY DEF NextChannel, distance
<1>8. /\ NextChannel \in Ids
      /\ \A j \in Ids : Get(j) = None => distance(NextChannel) <= distance(j)
  BY <1>6, <1>7
<1>9. distance(NextChannel) <= 0
  BY <1>1, <1>3, <1>4, <1>8
<1> QED
  BY <1>1, <1>5, <1>8, <1>9

-----------------------------------------------------------------------------
\* A channel is made under an id that no other has.
Adds(id, r) ==
    /\ made' = made + 1 /\ made + 1 \in Channels
    /\ id \in Ids /\ \A s \in Real : chan[s].id # id
    /\ chan' = [chan EXCEPT ![made + 1] = [Made EXCEPT !.id = id, !.remote = r]]
    /\ map' = [map EXCEPT ![id] = made + 1]
    /\ seen' = seen \cup {id}

LEMMA RegisterAdds ==
  ASSUME MapsOK, BudgetOK, Named, NEW n \in 0 .. IdSpace, Given(n), WireOK,
         NEW u \in Openers, Register(u)
  PROVE /\ n < IdSpace /\ Adds(n, None)
        /\ events' = [events EXCEPT ![n] = made + 1]
        /\ counter' = NextCounter(n)
<1>1. PICK t \in [0 .. Len(in) -> 0 .. IdSpace] : Tally(n, t)
  BY DEF Given, Tallied
<1>2. n < IdSpace
  <2>1. Len(in) \in Nat
    BY DEF WireOK
  <2>2. left["opens"] \in Nat /\ left["opens"] > 0 /\ left["incoming"] \in Nat
    BY DEF Register, Spend, BudgetOK, Budgeted
  <2>3. n <= t[Len(in)]
    <3>1. t[0] \in 0 .. IdSpace /\ t[Len(in)] \in 0 .. IdSpace /\ t[0] <= t[Len(in)]
      BY <1>1, <2>1 DEF Tally
    <3> QED
      BY <1>1, <3>1, SpaceFacts DEF Tally
  <2>4. t[Len(in)] + left["opens"] + left["incoming"] <= IdSpace /\ t[Len(in)] \in Nat
    BY <1>1, <2>1, SpaceFacts DEF Tally
  <2> QED
    BY <2>2, <2>3, <2>4, SpaceFacts
<1>3. counter = n /\ n \in Ids /\ NextChannel = n
  BY <1>2, NextIsFresh
<1>4. made + 1 \in Channels
  BY <1>2, SpaceFacts DEF MapsOK, Given, Channels
<1>5. \A s \in Real : chan[s].id # n
  BY SpaceFacts DEF Given
<1>6. [Made EXCEPT !.id = n] = [Made EXCEPT !.id = n, !.remote = None]
  <2> DEFINE m == [Made EXCEPT !.id = n]
  <2>1. m.remote = None /\ m = [id |-> n, remote |-> None, closed |-> FALSE, opened |-> FALSE,
                               event |-> FALSE, ready |-> FALSE, late |-> FALSE]
    BY DEF Made
  <2>2. [m EXCEPT !.remote = None] = m
    BY <2>1
  <2> QED
    BY <2>2
<1> QED
  BY <1>2, <1>3, <1>4, <1>5, <1>6 DEF Register, Adds, SeenWith

LEMMA PutAdds ==
  ASSUME MapsOK, ThreadOK, Named, NEW n \in 0 .. IdSpace, Given(n), PutOpened
  PROVE Adds(thread.id, made + 1) /\ UNCHANGED events
<1>1. made + 1 \in Channels
  BY SpaceFacts DEF MapsOK, Given, Channels, PutOpened
<1> QED
  BY <1>1 DEF PutOpened, Adds, Named, ThreadOK, SeenWith

LEMMA AddedChannel ==
  ASSUME MapsOK, ChannelsOK, NEW id, NEW r \in Nat, Adds(id, r)
  PROVE /\ ChannelsOK'
        /\ \A s \in Channels \ {made + 1} : chan'[s] = chan[s]
        /\ chan'[made + 1] = [Made EXCEPT !.id = id, !.remote = r]
<1>1. [Made EXCEPT !.id = id, !.remote = r] \in ChannelState
  BY DEF Made, ChannelState, Adds, None
<1> QED
  BY <1>1 DEF Adds, ChannelsOK

-----------------------------------------------------------------------------
\* A channel is closed or woken and nothing else, except that its answer may be in.
Milder ==
    /\ ChannelsOK'
    /\ \A s \in Channels :
          /\ chan'[s].id = chan[s].id /\ chan'[s].remote = chan[s].remote
          /\ chan'[s].opened = chan[s].opened /\ chan'[s].late = chan[s].late
          /\ chan[s].event => chan'[s].event
          /\ chan'[s].closed => chan[s].closed \/ chan'[s].event

LEMMA ClosingIsMild ==
  ASSUME ChannelsOK, NEW s, CloseInternal(s)
  PROVE Milder
<1>1. CASE chan' = chan
  BY <1>1 DEF Milder, ChannelsOK, ChannelState
<1>2. CASE chan' = [chan EXCEPT ![s] = Closed(chan[s])]
  <2>1. CASE s \in Channels
    <3>1. chan[s] \in ChannelState
      BY <2>1 DEF ChannelsOK
    <3> DEFINE c == Closed(chan[s])
    <3>2. /\ c \in ChannelState
          /\ c.id = chan[s].id /\ c.remote = chan[s].remote /\ c.opened = chan[s].opened
          /\ c.late = chan[s].late /\ c.event
      BY <3>1 DEF Closed, ChannelState
    <3> HIDE DEF c
    <3>3. \A r \in Channels : chan'[r] = IF r = s THEN c ELSE chan[r]
      BY <1>2, <2>1 DEF ChannelsOK, c
    <3>4. chan' \in [Channels -> ChannelState]
      BY <1>2, <3>2 DEF ChannelsOK, c
    <3> QED
      BY <3>2, <3>3, <3>4 DEF Milder, ChannelsOK
  <2>2. CASE s \notin Channels
    BY <1>2, <2>2 DEF Milder, ChannelsOK, ChannelState
  <2> QED
    BY <2>1, <2>2
<1> QED
  BY <1>1, <1>2 DEF CloseInternal

LEMMA AnswerIsMild ==
  ASSUME ChannelsOK, NEW s, chan' = [chan EXCEPT ![s].event = TRUE, ![s].ready = TRUE]
  PROVE Milder
<1>1. CASE s \in Channels
  <2>1. chan[s] \in ChannelState
    BY <1>1 DEF ChannelsOK
  <2> DEFINE c == [chan[s] EXCEPT !.event = TRUE, !.ready = TRUE]
  <2>2. /\ c \in ChannelState
        /\ c.id = chan[s].id /\ c.remote = chan[s].remote /\ c.opened = chan[s].opened
        /\ c.late = chan[s].late /\ c.event
    BY <2>1 DEF ChannelState
  <2>3. chan' = [chan EXCEPT ![s] = c]
    BY <1>1 DEF ChannelsOK
  <2> HIDE DEF c
  <2>4. \A r \in Channels : chan'[r] = IF r = s THEN c ELSE chan[r]
    BY <1>1, <2>3 DEF ChannelsOK
  <2>5. chan' \in [Channels -> ChannelState]
    BY <2>2, <2>3 DEF ChannelsOK
  <2> QED
    BY <2>2, <2>4, <2>5 DEF Milder, ChannelsOK
<1>2. CASE s \notin Channels
  BY <1>2 DEF Milder, ChannelsOK, ChannelState
<1> QED
  BY <1>1, <1>2

LEMMA UnlinkIsMild ==
  ASSUME ChannelsOK, UnlinkAll
  PROVE Milder
<1>1. PICK alive : chan' = [s \in Channels |-> IF s \in alive THEN Closed(chan[s]) ELSE chan[s]]
  BY Zenon DEF UnlinkAll
<1>2. ASSUME NEW s \in Channels
      PROVE /\ chan'[s] \in ChannelState
            /\ chan'[s].id = chan[s].id /\ chan'[s].remote = chan[s].remote
            /\ chan'[s].opened = chan[s].opened /\ chan'[s].late = chan[s].late
            /\ chan[s].event => chan'[s].event
            /\ chan'[s].closed => chan[s].closed \/ chan'[s].event
  <2>1. chan[s] \in ChannelState
    BY DEF ChannelsOK
  <2>2. chan'[s] = IF s \in alive THEN Closed(chan[s]) ELSE chan[s]
    BY <1>1
  <2> QED
    BY <2>1, <2>2 DEF ChannelState, Closed
<1> QED
  BY <1>1, <1>2 DEF Milder, ChannelsOK

-----------------------------------------------------------------------------
LEMMA Received ==
  ASSUME WireOK, NEW type, Receives(type)
  PROVE /\ thread.pc = "read" /\ active
        /\ Len(in) \in Nat \ {0} /\ Head(in) = in[1] /\ in[1].type = type /\ in[1] \in Messages
        /\ in' = Tail(in) /\ Len(in') = Len(in) - 1
        /\ \A i \in 1 .. Len(in') : in'[i] = in[i + 1]
        /\ in' \in Seq(Messages)
<1>1. in \in Seq(Messages) /\ in # <<>>
  BY DEF WireOK, Receives
<1>2. /\ Len(in) \in Nat \ {0} /\ Head(in) = in[1]
      /\ Tail(in) \in Seq(Messages) /\ Len(Tail(in)) = Len(in) - 1
      /\ \A i \in 1 .. Len(Tail(in)) : Tail(in)[i] = in[i + 1]
  BY <1>1
<1>3. in[1] \in Messages
  BY <1>1, <1>2
<1> QED
  BY <1>2, <1>3 DEF Receives

\* An OPEN that has come still has an id to get.
LEMMA OpenHasAnId ==
  ASSUME MapsOK, WireOK, Named, NEW n \in 0 .. IdSpace, Given(n), Receives("OPEN")
  PROVE n < IdSpace /\ n \in Ids /\ NextChannel = n
<1>1. PICK t \in [0 .. Len(in) -> 0 .. IdSpace] : Tally(n, t)
  BY DEF Given, Tallied
<1>2. Len(in) \in Nat \ {0} /\ in[1].type = "OPEN"
  BY Received
<1>3. 0 \in 0 .. Len(in) /\ 1 \in 1 .. Len(in) /\ 1 \in 0 .. Len(in) /\ 1 - 1 = 0
  BY <1>2
<1>4. n <= t[0] /\ t[0] < t[1] /\ t[0] \in 0 .. IdSpace /\ t[1] \in 0 .. IdSpace
  BY <1>1, <1>2, <1>3 DEF Tally
<1>5. n < IdSpace
  BY <1>4, SpaceFacts
<1> QED
  BY <1>5, NextIsFresh

LEMMA SuccessDoes ==
  ASSUME MapsOK, ChannelsOK, WireOK, Named, Addressed, ParseOpenSuccess
  PROVE /\ ChannelsOK'
        /\ \A s \in Channels : /\ chan'[s].id = chan[s].id
                               /\ UNCHANGED <<chan[s].closed, chan[s].event, chan[s].late>>
        /\ \A s \in Real : /\ chan'[s].remote \in {chan[s].remote, s}
                           /\ chan'[s].opened => chan[s].opened \/ chan'[s].remote = s
<1> DEFINE m == in[1]
           to == m.to
           g == Get(m.id)
           own == events[m.id]
<1>1. Receives("OPEN_SUCCESS") /\ UNCHANGED made
  BY DEF ParseOpenSuccess
<1>2. Head(in) = m /\ m.type = "OPEN_SUCCESS" /\ m \in Messages /\ 1 \in 1 .. Len(in)
  <2>1. Len(in) \in Nat \ {0} /\ Head(in) = in[1] /\ in[1].type = "OPEN_SUCCESS" /\ in[1] \in Messages
    BY <1>1, Received
  <2> QED
    BY <2>1
<1>3. to \in Real /\ m.id = chan[to].id /\ m.id \in Ids /\ to \in Nat
  BY <1>2 DEF Addressed, ChannelTypes, Messages
<1>4. Real \subseteq Channels
  BY SpaceFacts DEF MapsOK, Real, Channels
<1>5. g # None => g = to
  <2>1. g # None => map[m.id] # None /\ g = map[m.id]
    BY DEF Get
  <2>2. map[m.id] # None => map[m.id] \in Real /\ chan[map[m.id]].id = m.id
    BY <1>3 DEF MapsOK, Named, Real, None
  <2> QED
    BY <2>1, <2>2, <1>3 DEF Named
<1>6. own # None => own = to
  <2>1. own # None => own \in Real /\ chan[own].id = m.id
    BY <1>3 DEF MapsOK, Named, Real, None
  <2> QED
    BY <2>1, <1>3 DEF Named
<1>7. \A s \in Channels : chan[s] \in ChannelState
  BY DEF ChannelsOK
<1>8. CASE g = None
  <2>1. chan' = chan
    BY <1>8, <1>2 DEF ParseOpenSuccess
  <2> QED
    BY <2>1, <1>4, <1>7 DEF ChannelsOK, ChannelState
<1>9. CASE g # None
  <2>1. chan' = [c \in Channels |->
                   [chan[c] EXCEPT !.remote = IF c = to THEN to ELSE chan[c].remote,
                                   !.opened = chan[c].opened \/ c = own]]
    <3>1. chan' = [c \in Channels |->
                   [chan[c] EXCEPT !.remote = IF c = g THEN to ELSE @, !.opened = @ \/ c = own]]
      BY <1>9, <1>2 DEF ParseOpenSuccess
    <3> QED
      BY <3>1, <1>5, <1>9, <1>7 DEF ChannelState
  <2>2. \A c \in Channels : chan'[c] =
            [chan[c] EXCEPT !.remote = IF c = to THEN to ELSE chan[c].remote,
                            !.opened = chan[c].opened \/ c = own]
    BY <2>1
  <2> HIDE DEF to, own
  <2>3. ASSUME NEW s \in Channels
        PROVE /\ chan'[s] \in ChannelState /\ chan'[s].id = chan[s].id
              /\ chan'[s].closed = chan[s].closed /\ chan'[s].event = chan[s].event
              /\ chan'[s].late = chan[s].late
              /\ chan'[s].remote = (IF s = to THEN to ELSE chan[s].remote)
              /\ chan'[s].opened => chan[s].opened \/ s = own
    <3>1. chan[s] \in ChannelState
      BY <1>7
    <3> QED
      BY <3>1, <2>2, <1>3 DEF ChannelState
  <2>4. ChannelsOK'
    BY <2>1, <2>3, Zenon DEF ChannelsOK
  <2>5. \A s \in Real : s # None
    BY DEF Real, None
  <2> QED
    BY <2>3, <2>4, <2>5, <1>4, <1>6
<1> QED
  BY <1>8, <1>9

LEMMA FailureDoes ==
  ASSUME MapsOK, ChannelsOK, WireOK, Named, ParseOpenFailure
  PROVE /\ ChannelsOK'
        /\ \A s \in Channels :
              /\ chan'[s].id = chan[s].id /\ chan'[s].remote = chan[s].remote
              /\ UNCHANGED <<chan[s].closed, chan[s].event, chan[s].late>>
              /\ chan'[s].opened => chan[s].opened \/ map'[chan[s].id] = None
        /\ map' \in [Ids -> 0 .. made] /\ \A i \in Ids : map'[i] \in {map[i], None}
<1> DEFINE m == in[1]
           own == events[m.id]
<1>1. Head(in) = m /\ m.id \in Ids
  BY Received DEF ParseOpenFailure, Messages
<1>2. \A s \in Channels : chan[s] \in ChannelState
  BY DEF ChannelsOK
<1>3. CASE own = None
  <2>1. chan' = chan /\ map' = map
    BY <1>3, <1>1 DEF ParseOpenFailure
  <2> QED
    BY <2>1, <1>2 DEF ChannelsOK, ChannelState, MapsOK
<1>4. CASE own # None
  <2>1. chan' = [chan EXCEPT ![own].opened = TRUE] /\ map' = [map EXCEPT ![m.id] = None]
    BY <1>4, <1>1 DEF ParseOpenFailure
  <2>2. own \in Channels /\ chan[own].id = m.id
    BY <1>1, <1>4, SpaceFacts DEF MapsOK, Named, Channels, None
  <2> HIDE DEF own
  <2>3. chan[own] \in ChannelState
    BY <1>2, <2>2
  <2> DEFINE c == [chan[own] EXCEPT !.opened = TRUE]
  <2>4. /\ c \in ChannelState /\ c.id = chan[own].id /\ c.remote = chan[own].remote
        /\ c.closed = chan[own].closed /\ c.event = chan[own].event /\ c.late = chan[own].late
    BY <2>3 DEF ChannelState
  <2>5. chan' = [chan EXCEPT ![own] = c]
    BY <2>1, <2>2 DEF ChannelsOK
  <2> HIDE DEF c
  <2>6. ChannelsOK' /\ \A s \in Channels : chan'[s] = IF s = own THEN c ELSE chan[s]
    BY <2>2, <2>4, <2>5 DEF ChannelsOK
  <2>7. 0 \in 0 .. made
    BY DEF MapsOK
  <2>8. map' \in [Ids -> 0 .. made] /\ map'[m.id] = None /\ \A i \in Ids : map'[i] \in {map[i], None}
    BY <2>1, <2>7, <1>1 DEF MapsOK, None
  <2> QED
    BY <2>2, <2>4, <2>6, <2>8
<1> QED
  BY <1>3, <1>4

LEMMA WakeDoes ==
  ASSUME ChannelsOK, WakeAll
  PROVE /\ ChannelsOK'
        /\ \A s \in Channels :
              /\ chan'[s].id = chan[s].id /\ chan'[s].remote = chan[s].remote
              /\ UNCHANGED <<chan[s].closed, chan[s].event, chan[s].late>>
<1> DEFINE waited(s) == \E i \in Ids : events[i] = s
<1>1. \A s \in Channels : chan[s] \in ChannelState
  BY DEF ChannelsOK
<1>2. chan' = [s \in Channels |-> [chan[s] EXCEPT !.opened = @ \/ waited(s)]]
  BY DEF WakeAll
<1> HIDE DEF waited
<1>3. ASSUME NEW s \in Channels
      PROVE /\ chan'[s] \in ChannelState
            /\ chan'[s].id = chan[s].id /\ chan'[s].remote = chan[s].remote
            /\ chan'[s].closed = chan[s].closed /\ chan'[s].event = chan[s].event
            /\ chan'[s].late = chan[s].late
  <2>1. chan[s] \in ChannelState
    BY <1>1
  <2> DEFINE o == chan[s].opened \/ waited(s)
  <2>2. o \in BOOLEAN
    OBVIOUS
  <2>3. chan'[s] = [chan[s] EXCEPT !.opened = o]
    BY <1>2, <2>1
  <2> HIDE DEF o
  <2> QED
    BY <2>1, <2>2, <2>3 DEF ChannelState
<1> QED
  BY <1>2, <1>3 DEF ChannelsOK

LEMMA PendingDoes ==
  ASSUME MapsOK, ChannelsOK, NEW u \in Openers, EventPending(u)
  PROVE /\ ChannelsOK'
        /\ \A s \in Channels :
              /\ chan'[s].id = chan[s].id /\ chan'[s].remote = chan[s].remote
              /\ UNCHANGED <<chan[s].opened, chan[s].closed>>
              /\ s # user[u].chan => chan'[s] = chan[s]
              /\ s = user[u].chan => chan'[s].late = chan[s].closed
<1> DEFINE r == user[u].chan
<1>1. \A s \in Channels : chan[s] \in ChannelState
  BY DEF ChannelsOK
<1>2. chan' = [chan EXCEPT ![r].event = FALSE, ![r].ready = FALSE, ![r].late = chan[r].closed]
  BY DEF EventPending
<1> HIDE DEF r
<1>3. CASE r \in Channels
  <2>1. chan[r] \in ChannelState
    BY <1>1, <1>3
  <2> DEFINE c == [chan[r] EXCEPT !.event = FALSE, !.ready = FALSE, !.late = chan[r].closed]
  <2>2. /\ c \in ChannelState /\ c.id = chan[r].id /\ c.remote = chan[r].remote
        /\ c.opened = chan[r].opened /\ c.closed = chan[r].closed /\ c.late = chan[r].closed
    BY <2>1 DEF ChannelState
  <2>3. chan' = [chan EXCEPT ![r] = c]
    BY <1>2, <1>3 DEF ChannelsOK
  <2> HIDE DEF c
  <2>4. ChannelsOK' /\ \A s \in Channels : chan'[s] = IF s = r THEN c ELSE chan[s]
    BY <1>3, <2>2, <2>3 DEF ChannelsOK
  <2> QED
    BY <2>2, <2>4 DEF r
<1>4. CASE r \notin Channels
  BY <1>2, <1>4 DEF ChannelsOK, ChannelState, r
<1> QED
  BY <1>3, <1>4

-----------------------------------------------------------------------------
\* No channel forgets its id, and what confirms one is its own confirmation.
Kept ==
    /\ ChannelsOK' /\ made \in 0 .. made' /\ made' \in 0 .. IdSpace
    /\ \A s \in Real :
          s \in Real' /\ chan'[s].id = chan[s].id /\ chan'[s].remote \in {chan[s].remote, s}

LEMMA ChannelsKept ==
  ASSUME OpeningInv, Next
  PROVE Kept
<1> USE DEF OpeningInv, Shape
<1>1. Real \subseteq Channels /\ made \in Nat
  BY SpaceFacts DEF MapsOK, Real, Channels
<1>2. PICK n \in 0 .. IdSpace : Given(n)
  BY DEF Numbered
<1> DEFINE Stays == /\ ChannelsOK'
                    /\ \A s \in Real : /\ chan'[s].id = chan[s].id
                                       /\ chan'[s].remote \in {chan[s].remote, s}
           Grows == made \in 0 .. made' /\ made' \in 0 .. IdSpace
<1>3. ASSUME NEW id, NEW r \in Nat, Adds(id, r)
      PROVE Stays
  <2>1. /\ ChannelsOK'
        /\ \A s \in Channels \ {made + 1} : chan'[s] = chan[s]
    BY <1>3, AddedChannel
  <2>2. \A s \in Real : s \in Channels \ {made + 1}
    BY <1>1 DEF Real
  <2> QED
    BY <2>1, <2>2
<1>4. ASSUME Milder
      PROVE Stays
  BY <1>1, <1>4 DEF Milder
<1>5. Stays
  <2>1. CASE UNCHANGED chan
    BY <2>1, <1>1 DEF ChannelsOK, ChannelState
  <2>2. CASE \E u \in Openers : Register(u)
    BY <2>2, <1>2, <1>3, RegisterAdds DEF None
  <2>3. CASE \E u \in Openers : Drop(u)
    BY <2>3, <1>4, ClosingIsMild DEF Drop
  <2>4. CASE \E u \in Openers : EventPending(u)
    BY <2>4, <1>1, PendingDoes
  <2>5. CASE AccepterDrops
    BY <2>5, <1>4, ClosingIsMild DEF AccepterDrops
  <2>6. CASE ParseOpenSuccess
    BY <2>6, <1>1, SuccessDoes
  <2>7. CASE ParseOpenFailure
    BY <2>7, <1>1, FailureDoes
  <2>8. CASE PutOpened
    BY <2>8, <1>1, <1>2, <1>3, PutAdds
  <2>9. CASE HandleClose
    BY <2>9, <1>4, ClosingIsMild DEF HandleClose
  <2>10. CASE RequestSuccess
    BY <2>10, <1>4, AnswerIsMild DEF RequestSuccess
  <2>11. CASE RequestFailed
    BY <2>11, <1>4, ClosingIsMild DEF RequestFailed
  <2>12. CASE UnlinkAll
    BY <2>12, <1>4, UnlinkIsMild
  <2>13. CASE WakeAll
    BY <2>13, <1>1, WakeDoes
  <2> HIDE DEF Stays
  <2> QED
    BY <2>1, <2>2, <2>3, <2>4, <2>5, <2>6, <2>7, <2>8, <2>9, <2>10, <2>11, <2>12, <2>13,
       ChanWriters, Zenon
<1>6. Grows
  <2>1. CASE UNCHANGED <<made, seen>>
    BY <2>1, <1>1 DEF MapsOK
  <2>2. ASSUME NEW id, NEW r \in Nat, Adds(id, r)
        PROVE Grows
    BY <2>2, <1>1, SpaceFacts DEF Adds, Channels, MapsOK
  <2>3. CASE \E u \in Openers : Register(u)
    BY <2>3, <1>2, <2>2, RegisterAdds DEF None
  <2>4. CASE PutOpened
    BY <2>4, <1>1, <1>2, <2>2, PutAdds
  <2> QED
    BY <2>1, <2>3, <2>4, MadeWriters
<1> HIDE DEF Stays, Grows
<1>7. Grows => \A s \in Real : s \in Real'
  BY <1>1 DEF Grows, Real
<1> QED
  BY <1>5, <1>6, <1>7 DEF Kept, Stays, Grows

-----------------------------------------------------------------------------
(****************************************************************************)
(* What each variable can be after a step.                                  *)
(****************************************************************************)
\* What the peer says: about a channel it was told of, or about nothing of ours.
Tells(m) ==
    /\ Says(m) /\ m \in Messages
    /\ \/ /\ m.type \in ChannelTypes /\ m.to \in Real /\ m.id = chan[m.to].id
          /\ UNCHANGED <<left, peer.globals>>
       \/ m.type = "OPEN" /\ Spend("incoming") /\ UNCHANGED peer.globals
       \/ /\ m.type = "GLOBAL_ANSWER" /\ UNCHANGED left
          /\ peer.globals # <<>> /\ m.to = Head(peer.globals)
          /\ peer'.globals = Tail(peer.globals)
       \/ m.type = "DISCONNECT" /\ UNCHANGED <<left, peer.globals>>
       \/ m.type = "NEWKEYS" /\ Spend("rekeys") /\ UNCHANGED peer.globals

LEMMA WireSteps ==
  ASSUME OpeningInv, Next
  PROVE \/ UNCHANGED in
        \/ \E type \in Types : Receives(type)
        \/ \E m : Tells(m)
<1> USE DEF OpeningInv, Shape
<1>1. Real \subseteq Nat /\ 0 \in Ids /\ None \in Ids
  BY SpaceFacts DEF MapsOK, Real, None
<1>2. \A s \in Real : chan[s].id \in Ids
  BY SpaceFacts DEF ChannelsOK, ChannelState, MapsOK, Real, Channels
<1>3. ASSUME NEW type \in ChannelTypes, NEW s \in Real
      PROVE LET m == Message(type, chan[s].id, s)
            IN  m \in Messages /\ m.type = type /\ m.to = s /\ m.id = chan[s].id
  BY <1>1, <1>2 DEF Message, Messages, Types, Kinds
<1>4. ASSUME NEW type \in Types
      PROVE Message(type, None, None) \in Messages /\ Message(type, None, None).type = type
  BY <1>1 DEF Message, Messages, Kinds, None
<1>5. ASSUME ParseOpenSuccess \/ ParseOpenFailure \/ ParseOpen \/ ParseRequestAnswer
             \/ ParseNewkeys \/ HandleClose \/ RequestSuccess \/ RequestFailed \/ NoChannel
             \/ ParseDisconnect
      PROVE \E type \in Types : Receives(type)
  BY <1>5, Zenon
     DEF ParseOpenSuccess, ParseOpenFailure, ParseOpen, ParseRequestAnswer, ParseNewkeys,
         HandleClose, RequestSuccess, RequestFailed, NoChannel, ParseDisconnect, Dispatch,
         ForChannel, Types, ChannelTypes
<1>6. CASE PeerConfirms
  <2>1. PICK s \in peer.opens :
          /\ Says(Message("OPEN_SUCCESS", chan[s].id, s)) /\ UNCHANGED left
          /\ peer' = [peer EXCEPT !.opens = @ \ {s}, !.open = @ \cup {s}]
    BY <1>6 DEF PeerConfirms
  <2>2. s \in Real /\ peer'.globals = peer.globals
    BY <2>1 DEF PeerOK
  <2> QED
    BY <2>1, <2>2, <1>3 DEF Tells, ChannelTypes
<1>7. CASE PeerRefuses
  <2>1. PICK s \in peer.opens :
          /\ Says(Message("OPEN_FAILURE", chan[s].id, s)) /\ UNCHANGED left
          /\ peer' = [peer EXCEPT !.opens = @ \ {s}]
    BY <1>7 DEF PeerRefuses
  <2>2. s \in Real /\ peer'.globals = peer.globals
    BY <2>1 DEF PeerOK
  <2> QED
    BY <2>1, <2>2, <1>3 DEF Tells, ChannelTypes
<1>8. CASE PeerAnswers
  <2>1. PICK s \in peer.requests, type \in {"SUCCESS", "FAILURE"} :
          /\ Says(Message(type, chan[s].id, s)) /\ UNCHANGED left
          /\ peer' = [peer EXCEPT !.requests = @ \ {s}]
    BY <1>8 DEF PeerAnswers
  <2>2. s \in Real /\ peer'.globals = peer.globals /\ type \in ChannelTypes
    BY <2>1 DEF PeerOK, ChannelTypes
  <2> QED
    BY <2>1, <2>2, <1>3 DEF Tells
<1>9. CASE PeerCloses
  <2>1. PICK s \in peer.open :
          /\ Says(Message("CLOSE", chan[s].id, s)) /\ UNCHANGED left
          /\ peer' = [peer EXCEPT !.open = @ \ {s}, !.requests = @ \ {s}]
    BY <1>9 DEF PeerCloses
  <2>2. s \in Real /\ peer'.globals = peer.globals
    BY <2>1 DEF PeerOK
  <2> QED
    BY <2>1, <2>2, <1>3 DEF Tells, ChannelTypes
<1>10. CASE PeerOpens
  <2>1. PICK kind \in Forwards :
          /\ Spend("incoming") /\ UNCHANGED peer
          /\ Says([Message("OPEN", None, None) EXCEPT !.kind = kind])
    BY <1>10 DEF PeerOpens
  <2> DEFINE m == Message("OPEN", None, None)
             o == [m EXCEPT !.kind = kind]
  <2>2. m \in Messages /\ m.type = "OPEN" /\ kind \in Kinds
    BY <1>4, ForwardsAssumption DEF Types, Kinds
  <2> HIDE DEF m
  <2>3. o \in Messages /\ o.type = "OPEN"
    BY <2>2 DEF Messages
  <2> HIDE DEF o
  <2>4. Says(o)
    BY <2>1 DEF o, m
  <2> QED
    BY <2>1, <2>3, <2>4 DEF Tells
<1>11. CASE PeerAnswersGlobal
  <2>1. PICK ok \in BOOLEAN :
          /\ peer.globals # <<>> /\ UNCHANGED left
          /\ Says([Message("GLOBAL_ANSWER", None, Head(peer.globals)) EXCEPT !.ok = ok])
          /\ peer' = [peer EXCEPT !.globals = Tail(@)]
    BY <1>11 DEF PeerAnswersGlobal
  <2> DEFINE h == Head(peer.globals)
  <2>2. h \in Nat /\ peer'.globals = Tail(peer.globals)
    BY <2>1 DEF PeerOK
  <2> HIDE DEF h
  <2>3. [Message("GLOBAL_ANSWER", None, h) EXCEPT !.ok = ok] =
          [type |-> "GLOBAL_ANSWER", id |-> None, to |-> h, ok |-> ok, kind |-> "none"]
    BY DEF Message
  <2>4. [type |-> "GLOBAL_ANSWER", id |-> None, to |-> h, ok |-> ok, kind |-> "none"] \in Messages
    BY <1>1, <2>2 DEF Messages, Types, Kinds
  <2> QED
    BY <2>1, <2>2, <2>3, <2>4 DEF Tells, h
<1>12. CASE PeerDisconnects
  <2>1. Says(Message("DISCONNECT", None, None)) /\ UNCHANGED <<left, peer.globals>>
    BY <1>12 DEF PeerDisconnects, PeerOK
  <2> QED
    BY <2>1, <1>4 DEF Tells, Types
<1>13. CASE PeerRekeys
  <2>1. Says(Message("NEWKEYS", None, None)) /\ Spend("rekeys") /\ UNCHANGED peer.globals
    BY <1>13 DEF PeerRekeys
  <2> QED
    BY <2>1, <1>4 DEF Tells, Types
<1> QED
  BY <1>5, <1>6, <1>7, <1>8, <1>9, <1>10, <1>11, <1>12, <1>13, WireWriters, Zenon

LEMMA FlagsStay ==
  ASSUME OpeningInv, Next
  PROVE FlagsOK'
<1> USE DEF OpeningInv, Shape
<1>1. active' \in BOOLEAN
  <2>1. NoChannel => active' \in BOOLEAN
    <3> HAVE NoChannel
    <3> DEFINE known == Head(in).id \in seen
    <3>1. active' = known
      BY DEF NoChannel
    <3>2. known \in BOOLEAN
      OBVIOUS
    <3> QED
      BY <3>1, <3>2, Zenon
  <2> QED
    BY <2>1, ActiveWriters DEF FlagsOK, ParseDisconnect, Deactivate, Close
<1>2. serverMode' \in BOOLEAN
  BY ModeWriters DEF FlagsOK
<1>3. completion' \in {"none", "clear", "set"}
  BY EventWriters DEF FlagsOK, AskGlobal, FreshEvent, ParseRequestAnswer, ParseNewkeys, WakeAll
<1>4. saved' \in {"none", "refused", "eof"}
  BY SavedWriters
     DEF FlagsOK, WaitEnds, OpenFails, GetOpened, RequestEnds, ParseOpenFailure, LoopEnds
<1>5. response' \in Answers
  <2>1. CASE ParseRequestAnswer
    <3>1. Receives("GLOBAL_ANSWER") /\ response' = [n |-> Head(in).to, ok |-> Head(in).ok]
      BY <2>1 DEF ParseRequestAnswer
    <3>2. Head(in) \in Messages
      BY <3>1, Received
    <3> QED
      BY <3>1, <3>2 DEF Answers, Messages
  <2> QED
    BY <2>1, ResponseWriters DEF FlagsOK
<1>6. tcpHandler' \in BOOLEAN
  BY HandlerWriters DEF FlagsOK, GlobalEnds
<1> QED
  BY <1>1, <1>2, <1>3, <1>4, <1>5, <1>6 DEF FlagsOK

LEMMA SpendKeeps ==
  ASSUME BudgetOK, NEW what \in Budgeted, Spend(what)
  PROVE /\ BudgetOK'
        /\ left[what] > 0 /\ left'[what] = left[what] - 1
        /\ \A b \in Budgeted \ {what} : left'[b] = left[b]
  BY DEF BudgetOK, Spend

LEMMA BudgetStays ==
  ASSUME OpeningInv, Next
  PROVE BudgetOK'
<1> USE DEF OpeningInv, Shape
<1>1. CASE UNCHANGED left
  BY <1>1 DEF BudgetOK
<1>2. CASE \E what \in Budgeted : Spend(what)
  BY <1>2, SpendKeeps
<1>3. {"opens", "incoming", "requests", "globals", "rekeys"} \subseteq Budgeted
  BY DEF Budgeted
<1> QED
  BY <1>1, <1>2, <1>3, LeftWriters DEF Register, RequestCheck, AskGlobal, PeerOpens, PeerRekeys

LEMMA MapsStay ==
  ASSUME OpeningInv, Next
  PROVE MapsOK'
<1> USE DEF OpeningInv, Shape
<1>1. PICK n \in 0 .. IdSpace : Given(n)
  BY DEF Numbered
<1>2. made' \in 0 .. IdSpace /\ made \in 0 .. made' /\ made \in Nat
  BY ChannelsKept DEF Kept, MapsOK
<1>3. counter' \in Ids
  <2>1. CASE \E u \in Openers : Register(u)
    <3>1. n < IdSpace /\ counter' = NextCounter(n)
      BY <2>1, <1>1, RegisterAdds
    <3> QED
      BY <1>1, <2>1, <3>1, CounterGoesOn, RegisterAdds DEF Adds
  <2>2. CASE ParseOpen
    <3>1. n \in Ids /\ NextChannel = n
      BY <2>2, <1>1, OpenHasAnId DEF ParseOpen
    <3>2. UNCHANGED counter \/ counter' = NextCounter(NextChannel)
      BY <2>2 DEF ParseOpen
    <3> QED
      BY <3>1, <3>2, CounterGoesOn DEF MapsOK
  <2> QED
    BY <2>1, <2>2, CounterWriters DEF MapsOK
<1>4. \A m \in 0 .. made : m \in 0 .. made'
  BY <1>2
<1>5. \A id, r : Adds(id, r) => /\ seen' \subseteq Ids /\ map' \in [Ids -> 0 .. made']
                               /\ made + 1 \in 0 .. made'
  BY <1>2, <1>4 DEF Adds, MapsOK
<1>6. seen' \subseteq Ids
  BY <1>1, <1>5, MadeWriters, RegisterAdds, PutAdds DEF MapsOK
<1>7. map' \in [Ids -> 0 .. made']
  <2>1. CASE UNCHANGED map
    BY <2>1, <1>4 DEF MapsOK
  <2>2. CASE \E u \in Openers : Register(u)
    BY <2>2, <1>1, <1>5, RegisterAdds
  <2>3. CASE ParseOpenFailure
    BY <2>3, <1>4, FailureDoes
  <2>4. CASE PutOpened
    BY <2>4, <1>1, <1>5, PutAdds
  <2>5. CASE HandleClose
    <3>1. PICK i : map' = [map EXCEPT ![i] = None]
      BY <2>5, Zenon DEF HandleClose
    <3>2. map' = [j \in Ids |-> IF j = i THEN None ELSE map[j]]
      BY <3>1 DEF MapsOK
    <3>3. None \in 0 .. made'
      BY <1>2 DEF None
    <3> QED
      BY <3>2, <3>3, <1>4 DEF MapsOK
  <2>6. CASE UnlinkAll
    <3>1. PICK alive : map' = [i \in Ids |-> IF map[i] \in alive THEN None ELSE map[i]]
      BY <2>6, Zenon DEF UnlinkAll
    <3> QED
      BY <3>1, <1>2, <1>4 DEF MapsOK, None
  <2> QED
    BY <2>1, <2>2, <2>3, <2>4, <2>5, <2>6, MapWriters
<1>8. events' \in [Ids -> 0 .. made']
  <2>1. CASE UNCHANGED events
    BY <2>1, <1>4 DEF MapsOK
  <2>2. CASE \E u \in Openers : Register(u)
    <3>1. Adds(n, None) /\ events' = [events EXCEPT ![n] = made + 1]
      BY <2>2, <1>1, RegisterAdds, Zenon
    <3> QED
      BY <3>1, <1>4, <1>5, Zenon DEF MapsOK
  <2>3. CASE ParseOpenSuccess \/ ParseOpenFailure
    <3>1. UNCHANGED events \/ events' = [events EXCEPT ![Head(in).id] = None]
      BY <2>3, Zenon DEF ParseOpenSuccess, ParseOpenFailure
    <3>2. events' = events
            \/ events' = [i \in Ids |-> IF i = Head(in).id THEN None ELSE events[i]]
      BY <3>1 DEF MapsOK
    <3>3. None \in 0 .. made'
      BY <1>2 DEF None
    <3> QED
      BY <3>2, <3>3, <1>4 DEF MapsOK
  <2> QED
    BY <2>1, <2>2, <2>3, EventsWriters
<1> QED
  BY <1>2, <1>3, <1>6, <1>7, <1>8 DEF MapsOK

LEMMA ThreadStays ==
  ASSUME OpeningInv, Next
  PROVE ThreadOK'
<1> USE DEF OpeningInv, Shape
<1>1. made \in 0 .. made' /\ made' \in Nat /\ made \in Nat
  BY ChannelsKept, SpaceFacts DEF Kept
<1>2. \A m \in 0 .. made : m \in 0 .. made' /\ m \in Nat
  BY <1>1
<1>3. ~active => ~active'
  BY ActiveWriters, Received, Zenon DEF NoChannel, ForChannel, ParseDisconnect, Deactivate, Close
<1>4. None = 0 /\ None \in Ids /\ None \in 0 .. made' /\ None \in Nat
  BY <1>1, SpaceFacts DEF None
<1>5. CASE UNCHANGED thread
  BY <1>2, <1>3, <1>5 DEF ThreadOK
<1>6. CASE ParseOpen
  <2>1. PICK n \in 0 .. IdSpace : Given(n)
    BY DEF Numbered
  <2>2. NextChannel \in Ids
    BY <1>6, <2>1, OpenHasAnId DEF ParseOpen
  <2> DEFINE id == NextChannel
  <2>3. thread' = thread \/ thread' = [thread EXCEPT !.pc = "put", !.id = id]
    BY <1>6 DEF ParseOpen
  <2> HIDE DEF id
  <2>4. id \in Ids
    BY <2>2 DEF id
  <2> QED
    BY <2>3, <2>4, <1>2, <1>3 DEF ThreadOK
<1>7. CASE PutOpened
  <2>1. thread' = [thread EXCEPT !.pc = "queue", !.chan = made + 1, !.id = None] /\ made' = made + 1
    BY <1>7 DEF PutOpened
  <2>2. made + 1 \in 0 .. made' /\ made + 1 # 0
    BY <1>1, <2>1
  <2> QED
    BY <2>1, <2>2, <1>1, <1>4 DEF ThreadOK
<1>8. CASE HandleClose \/ RequestSuccess \/ RequestFailed
  <2> DEFINE f == Found
  <2>1. PICK type \in ChannelTypes : Receives(type) /\ thread' = [thread EXCEPT !.chan = f]
    BY <1>8, Zenon DEF HandleClose, RequestSuccess, RequestFailed, Dispatch, ChannelTypes
  <2>2. thread.pc = "read"
    BY <2>1 DEF Receives
  <2>3. f \in 0 .. made
    <3>1. Head(in).id \in Ids
      BY <2>1, Received DEF Messages
    <3> QED
      BY <3>1 DEF Found, Get, MapsOK, None
  <2> HIDE DEF f
  <2> QED
    BY <2>1, <2>2, <2>3, <1>2, <1>3 DEF ThreadOK
<1>9. CASE QueueIncoming
  BY <1>4, <1>9 DEF QueueIncoming, ThreadOK
<1>10. CASE NoChannel
  <2>1. \/ thread' = [thread EXCEPT !.chan = None]
        \/ thread' = [thread EXCEPT !.pc = "unlink", !.why = "unknown", !.chan = None]
    BY <1>10, Zenon DEF NoChannel
  <2>2. thread.pc = "read"
    BY <1>10 DEF NoChannel, ForChannel, Receives
  <2> QED
    BY <2>1, <2>2, <1>4 DEF ThreadOK
<1>11. CASE LoopEnds \/ ParseDisconnect
  <2>1. thread' = [thread EXCEPT !.pc = "unlink", !.chan = None]
    BY <1>11 DEF LoopEnds, ParseDisconnect
  <2> QED
    BY <2>1, <1>4 DEF ThreadOK
<1>12. CASE UnlinkAll
  <2>1. \/ thread' = [thread EXCEPT !.pc = "inactive"]
        \/ thread' = [thread EXCEPT !.pc = "end"]
    BY <1>12 DEF UnlinkAll
  <2> QED
    BY <2>1, <1>2 DEF ThreadOK
<1>13. CASE Deactivate
  <2>1. \/ thread' = [thread EXCEPT !.pc = "wake"] /\ ~active'
        \/ thread' = [thread EXCEPT !.pc = "end"]
    BY <1>13 DEF Deactivate
  <2> QED
    BY <2>1, <1>2 DEF ThreadOK
<1>14. CASE WakeAll \/ NotifyAccept
  <2>1. /\ thread' = [thread EXCEPT !.pc = "notify"] \/ thread' = [thread EXCEPT !.pc = "end"]
        /\ thread.pc \in {"wake", "notify"}
    BY <1>14 DEF WakeAll, NotifyAccept
  <2> QED
    BY <2>1, <1>2, <1>3 DEF ThreadOK
<1> QED
  BY <1>5, <1>6, <1>7, <1>8, <1>9, <1>10, <1>11, <1>12, <1>13, <1>14, ThreadWriters, Zenon

LEMMA UsersStay ==
  ASSUME OpeningInv, Next
  PROVE UsersOK'
<1> USE DEF OpeningInv, Shape
<1>1. made \in 0 .. made' /\ made' \in Nat /\ made \in Nat
  BY ChannelsKept, SpaceFacts DEF Kept
<1>2. \A m \in 0 .. made : m \in 0 .. made' /\ m \in Nat
  BY <1>1
<1>3. None = 0 /\ None \in 0 .. made' /\ None \in Nat
  BY <1>1 DEF None
<1>4. CASE UNCHANGED user
  BY <1>2, <1>4 DEF UsersOK
<1>5. ASSUME NEW u \in Openers, NEW pc \in UserPlaces, NEW s \in 0 .. made',
             s = None <=> pc = "idle", user' = [user EXCEPT ![u] = [pc |-> pc, chan |-> s]]
      PROVE UsersOK'
  <2>1. [pc |-> pc, chan |-> s] \in [pc : UserPlaces, chan : Nat]
    BY <1>1
  <2>2. \A v \in Openers : user'[v] = IF v = u THEN [pc |-> pc, chan |-> s] ELSE user[v]
    BY <1>5 DEF UsersOK
  <2>3. user' \in [Openers -> [pc : UserPlaces, chan : Nat]]
    BY <2>1, <1>5 DEF UsersOK
  <2> QED
    BY <2>2, <2>3, <1>2, <1>5 DEF UsersOK
<1>6. ASSUME NEW u \in Openers, NEW pc \in UserPlaces \ {"idle"}, user[u].pc # "idle",
             user' = [user EXCEPT ![u].pc = pc]
      PROVE UsersOK'
  <2>1. user[u].chan \in 0 .. made' /\ user[u].chan # None
    BY <1>2, <1>6 DEF UsersOK
  <2>2. user' = [user EXCEPT ![u] = [pc |-> pc, chan |-> user[u].chan]]
    <3>1. user[u] \in [pc : UserPlaces, chan : Nat]
      BY DEF UsersOK
    <3>2. [user[u] EXCEPT !.pc = pc] = [pc |-> pc, chan |-> user[u].chan]
      BY <3>1
    <3>3. user' = [user EXCEPT ![u] = [user[u] EXCEPT !.pc = pc]]
      BY <1>6 DEF UsersOK
    <3> QED
      BY <3>2, <3>3
  <2> QED
    BY <2>1, <2>2, <1>5
<1>7. ASSUME NEW u \in Openers,
             \/ SendOpen(u) \/ RequestCheck(u) \/ EventPending(u) \/ SendRequest(u) \/ RequestEnds(u)
      PROVE UsersOK'
  <2>1. /\ user[u].pc # "idle"
        /\ \E pc \in {"wait", "clear", "ask", "await", "have"} : user' = [user EXCEPT ![u].pc = pc]
    BY <1>7 DEF SendOpen, RequestCheck, EventPending, SendRequest, RequestEnds
  <2> QED
    BY <2>1, <1>6 DEF UserPlaces
<1>8. ASSUME NEW u \in Openers, user' = [user EXCEPT ![u] = [pc |-> "idle", chan |-> None]]
      PROVE UsersOK'
  BY <1>3, <1>5, <1>8 DEF UserPlaces
<1>9. ASSUME NEW u \in Openers, Register(u)
      PROVE UsersOK'
  <2>1. made' = made + 1 /\ user' = [user EXCEPT ![u] = [pc |-> "send", chan |-> made + 1]]
    BY <1>9 DEF Register
  <2>2. made + 1 \in 0 .. made' /\ made + 1 # None
    BY <1>1, <2>1 DEF None
  <2> QED
    BY <1>5, <2>1, <2>2 DEF UserPlaces
<1>10. ASSUME NEW u \in Openers, WaitEnds(u)
      PROVE UsersOK'
  BY <1>6, <1>8, <1>10 DEF WaitEnds, OpenFails, UserPlaces
<1>11. ASSUME NEW u \in Openers, GetOpened(u)
      PROVE UsersOK'
  <2> DEFINE s == Get(chan[user[u].chan].id)
  <2>1. \/ user' = [user EXCEPT ![u] = [pc |-> "idle", chan |-> None]]
        \/ user' = [user EXCEPT ![u] = [pc |-> "have", chan |-> s]] /\ s # None
    BY <1>11 DEF GetOpened, OpenFails
  <2>2. user[u].chan \in Channels
    <3>1. user[u].chan \in 0 .. made /\ user[u].chan # None
      BY <1>11 DEF UsersOK, GetOpened
    <3> QED
      BY <3>1, SpaceFacts DEF MapsOK, Channels, None
  <2>3. chan[user[u].chan].id \in Ids
    BY <2>2 DEF ChannelsOK, ChannelState
  <2>4. s \in 0 .. made'
    BY <2>3, <1>2, <1>3 DEF Get, MapsOK
  <2> HIDE DEF s
  <2> QED
    BY <2>1, <2>4, <1>5, <1>8 DEF UserPlaces
<1>12. ASSUME NEW u \in Openers, OpenTimeout(u) \/ Drop(u)
       PROVE UsersOK'
  BY <1>8, <1>12 DEF OpenTimeout, Drop
<1> QED
  BY <1>4, <1>7, <1>9, <1>10, <1>11, <1>12, UserWriters, Zenon

LEMMA AskersStay ==
  ASSUME OpeningInv, Next
  PROVE AskersOK'
<1> USE DEF OpeningInv, Shape
<1> DEFINE AskerState == [pc : {"idle", "send", "wait"}, n : Nat, stirred : BOOLEAN, got : Answers]
<1>1. CASE UNCHANGED asker
  BY <1>1 DEF AskersOK
<1>2. ASSUME NEW a \in Askers, AskGlobal(a)
      PROVE AskersOK'
  <2>1. left["globals"] \in Nat
    BY DEF BudgetOK, Budgeted
  <2>2. Stirred(a) \in [Askers -> AskerState]
    <3>1. \A b \in Askers : [asker[b] EXCEPT !.stirred = TRUE] \in AskerState /\ asker[b] \in AskerState
      BY DEF AskersOK
    <3> QED
      BY <3>1 DEF Stirred
  <2> DEFINE st == asker[a].stirred \/ \E b \in Askers : b # a /\ asker[b].pc # "idle"
             w == [pc |-> "send", n |-> left["globals"], got |-> [n |-> None, ok |-> FALSE],
                   stirred |-> st]
  <2>3. asker' = [Stirred(a) EXCEPT ![a] = w]
    BY <1>2, Zenon DEF AskGlobal
  <2>4. st \in BOOLEAN
    OBVIOUS
  <2> HIDE DEF st
  <2>5. w \in AskerState
    BY <2>1, <2>4 DEF Answers, None
  <2> HIDE DEF w
  <2> QED
    BY <2>2, <2>3, <2>5 DEF AskersOK
<1>3. ASSUME NEW a \in Askers, SendGlobal(a)
      PROVE AskersOK'
  BY <1>3 DEF AskersOK, SendGlobal
<1>4. ASSUME NEW a \in Askers, GlobalEnds(a)
      PROVE AskersOK'
  <2>1. \/ asker' = [asker EXCEPT ![a].pc = "idle"]
        \/ asker' = [asker EXCEPT ![a].pc = "idle", ![a].got = response]
    BY <1>4 DEF GlobalEnds
  <2> QED
    BY <2>1 DEF AskersOK, FlagsOK
<1>5. CASE ParseNewkeys
  <2>1. asker' = [a \in Askers |-> IF asker[a].pc # "idle"
                                   THEN [asker[a] EXCEPT !.stirred = TRUE] ELSE asker[a]]
    BY <1>5 DEF ParseNewkeys
  <2>2. \A b \in Askers : [asker[b] EXCEPT !.stirred = TRUE] \in AskerState /\ asker[b] \in AskerState
    BY DEF AskersOK
  <2> QED
    BY <2>1, <2>2 DEF AskersOK
<1> QED
  BY <1>1, <1>2, <1>3, <1>4, <1>5, AskerWriters, Zenon

LEMMA SeqWider ==
  ASSUME NEW S, NEW T, S \subseteq T, NEW q \in Seq(S)
  PROVE q \in Seq(T)
  OBVIOUS

LEMMA SeqParts ==
  ASSUME NEW S, NEW q \in Seq(S), q # <<>>
  PROVE Head(q) \in S /\ Tail(q) \in Seq(S)
  OBVIOUS

LEMMA SeqElement ==
  ASSUME NEW S, NEW q \in Seq(S)
  PROVE \A i \in 1 .. Len(q) : q[i] \in S
  OBVIOUS

LEMMA AccepterStays ==
  ASSUME OpeningInv, Next
  PROVE AccepterOK'
<1> USE DEF OpeningInv, Shape
<1> DEFINE AccepterState == [pc : {"idle", "away", "wait", "have"}, chan : Nat, told : BOOLEAN]
<1>1. made \in 0 .. made' /\ made' \in Nat /\ made \in Nat
  BY ChannelsKept, SpaceFacts DEF Kept
<1>2. (\A m \in 0 .. made : m \in 0 .. made' /\ m \in Nat) /\ 1 .. made \subseteq 1 .. made'
  BY <1>1
<1>3. None = 0 /\ None \in 0 .. made' /\ None \in Nat
  BY <1>1 DEF None
<1>4. accepts \in Seq(1 .. made')
  BY <1>2, SeqWider DEF AccepterOK
<1>5. CASE UNCHANGED <<accepts, accepter>>
  BY <1>2, <1>4, <1>5 DEF AccepterOK
<1>6. ASSUME accepter' = [pc |-> "idle", chan |-> None, told |-> FALSE], UNCHANGED accepts
      PROVE AccepterOK'
  BY <1>3, <1>4, <1>6 DEF AccepterOK
<1>7. ASSUME accepts # <<>>, PopAccepted
      PROVE AccepterOK'
  <2>1. Head(accepts) \in 1 .. made' /\ Tail(accepts) \in Seq(1 .. made')
    BY <1>4, <1>7, SeqParts
  <2>2. Head(accepts) \in 0 .. made' /\ Head(accepts) # 0 /\ Head(accepts) \in Nat
    BY <2>1, <1>1
  <2> QED
    BY <2>1, <2>2, <1>3, <1>7 DEF PopAccepted, AccepterOK
<1>8. ASSUME Notified \/ TRUE
      PROVE /\ Notified \in AccepterState /\ Notified.chan = accepter.chan
            /\ Notified.pc = accepter.pc
  <2> DEFINE b == accepter.told \/ accepter.pc = "wait"
  <2>1. accepter \in AccepterState /\ b \in BOOLEAN
    BY DEF AccepterOK
  <2>2. Notified = [accepter EXCEPT !.told = b]
    BY <2>1 DEF Notified
  <2> HIDE DEF b
  <2> QED
    BY <2>1, <2>2
<1>9. CASE Accept
  <2>1. CASE accepts # <<>> /\ PopAccepted
    BY <2>1, <1>7
  <2>2. CASE accepter' = [accepter EXCEPT !.pc = "wait"] /\ UNCHANGED accepts
    BY <2>2, <1>2, <1>4 DEF AccepterOK
  <2> QED
    BY <2>1, <2>2, <1>9 DEF Accept
<1>10. CASE AcceptWakes \/ AcceptTimeout
  BY <1>6, <1>7, <1>10 DEF AcceptWakes, AcceptTimeout, Wake
<1>11. CASE AccepterDrops
  BY <1>6, <1>11 DEF AccepterDrops
<1>12. CASE QueueIncoming
  <2>1. thread.chan \in 1 .. made'
    BY <1>12, <1>1 DEF QueueIncoming, ThreadOK, None
  <2>2. Append(accepts, thread.chan) \in Seq(1 .. made')
    BY <1>4, <2>1
  <2> QED
    BY <2>2, <1>2, <1>8, <1>12 DEF QueueIncoming, Told, AccepterOK
<1>13. CASE NotifyAccept
  BY <1>2, <1>4, <1>8, <1>13 DEF NotifyAccept, AccepterOK
<1> QED
  BY <1>5, <1>9, <1>10, <1>11, <1>12, <1>13, AccepterWriters, Zenon

LEMMA WireStays ==
  ASSUME OpeningInv, Next
  PROVE WireOK'
<1> USE DEF OpeningInv, Shape
<1>1. CASE UNCHANGED in
  BY <1>1 DEF WireOK
<1>2. CASE \E type \in Types : Receives(type)
  BY <1>2, Received DEF WireOK
<1>3. CASE \E m : Tells(m)
  BY <1>3 DEF Tells, Says, WireOK
<1> QED
  BY <1>1, <1>2, <1>3, WireSteps

LEMMA PeerStays ==
  ASSUME OpeningInv, Next
  PROVE PeerOK'
<1> USE DEF OpeningInv, Shape
<1>1. made \in 0 .. made' /\ made' \in Nat /\ made \in Nat
  BY ChannelsKept, SpaceFacts DEF Kept
<1>2. Real \subseteq Real' /\ Real' \subseteq Nat
  BY <1>1 DEF Real
<1> DEFINE PeerState == [opens : SUBSET Nat, open : SUBSET Nat, requests : SUBSET Nat,
                         globals : Seq(Nat), gone : BOOLEAN]
<1>3. CASE UNCHANGED peer
  BY <1>2, <1>3 DEF PeerOK
<1>4. ASSUME NEW u \in Openers, SendOpen(u) \/ SendRequest(u)
      PROVE PeerOK'
  <2>1. user[u].chan \in Real
    BY <1>1, <1>4 DEF UsersOK, Real, None, SendOpen, SendRequest
  <2>2. \/ peer' = [peer EXCEPT !.opens = @ \cup {user[u].chan}]
        \/ peer' = [peer EXCEPT !.requests = @ \cup {user[u].chan}]
        \/ peer' = peer
    BY <1>4 DEF SendOpen, SendRequest
  <2> QED
    BY <2>1, <2>2, <1>2 DEF PeerOK
<1>5. ASSUME NEW a \in Askers, SendGlobal(a)
      PROVE PeerOK'
  <2>1. asker[a].n \in Nat
    BY DEF AskersOK
  <2> DEFINE g == Append(peer.globals, asker[a].n)
  <2>2. peer' = [peer EXCEPT !.globals = g] \/ peer' = peer
    BY <1>5 DEF SendGlobal
  <2>3. g \in Seq(Nat)
    BY <2>1 DEF PeerOK
  <2> HIDE DEF g
  <2> QED
    BY <2>2, <2>3, <1>2 DEF PeerOK
<1>6. CASE PutOpened
  <2>1. peer' = [peer EXCEPT !.open = @ \cup {made + 1}] /\ made' = made + 1
    BY <1>6 DEF PutOpened
  <2>2. made + 1 \in Real'
    BY <2>1, <1>1 DEF Real
  <2> QED
    BY <2>1, <2>2, <1>2 DEF PeerOK
<1>7. CASE PeerConfirms \/ PeerRefuses \/ PeerAnswers \/ PeerCloses
  <2>1. \/ \E s \in peer.opens : peer' = [peer EXCEPT !.opens = @ \ {s}, !.open = @ \cup {s}]
        \/ \E s : peer' = [peer EXCEPT !.opens = @ \ {s}]
        \/ \E s : peer' = [peer EXCEPT !.requests = @ \ {s}]
        \/ \E s : peer' = [peer EXCEPT !.open = @ \ {s}, !.requests = @ \ {s}]
    BY <1>7, Zenon DEF PeerConfirms, PeerRefuses, PeerAnswers, PeerCloses
  <2>2. ASSUME NEW s \in peer.opens,
               peer' = [peer EXCEPT !.opens = @ \ {s}, !.open = @ \cup {s}]
        PROVE PeerOK'
    BY <2>2, <1>2 DEF PeerOK
  <2>3. ASSUME NEW s, \/ peer' = [peer EXCEPT !.opens = @ \ {s}]
                      \/ peer' = [peer EXCEPT !.requests = @ \ {s}]
        PROVE PeerOK'
    BY <2>3, <1>2 DEF PeerOK
  <2>4. ASSUME NEW s, peer' = [peer EXCEPT !.open = @ \ {s}, !.requests = @ \ {s}]
        PROVE PeerOK'
    BY <2>4, <1>2 DEF PeerOK
  <2> QED
    BY <2>1, <2>2, <2>3, <2>4, Zenon
<1>8. CASE PeerAnswersGlobal
  <2> DEFINE g == Tail(peer.globals)
  <2>1. peer.globals # <<>> /\ peer' = [peer EXCEPT !.globals = g]
    BY <1>8 DEF PeerAnswersGlobal
  <2>2. g \in Seq(Nat)
    BY <2>1, SeqParts DEF PeerOK
  <2> HIDE DEF g
  <2> QED
    BY <2>1, <2>2, <1>2 DEF PeerOK
<1>9. CASE PeerDisconnects \/ PeerDrops
  <2>1. peer' = [peer EXCEPT !.gone = TRUE]
    BY <1>9 DEF PeerDisconnects, PeerDrops
  <2> QED
    BY <2>1, <1>2 DEF PeerOK
<1> QED
  BY <1>3, <1>4, <1>5, <1>6, <1>7, <1>8, <1>9, PeerWriters, Zenon

LEMMA ShapeStays ==
  ASSUME OpeningInv, Next
  PROVE Shape'
<1>1. ChannelsOK'
  BY ChannelsKept DEF Kept
<1> QED
  BY <1>1, FlagsStay, BudgetStays, MapsStay, ThreadStays, UsersStay, AskersStay, AccepterStays,
     WireStays, PeerStays DEF Shape

-----------------------------------------------------------------------------
(****************************************************************************)
(* The ids that are given and still to be given.                            *)
(****************************************************************************)
LEMMA MoveOne ==
  ASSUME NEW x \in Nat, NEW a \in Nat, NEW b \in Nat, NEW d \in Nat, NEW o \in Nat,
         x + a + (b + o) <= d
  PROVE (x + o) + a + b <= d
  OBVIOUS

LEMMA SpendOne ==
  ASSUME NEW x \in Nat, NEW a \in Nat, NEW b \in Nat, NEW d \in Nat, x + a + b <= d, a > 0
  PROVE (x + 1) + (a - 1) + b <= d /\ x + 1 <= d
  OBVIOUS

LEMMA SumBelow ==
  ASSUME NEW x \in Nat, NEW a \in Nat, NEW b \in Nat, NEW d \in Nat, x + a + b <= d
  PROVE x \in 0 .. d
  OBVIOUS

LEMMA TallyFacts ==
  ASSUME Shape, NEW n \in 0 .. IdSpace, NEW t \in [0 .. Len(in) -> 0 .. IdSpace], Tally(n, t)
  PROVE /\ Len(in) \in Nat /\ IdSpace \in Nat /\ n \in Nat
        /\ left["opens"] \in Nat /\ left["incoming"] \in Nat
        /\ \A i \in 0 .. Len(in) : t[i] \in Nat /\ n <= t[i] /\ t[i] <= t[Len(in)]
<1>1. Len(in) \in Nat /\ IdSpace \in Nat /\ n \in Nat
  BY SpaceFacts DEF Shape, WireOK
<1>2. left["opens"] \in Nat /\ left["incoming"] \in Nat
  BY DEF Shape, BudgetOK, Budgeted
<1>3. ASSUME NEW i \in 0 .. Len(in)
      PROVE t[i] \in Nat /\ n <= t[i] /\ t[i] <= t[Len(in)]
  <2>1. 0 \in 0 .. Len(in) /\ Len(in) \in 0 .. Len(in) /\ 0 <= i /\ i <= Len(in)
    BY <1>1
  <2>2. t[0] \in Nat /\ t[i] \in Nat /\ t[Len(in)] \in Nat
    BY <1>1, <2>1
  <2>3. n <= t[0] /\ t[0] <= t[i] /\ t[i] <= t[Len(in)]
    BY <2>1 DEF Tally
  <2> QED
    BY <1>1, <2>2, <2>3
<1> QED
  BY <1>1, <1>2, <1>3

\* Nothing of it moves.
LEMMA TallySame ==
  ASSUME NEW n, Tallied(n), UNCHANGED in,
         left'["opens"] = left["opens"], left'["incoming"] = left["incoming"]
  PROVE Tallied(n)'
  BY DEF Tallied, Tally

\* A message is looked at; a number m up to its tally has been given now.
LEMMA TallyTail ==
  ASSUME Shape, NEW type, Receives(type), UNCHANGED left,
         NEW n \in 0 .. IdSpace, NEW m \in {n, n + 1},
         Tallied(n), m = n + 1 => type = "OPEN"
  PROVE Tallied(m)'
<1>1. PICK t \in [0 .. Len(in) -> 0 .. IdSpace] : Tally(n, t)
  BY DEF Tallied
<1>2. PICK k \in Nat :
        /\ Len(in) = k + 1 /\ Len(in') = k /\ in[1].type = type
        /\ \A i \in 1 .. k : in'[i] = in[i + 1]
  <2>1. /\ Len(in) \in Nat \ {0} /\ in[1].type = type /\ Len(in') = Len(in) - 1
        /\ \A i \in 1 .. Len(in') : in'[i] = in[i + 1]
    BY Received DEF Shape
  <2>2. Len(in) - 1 \in Nat /\ Len(in) = (Len(in) - 1) + 1
    BY <2>1
  <2> QED
    BY <2>1, <2>2
<1>3. k \in Nat /\ Len(in) = k + 1
  BY <1>2
<1>4. \A i \in 0 .. Len(in) : t[i] \in Nat /\ n <= t[i] /\ n \in Nat
  BY <1>1, TallyFacts
<1>5. \A i \in 0 .. k :
        i + 1 \in 0 .. Len(in) /\ i + 1 \in 1 .. Len(in) /\ (i + 1) - 1 = i /\ i \in 0 .. Len(in)
  BY <1>3
<1>6. PICK s \in [0 .. k -> 0 .. IdSpace] : \A i \in 0 .. k : s[i] = t[i + 1]
  <2> DEFINE w == [i \in 0 .. k |-> t[i + 1]]
  <2>1. w \in [0 .. k -> 0 .. IdSpace] /\ \A i \in 0 .. k : w[i] = t[i + 1]
    BY <1>5
  <2> QED
    BY <2>1
<1>8. 0 \in 0 .. k /\ k \in 0 .. k
  BY <1>3
<1>9. m <= s[0]
  <2>1. s[0] = t[1] /\ t[0] \in Nat /\ t[1] \in Nat /\ n <= t[0] /\ n <= t[1] /\ n \in Nat
    BY <1>4, <1>5, <1>6, <1>8
  <2>2. CASE m = n
    BY <2>1, <2>2
  <2>3. CASE m = n + 1
    <3>1. t[0] < t[1]
      BY <2>3, <1>1, <1>2, <1>5, <1>8 DEF Tally
    <3> QED
      BY <2>1, <2>3, <3>1
  <2> QED
    BY <2>2, <2>3
<1>10. \A i, j \in 0 .. k : i <= j => s[i] <= s[j]
  <2> TAKE i, j \in 0 .. k
  <2> HAVE i <= j
  <2>1. i + 1 <= j + 1
    OBVIOUS
  <2> QED
    BY <2>1, <1>1, <1>5, <1>6 DEF Tally
<1>11. \A i \in 1 .. k : in'[i].type = "OPEN" => s[i - 1] < s[i]
  <2> TAKE i \in 1 .. k
  <2> HAVE in'[i].type = "OPEN"
  <2>1. i \in 0 .. k /\ i - 1 \in 0 .. k /\ (i - 1) + 1 = i
    BY <1>3
  <2>2. in[i + 1].type = "OPEN" /\ s[i] = t[i + 1] /\ s[i - 1] = t[i]
    BY <2>1, <1>2, <1>6
  <2>3. t[(i + 1) - 1] < t[i + 1]
    BY <2>1, <2>2, <1>1, <1>5 DEF Tally
  <2> QED
    BY <2>1, <2>2, <2>3, <1>5
<1>12. s[k] + left'["opens"] + left'["incoming"] <= IdSpace
  BY <1>1, <1>3, <1>6, <1>8 DEF Tally
<1>13. Tally(m, s)'
  BY <1>2, <1>9, <1>10, <1>11, <1>12 DEF Tally
<1> QED
  BY <1>2, <1>13 DEF Tallied

\* The peer says something; an OPEN has been counted in the budget.
LEMMA TallySay ==
  ASSUME Shape, NEW m, Tells(m), NEW n \in 0 .. IdSpace, Tallied(n)
  PROVE Tallied(n)'
<1>1. PICK t \in [0 .. Len(in) -> 0 .. IdSpace] : Tally(n, t)
  BY DEF Tallied
<1> DEFINE one == IF m.type = "OPEN" THEN 1 ELSE 0
<1>0. PICK k : k = Len(in)
  OBVIOUS
<1>2. /\ k \in Nat /\ IdSpace \in Nat /\ left["opens"] \in Nat /\ left["incoming"] \in Nat
      /\ n <= t[0]
      /\ \A i \in 0 .. k : t[i] \in Nat /\ t[i] <= t[k]
  BY <1>0, <1>1, TallyFacts DEF Tally
<1>3. /\ Len(in') = k + 1 /\ in'[k + 1] = m /\ \A i \in 1 .. k : in'[i] = in[i]
  BY <1>0 DEF Tells, Says, Shape, WireOK
<1>4. one \in Nat /\ (m.type = "OPEN" => one = 1)
  OBVIOUS
<1>5. /\ left'["opens"] = left["opens"] /\ left'["incoming"] + one = left["incoming"]
      /\ left'["incoming"] \in Nat
  <2>1. CASE UNCHANGED left /\ m.type # "OPEN"
    BY <2>1, <1>2
  <2>2. CASE Spend("incoming") /\ m.type = "OPEN"
    BY <2>2, <1>2, SpendKeeps DEF Shape, Budgeted
  <2>3. CASE Spend("rekeys") /\ m.type # "OPEN"
    BY <2>3, <1>2, SpendKeeps DEF Shape, Budgeted
  <2> QED
    BY <2>1, <2>2, <2>3 DEF Tells, ChannelTypes
<1> HIDE DEF one
<1>6. /\ t[k] + left["opens"] + left["incoming"] <= IdSpace
      /\ \A i, j \in 0 .. k : i <= j => t[i] <= t[j]
      /\ \A i \in 1 .. k : in[i].type = "OPEN" => t[i - 1] < t[i]
      /\ \A i \in 0 .. k : t[i] \in 0 .. IdSpace
  BY <1>0, <1>1 DEF Tally
<1>7. 0 \in 0 .. k /\ k \in 0 .. k /\ k + 1 \in 0 .. k + 1 /\ ~(k + 1 <= k)
      /\ \A i \in 0 .. k + 1 : (i \in 0 .. k /\ i <= k) \/ i = k + 1
  BY <1>2
<1>9. (t[k] + one) + left'["opens"] + left'["incoming"] <= IdSpace /\ t[k] + one \in 0 .. IdSpace
  <2>1. /\ t[k] \in Nat /\ left'["opens"] \in Nat
        /\ t[k] + left'["opens"] + (left'["incoming"] + one) <= IdSpace
    BY <1>2, <1>5, <1>6, <1>7
  <2>2. (t[k] + one) + left'["opens"] + left'["incoming"] <= IdSpace
    BY <2>1, <1>2, <1>4, <1>5, MoveOne
  <2>3. t[k] + one \in Nat
    BY <2>1, <1>4
  <2> QED
    BY <2>1, <2>2, <2>3, <1>2, <1>5, SumBelow
<1>8. PICK s \in [0 .. k + 1 -> 0 .. IdSpace] :
        (\A i \in 0 .. k : s[i] = t[i]) /\ s[k + 1] = t[k] + one
  <2> DEFINE w == [i \in 0 .. k + 1 |-> IF i <= k THEN t[i] ELSE t[k] + one]
  <2>1. \A i \in 0 .. k + 1 : (IF i <= k THEN t[i] ELSE t[k] + one) \in 0 .. IdSpace
    BY <1>6, <1>7, <1>9
  <2>2. w \in [0 .. k + 1 -> 0 .. IdSpace]
    BY <2>1
  <2>3. \A i \in 0 .. k : i \in 0 .. k + 1 /\ i <= k
    BY <1>2
  <2>4. (\A i \in 0 .. k : w[i] = t[i]) /\ w[k + 1] = t[k] + one
    BY <2>3, <1>7
  <2> QED
    BY <2>2, <2>4
<1>11. n <= s[0]
  BY <1>2, <1>7, <1>8
<1>12. \A i, j \in 0 .. k + 1 : i <= j => s[i] <= s[j]
  <2> TAKE i, j \in 0 .. k + 1
  <2> HAVE i <= j
  <2>1. CASE j \in 0 .. k
    <3>1. i \in 0 .. k
      BY <2>1, <1>2
    <3>2. t[i] <= t[j]
      BY <2>1, <3>1, <1>6
    <3>3. s[i] = t[i] /\ s[j] = t[j]
      BY <2>1, <3>1, <1>8
    <3> QED
      BY <3>2, <3>3, Zenon
  <2>2. CASE j = k + 1 /\ i \in 0 .. k
    BY <2>2, <1>2, <1>4, <1>7, <1>8
  <2>3. CASE j = k + 1 /\ i = k + 1
    BY <2>3, <1>2, <1>4, <1>7, <1>8
  <2> QED
    BY <2>1, <2>2, <2>3, <1>7
<1>13. \A i \in 1 .. k + 1 : in'[i].type = "OPEN" => s[i - 1] < s[i]
  <2> TAKE i \in 1 .. k + 1
  <2> HAVE in'[i].type = "OPEN"
  <2>1. CASE i = k + 1
    <3>1. i - 1 = k /\ m.type = "OPEN"
      BY <2>1, <1>2, <1>3
    <3> QED
      BY <2>1, <3>1, <1>2, <1>4, <1>7, <1>8
  <2>2. CASE i # k + 1
    <3>1. i \in 1 .. k /\ i \in 0 .. k /\ i - 1 \in 0 .. k
      BY <2>2, <1>2
    <3>2. t[i - 1] < t[i]
      BY <3>1, <1>3, <1>6
    <3> QED
      BY <3>1, <3>2, <1>8
  <2> QED
    BY <2>1, <2>2
<1>14. Tally(n, s)'
  <2>1. s[k + 1] + left'["opens"] + left'["incoming"] <= IdSpace
    BY <1>8, <1>9
  <2> QED
    BY <2>1, <1>3, <1>11, <1>12, <1>13 DEF Tally
<1> QED
  BY <1>3, <1>14 DEF Tallied

\* A user's id was counted in the budget too.
LEMMA TallyRegister ==
  ASSUME Shape, NEW n \in 0 .. IdSpace, Tallied(n), Spend("opens"), UNCHANGED in
  PROVE Tallied(n + 1)'
<1>1. PICK t \in [0 .. Len(in) -> 0 .. IdSpace] : Tally(n, t)
  BY DEF Tallied
<1>0. PICK k : k = Len(in)
  OBVIOUS
<1>2. /\ k \in Nat /\ IdSpace \in Nat /\ left["opens"] \in Nat /\ left["incoming"] \in Nat
      /\ n <= t[0] /\ n \in Nat
      /\ \A i \in 0 .. k : t[i] \in Nat /\ t[i] <= t[k]
      /\ t[k] + left["opens"] + left["incoming"] <= IdSpace
  BY <1>0, <1>1, TallyFacts DEF Tally
<1>3. /\ left["opens"] > 0 /\ left'["opens"] = left["opens"] - 1
      /\ left'["incoming"] = left["incoming"]
  BY SpendKeeps DEF Shape, Budgeted
<1>4. /\ \A i, j \in 0 .. k : i <= j => t[i] <= t[j]
      /\ \A i \in 1 .. k : in'[i].type = "OPEN" => t[i - 1] < t[i]
  BY <1>0, <1>1 DEF Tally
<1>5. 0 \in 0 .. k /\ k \in 0 .. k /\ t[k] + 1 <= IdSpace
  <2>1. 0 \in 0 .. k /\ k \in 0 .. k
    BY <1>2
  <2>2. t[k] \in Nat
    BY <1>2, <2>1
  <2> QED
    BY <2>1, <2>2, <1>2, <1>3, SpendOne
<1>6. \A i \in 0 .. k : t[i] + 1 \in 0 .. IdSpace
  <2> TAKE i \in 0 .. k
  <2>1. t[i] \in Nat /\ t[k] \in Nat /\ t[i] <= t[k] /\ t[k] + 1 <= IdSpace /\ IdSpace \in Nat
    BY <1>2, <1>5
  <2> QED
    BY <2>1
<1>7. PICK s \in [0 .. k -> 0 .. IdSpace] : \A i \in 0 .. k : s[i] = t[i] + 1
  <2> DEFINE w == [i \in 0 .. k |-> t[i] + 1]
  <2>1. w \in [0 .. k -> 0 .. IdSpace] /\ \A i \in 0 .. k : w[i] = t[i] + 1
    BY <1>6
  <2> QED
    BY <2>1
<1>8. \A i \in 1 .. k : i - 1 \in 0 .. k /\ i \in 0 .. k
  BY <1>2
<1>9. n + 1 <= s[0] /\ s[k] + left'["opens"] + left'["incoming"] <= IdSpace
  <2>1. t[0] \in Nat /\ s[0] = t[0] + 1 /\ n <= t[0] /\ n \in Nat
    BY <1>2, <1>5, <1>7
  <2>2. n + 1 <= s[0]
    BY <2>1
  <2>3. t[k] \in Nat /\ s[k] = t[k] + 1
    BY <1>2, <1>5, <1>7
  <2>4. (t[k] + 1) + (left["opens"] - 1) + left["incoming"] <= IdSpace
    BY <2>3, <1>2, <1>3, SpendOne
  <2> QED
    BY <2>2, <2>3, <2>4, <1>3
<1>10. \A i, j \in 0 .. k : i <= j => s[i] <= s[j]
  <2> TAKE i, j \in 0 .. k
  <2> HAVE i <= j
  <2>1. t[i] \in Nat /\ t[j] \in Nat /\ t[i] <= t[j] /\ s[i] = t[i] + 1 /\ s[j] = t[j] + 1
    BY <1>2, <1>4, <1>7
  <2> QED
    BY <2>1
<1>11. \A i \in 1 .. k : in'[i].type = "OPEN" => s[i - 1] < s[i]
  <2> TAKE i \in 1 .. k
  <2> HAVE in'[i].type = "OPEN"
  <2> DEFINE j == i - 1
  <2>1. i \in 0 .. k /\ j \in 0 .. k /\ t[j] < t[i]
    BY <1>4, <1>8
  <2> HIDE DEF j
  <2>2. t[i] \in Nat /\ t[j] \in Nat /\ s[i] = t[i] + 1 /\ s[j] = t[j] + 1
    BY <2>1, <1>2, <1>7
  <2>3. s[j] < s[i]
    BY <2>1, <2>2
  <2> QED
    BY <2>3 DEF j
<1>12. Tally(n + 1, s)'
  BY <1>0, <1>9, <1>10, <1>11 DEF Tally
<1> QED
  BY <1>0, <1>12 DEF Tallied

LEMMA PutStays ==
  ASSUME Next, ~ParseOpen, thread'.pc = "put", ThreadOK
  PROVE UNCHANGED thread
<1> DEFINE elsewhere == thread'.pc # "put"
<1>1. CASE PutOpened \/ QueueIncoming \/ LoopEnds \/ ParseDisconnect \/ UnlinkAll \/ Deactivate
           \/ WakeAll \/ NotifyAccept
  <2>1. \E pc \in {"queue", "read", "unlink", "inactive", "end", "wake", "notify"} :
            \/ thread' = [thread EXCEPT !.pc = pc]
            \/ thread' = [thread EXCEPT !.pc = pc, !.chan = None]
            \/ thread' = [thread EXCEPT !.pc = pc, !.chan = made + 1, !.id = None]
    BY <1>1
       DEF PutOpened, QueueIncoming, LoopEnds, ParseDisconnect, UnlinkAll, Deactivate, WakeAll,
           NotifyAccept
  <2> QED
    BY <2>1 DEF ThreadOK
<1>2. CASE HandleClose \/ RequestSuccess \/ RequestFailed
  <2>1. thread.pc = "read" /\ \E f : thread' = [thread EXCEPT !.chan = f]
    BY <1>2, Zenon DEF HandleClose, RequestSuccess, RequestFailed, Dispatch, Receives
  <2> QED
    BY <2>1 DEF ThreadOK
<1>3. CASE NoChannel
  <2>1. /\ thread.pc = "read"
        /\ \/ thread' = [thread EXCEPT !.chan = None]
           \/ thread' = [thread EXCEPT !.pc = "unlink", !.why = "unknown", !.chan = None]
    BY <1>3, Zenon DEF NoChannel, ForChannel, Receives
  <2> QED
    BY <2>1 DEF ThreadOK
<1> QED
  BY <1>1, <1>2, <1>3, ThreadWriters, Zenon

LEMMA SaysOne ==
  ASSUME WireOK, PeerOpens \/ PeerRekeys
  PROVE Len(in') = Len(in) + 1
<1>1. \E m : in' = Append(in, m)
  BY Zenon DEF PeerOpens, PeerRekeys, Says
<1> QED
  BY <1>1 DEF WireOK

LEMMA NumberedStays ==
  ASSUME OpeningInv, Next
  PROVE Numbered'
<1> USE DEF OpeningInv, Shape
<1>1. PICK n \in 0 .. IdSpace : Given(n)
  BY DEF Numbered
<1>2. /\ n \in Nat /\ IdSpace \in Nat /\ made \in Nat /\ made <= n /\ Tallied(n)
      /\ \A s \in Real : chan[s].id < n
      /\ Real \subseteq Channels
      /\ n < IdSpace => n + 1 \in 0 .. IdSpace
      /\ \A s \in Real : chan'[s].id = chan[s].id
      /\ \A s \in Real : chan[s].id \in Nat
  <2>1. Real \subseteq Channels /\ made \in Nat
    BY SpaceFacts DEF MapsOK, Real, Channels
  <2>2. \A s \in Real : chan[s].id \in Nat
    BY <2>1, SpaceFacts DEF ChannelsOK, ChannelState
  <2> QED
    BY <1>1, <2>1, <2>2, SpaceFacts, ChannelsKept DEF Given, Kept
<1>3. Shape'
  BY ShapeStays
<1>4. CASE \E u \in Openers : Register(u)
  <2>1. PICK u \in Openers : Register(u)
    BY <1>4
  <2>2. /\ n < IdSpace /\ Adds(n, None) /\ counter' = NextCounter(n) /\ counter = n
        /\ Spend("opens") /\ UNCHANGED <<in, thread>>
    <3>1. n < IdSpace /\ Adds(n, None) /\ counter' = NextCounter(n)
      BY <2>1, <1>1, RegisterAdds
    <3>2. counter = n
      BY <3>1, <1>1, <1>2 DEF Given
    <3>3. Spend("opens") /\ UNCHANGED <<in, thread>>
      BY <2>1, Zenon DEF Register
    <3> QED
      BY <3>1, <3>2, <3>3
  <2>3. counter' = (IF n + 1 = IdSpace THEN 0 ELSE n + 1) /\ made' = made + 1
    BY <2>2, CounterGoesOn DEF Adds
  <2>4. Tallied(n + 1)'
    BY <2>2, <1>2, TallyRegister
  <2>5. \A s \in Real' : chan'[s].id < n + 1
    <3> TAKE s \in Real'
    <3>1. s \in Real \/ s = made + 1
      BY <2>3, <1>2 DEF Real
    <3>2. CASE s \in Real
      BY <3>2, <1>2
    <3>3. CASE s = made + 1
      <4>1. chan'[s] = [Made EXCEPT !.id = n, !.remote = None]
        BY <3>3, <2>2, AddedChannel DEF None
      <4> QED
        BY <4>1, <1>2 DEF Made
    <3> QED
      BY <3>1, <3>2, <3>3
  <2>6. thread'.pc = "put" => made' + 1 <= n + 1 /\ thread'.id < n + 1
    <3> HAVE thread'.pc = "put"
    <3>1. made + 1 <= n /\ thread.id < n /\ thread.id \in Nat
      BY <2>2, <1>1, SpaceFacts DEF Given, ThreadOK
    <3> QED
      BY <3>1, <2>2, <2>3, <1>2
  <2>7. Given(n + 1)'
    BY <2>3, <2>4, <2>5, <2>6, <1>2 DEF Given
  <2> QED
    BY <2>2, <2>7, <1>2 DEF Numbered
<1>5. CASE ParseOpen
  <2>1. /\ Receives("OPEN") /\ UNCHANGED <<left, made, chan>>
        /\ \/ /\ counter' = NextCounter(NextChannel)
              /\ thread' = [thread EXCEPT !.pc = "put", !.id = NextChannel] \/ UNCHANGED thread
           \/ UNCHANGED <<counter, thread>>
    BY <1>5 DEF ParseOpen, rest
  <2>2. n < IdSpace /\ n \in Ids /\ NextChannel = n
    BY <1>1, <2>1, OpenHasAnId
  <2>3. thread.pc = "read"
    BY <2>1 DEF Receives
  <2>4. Tallied(n)' /\ Tallied(n + 1)'
    BY <2>1, <1>2, TallyTail
  <2>5. \A s \in Real' : chan'[s].id < n /\ chan'[s].id < n + 1
    BY <2>1, <1>2 DEF Real
  <2>6. CASE UNCHANGED <<counter, thread>>
    <3>1. Given(n)'
      BY <2>1, <2>3, <2>4, <2>5, <2>6, <1>1, <1>2 DEF Given
    <3> QED
      BY <3>1 DEF Numbered
  <2>7. CASE /\ counter' = NextCounter(n)
             /\ thread' = [thread EXCEPT !.pc = "put", !.id = n] \/ UNCHANGED thread
    <3>1. counter' = (IF n + 1 = IdSpace THEN 0 ELSE n + 1)
      BY <2>2, <2>7, CounterGoesOn
    <3>2. thread'.pc = "put" => made' + 1 <= n + 1 /\ thread'.id < n + 1
      <4> HAVE thread'.pc = "put"
      <4>1. thread' = [thread EXCEPT !.pc = "put", !.id = n]
        BY <2>3, <2>7
      <4>2. thread'.id = n
        BY <4>1 DEF ThreadOK
      <4> QED
        BY <4>2, <2>1, <1>2
    <3>3. Given(n + 1)'
      BY <3>1, <3>2, <2>1, <2>4, <2>5, <1>2 DEF Given
    <3> QED
      BY <3>3, <2>2, <1>2 DEF Numbered
  <2> QED
    BY <2>1, <2>2, <2>6, <2>7
<1>6. CASE PutOpened
  <2>1. Adds(thread.id, made + 1) /\ thread.pc = "put" /\ thread'.pc = "queue"
        /\ UNCHANGED <<in, left, counter>>
    BY <1>1, <1>6, PutAdds DEF PutOpened, rest, ThreadOK
  <2>2. made' = made + 1 /\ made + 1 <= n /\ thread.id < n
    BY <2>1, <1>1 DEF Adds, Given
  <2>3. Tallied(n)'
    BY <2>1, <1>2, TallySame
  <2>4. \A s \in Real' : chan'[s].id < n
    <3> TAKE s \in Real'
    <3>1. s \in Real \/ s = made + 1
      BY <2>2, <1>2 DEF Real
    <3>2. CASE s \in Real
      BY <3>2, <1>2
    <3>3. CASE s = made + 1
      <4>1. chan'[s] = [Made EXCEPT !.id = thread.id, !.remote = made + 1]
        <5>1. made + 1 \in Nat
          BY <1>2
        <5> QED
          BY <5>1, <3>3, <2>1, AddedChannel
      <4> QED
        BY <4>1, <2>2 DEF Made
    <3> QED
      BY <3>1, <3>2, <3>3
  <2>5. Given(n)'
    BY <2>1, <2>2, <2>3, <2>4, <1>1, <1>2 DEF Given
  <2> QED
    BY <2>5 DEF Numbered
<1>7. ASSUME ~\E u \in Openers : Register(u), ~ParseOpen, ~PutOpened
      PROVE Numbered'
  <2>1. UNCHANGED <<made, counter>>
    BY <1>7, MadeWriters, CounterWriters
  <2>2. Tallied(n)'
    <3>1. CASE \E m : Tells(m)
      BY <3>1, <1>2, TallySay
    <3>2. CASE ~\E m : Tells(m)
      <4>1. UNCHANGED in \/ \E type \in Types : Receives(type)
        BY <3>2, WireSteps
      <4>2. ASSUME Spend("requests") \/ Spend("globals") \/ Spend("rekeys")
            PROVE left'["opens"] = left["opens"] /\ left'["incoming"] = left["incoming"]
        BY <4>2, SpendKeeps DEF Budgeted
      <4>3. CASE UNCHANGED in
        <5>1. ~PeerOpens /\ ~PeerRekeys
          <6>1. PeerOpens \/ PeerRekeys => Len(in') = Len(in) + 1
            BY SaysOne
          <6> QED
            BY <6>1, <4>3 DEF WireOK
        <5>2. left'["opens"] = left["opens"] /\ left'["incoming"] = left["incoming"]
          BY <5>1, <4>2, <1>7, LeftWriters DEF RequestCheck, AskGlobal
        <5> QED
          BY <5>2, <4>3, <1>2, TallySame
      <4>4. CASE \E type \in Types : Receives(type)
        <5>1. in' # in /\ Len(in') < Len(in)
          BY <4>4, Received
        <5>2. UNCHANGED left
          <6>1. ASSUME \E u \in Openers : Register(u) \/ RequestCheck(u)
                PROVE in' = in
            BY <6>1 DEF Register, RequestCheck
          <6>2. ASSUME \E a \in Askers : AskGlobal(a)
                PROVE in' = in
            BY <6>2 DEF AskGlobal
          <6>3. ASSUME PeerOpens \/ PeerRekeys
                PROVE Len(in') = Len(in) + 1
            BY <6>3, SaysOne
          <6> QED
            BY <6>1, <6>2, <6>3, <5>1, LeftWriters DEF WireOK
        <5> QED
          BY <4>4, <5>2, <1>2, TallyTail
      <4> QED
        BY <4>1, <4>3, <4>4
    <3> QED
      BY <3>1, <3>2
  <2>3. \A s \in Real' : chan'[s].id < n
    BY <2>1, <1>2 DEF Real
  <2>4. thread'.pc = "put" => made' + 1 <= n /\ thread'.id < n
    BY <1>1, <1>7, <2>1, PutStays DEF Given
  <2>5. Given(n)'
    BY <2>1, <2>2, <2>3, <2>4, <1>1, <1>2 DEF Given
  <2> QED
    BY <2>5 DEF Numbered
<1> QED
  BY <1>4, <1>5, <1>6, <1>7, Zenon

-----------------------------------------------------------------------------
(****************************************************************************)
(* Names, and what a channel that is opened tells.                          *)
(****************************************************************************)
\* The map forgets, or takes in a new channel under a new id.
LEMMA MapSteps ==
  ASSUME OpeningInv, Next
  PROVE \/ /\ \A i \in Ids : map'[i] \in {map[i], None}
           /\ UNCHANGED made
        \/ \E id, r : Adds(id, r) /\ r \in {None, made + 1}
<1> USE DEF OpeningInv, Shape
<1>1. PICK n \in 0 .. IdSpace : Given(n)
  BY DEF Numbered
<1>2. CASE \E u \in Openers : Register(u)
  BY <1>1, <1>2, RegisterAdds
<1>3. CASE PutOpened
  BY <1>1, <1>3, PutAdds
<1>4. ASSUME ~\E u \in Openers : Register(u), ~PutOpened
      PROVE \A i \in Ids : map'[i] \in {map[i], None}
  <2>1. CASE UNCHANGED map
    BY <2>1
  <2>2. CASE ParseOpenFailure
    BY <2>2, FailureDoes
  <2>3. CASE HandleClose
    <3>1. PICK i : map' = [map EXCEPT ![i] = None]
      BY <2>3, Zenon DEF HandleClose
    <3> QED
      BY <3>1 DEF MapsOK
  <2>4. CASE UnlinkAll
    <3>1. PICK alive : map' = [i \in Ids |-> IF map[i] \in alive THEN None ELSE map[i]]
      BY <2>4, Zenon DEF UnlinkAll
    <3> QED
      BY <3>1
  <2> QED
    BY <2>1, <2>2, <2>3, <2>4, <1>4, MapWriters
<1> QED
  BY <1>2, <1>3, <1>4, MadeWriters

LEMMA EventsSteps ==
  ASSUME OpeningInv, Next, ~\E u \in Openers : Register(u)
  PROVE \A i \in Ids : events'[i] \in {events[i], None}
<1> USE DEF OpeningInv, Shape
<1>1. UNCHANGED events \/ \E i : events' = [events EXCEPT ![i] = None]
  BY EventsWriters, Zenon DEF ParseOpenSuccess, ParseOpenFailure
<1> QED
  BY <1>1 DEF MapsOK

LEMMA RealFacts ==
  ASSUME MapsOK, ChannelsOK
  PROVE /\ made \in Nat /\ Real \subseteq Channels /\ Real \subseteq Nat /\ None \notin Real
        /\ \A s \in 0 .. made : s # None => s \in Real
        /\ \A s \in Real : chan[s] \in ChannelState /\ chan[s].id \in Ids
<1>1. made \in Nat /\ Real \subseteq Channels /\ Real \subseteq Nat
  BY SpaceFacts DEF MapsOK, Real, Channels
<1>2. None \notin Real /\ \A s \in 0 .. made : s # None => s \in Real
  BY <1>1 DEF None, Real
<1> QED
  BY <1>1, <1>2 DEF ChannelsOK, ChannelState

\* The channels after one was made.
LEMMA AddedReal ==
  ASSUME MapsOK, ChannelsOK, NEW id, NEW r \in {None, made + 1}, Adds(id, r)
  PROVE /\ made + 1 \notin Real /\ made + 1 # None
        /\ \A s \in Real' : s \in Real \/ s = made + 1
        /\ \A s \in Real : chan'[s] = chan[s] /\ chan[s].id # id
        /\ chan'[made + 1].id = id /\ chan'[made + 1].remote = r
        /\ ~chan'[made + 1].opened /\ ~chan'[made + 1].closed
        /\ map'[id] = made + 1 /\ id \in Ids /\ seen' = seen \cup {id}
        /\ \A i \in Ids : i # id => map'[i] = map[i]
<1>1. made \in Nat /\ r \in Nat
  BY RealFacts DEF None
<1>2. /\ \A s \in Channels \ {made + 1} : chan'[s] = chan[s]
      /\ chan'[made + 1] = [Made EXCEPT !.id = id, !.remote = r]
  BY <1>1, AddedChannel
<1>3. made + 1 \notin Real /\ made + 1 # None /\ \A s \in Real' : s \in Real \/ s = made + 1
  BY <1>1 DEF Real, None, Adds
<1>4. \A s \in Real : chan'[s] = chan[s] /\ chan[s].id # id
  BY <1>2, <1>3, RealFacts DEF Adds
<1>5. /\ map'[id] = made + 1 /\ id \in Ids /\ seen' = seen \cup {id}
      /\ \A i \in Ids : i # id => map'[i] = map[i]
  BY DEF Adds, MapsOK
<1> QED
  BY <1>2, <1>3, <1>4, <1>5 DEF Made

LEMMA NamedStays ==
  ASSUME OpeningInv, Next
  PROVE Named'
<1> USE DEF OpeningInv, Shape
<1>1. PICK n \in 0 .. IdSpace : Given(n)
  BY DEF Numbered
<1>2. /\ made \in Nat /\ None \notin Real
      /\ \A s \in 0 .. made : s # None => s \in Real
      /\ \A s \in Real : chan'[s].id = chan[s].id
      /\ \A i \in Ids : map[i] # None => map[i] \in Real
      /\ \A i \in Ids : events[i] # None => events[i] \in Real
  BY RealFacts, ChannelsKept DEF Kept, MapsOK
<1>3. /\ \A s, r \in Real' : chan'[s].id = chan'[r].id => s = r
      /\ \A i \in Ids : map'[i] # None => chan'[map'[i]].id = i
  <2>1. CASE UNCHANGED made /\ \A i \in Ids : map'[i] \in {map[i], None}
    BY <2>1, <1>2 DEF Named, Real
  <2>2. ASSUME NEW id, NEW r \in {None, made + 1}, Adds(id, r)
        PROVE /\ \A s, q \in Real' : chan'[s].id = chan'[q].id => s = q
              /\ \A i \in Ids : map'[i] # None => chan'[map'[i]].id = i
    <3> DEFINE new == made + 1
    <3>1. /\ \A s \in Real' : s \in Real \/ s = new
          /\ \A s \in Real : chan'[s] = chan[s] /\ chan[s].id # id
          /\ chan'[new].id = id
          /\ map'[id] = new
          /\ \A i \in Ids : i # id => map'[i] = map[i]
      BY <2>2, AddedReal
    <3> HIDE DEF new
    <3>2. \A s, q \in Real' : chan'[s].id = chan'[q].id => s = q
      BY <3>1 DEF Named
    <3>3. \A i \in Ids : map'[i] # None => chan'[map'[i]].id = i
      BY <3>1, <1>2 DEF Named
    <3> QED
      BY <3>2, <3>3
  <2> QED
    BY <2>1, <2>2, MapSteps
<1>4. \A i \in Ids : events'[i] # None => chan'[events'[i]].id = i
  <2>1. CASE \E u \in Openers : Register(u)
    <3> DEFINE new == made + 1
    <3>1. Adds(n, None) /\ events' = [events EXCEPT ![n] = new]
      BY <2>1, <1>1, RegisterAdds
    <3>2. /\ \A s \in Real : chan'[s] = chan[s] /\ chan[s].id # n
          /\ chan'[new].id = n
      BY <3>1, AddedReal
    <3> HIDE DEF new
    <3>3. \A i \in Ids : events'[i] = IF i = n THEN new ELSE events[i]
      BY <3>1 DEF MapsOK
    <3> QED
      BY <3>2, <3>3, <1>2 DEF Named
  <2>2. CASE ~\E u \in Openers : Register(u)
    BY <2>2, <1>2, EventsSteps DEF Named
  <2> QED
    BY <2>1, <2>2
<1>5. thread'.pc = "put" => \A s \in Real' : chan'[s].id # thread'.id
  <2> HAVE thread'.pc = "put"
  <2>1. CASE ParseOpen
    <3>1. n \in Ids /\ NextChannel = n
      BY <2>1, <1>1, OpenHasAnId DEF ParseOpen
    <3>2. thread'.id = n /\ UNCHANGED <<made, chan>>
      <4>1. /\ UNCHANGED <<made, chan>> /\ thread.pc = "read"
            /\ thread' = [thread EXCEPT !.pc = "put", !.id = NextChannel] \/ UNCHANGED thread
        BY <2>1 DEF ParseOpen, Receives
      <4>2. thread' = [thread EXCEPT !.pc = "put", !.id = n]
        BY <4>1, <3>1
      <4> QED
        BY <4>1, <4>2 DEF ThreadOK
    <3>3. \A s \in Real : chan[s].id < n /\ chan[s].id \in Nat
      BY <1>1, RealFacts, SpaceFacts DEF Given
    <3>4. Real' = Real
      BY <3>2 DEF Real
    <3> QED
      BY <3>1, <3>2, <3>3, <3>4, SpaceFacts
  <2>2. CASE ~ParseOpen
    <3>1. UNCHANGED thread
      BY <2>2, PutStays
    <3>2. ~PutOpened
      BY <3>1 DEF PutOpened, ThreadOK
    <3>3. CASE \E u \in Openers : Register(u)
      <4>1. Adds(n, None)
        BY <3>3, <1>1, RegisterAdds
      <4>2. thread.id < n /\ thread.id \in Nat /\ n \in Nat
        BY <3>1, <1>1, SpaceFacts DEF Given, ThreadOK
      <4>3. /\ \A s \in Real' : s \in Real \/ s = made + 1
            /\ \A s \in Real : chan'[s] = chan[s]
            /\ chan'[made + 1].id = n
        BY <4>1, AddedReal
      <4> QED
        BY <3>1, <4>2, <4>3 DEF Named
    <3>4. CASE UNCHANGED <<made, seen>>
      BY <3>1, <3>4, <1>2 DEF Named, Real
    <3> QED
      BY <3>2, <3>3, <3>4, MadeWriters
  <2> QED
    BY <2>1, <2>2
<1> QED
  BY <1>3, <1>4, <1>5 DEF Named

-----------------------------------------------------------------------------
LEMMA EndIsEnd ==
  ASSUME Next, ~active
  PROVE ~active'
  BY ActiveWriters, Zenon DEF NoChannel, ForChannel, Receives, ParseDisconnect, Deactivate, Close

\* What a channel that was opened tells stays true of it.
LEMMA TellingStays ==
  ASSUME OpeningInv, Next, NEW s \in Real
  PROVE /\ chan[s].remote = s => chan'[s].remote = s
        /\ map[chan[s].id] = None => map'[chan'[s].id] = None
<1> USE DEF OpeningInv, Shape
<1>1. chan'[s].id = chan[s].id /\ chan'[s].remote \in {chan[s].remote, s} /\ chan[s].id \in Ids
  BY ChannelsKept, RealFacts DEF Kept
<1>2. map[chan[s].id] = None => map'[chan[s].id] = None
  <2>1. CASE \A i \in Ids : map'[i] \in {map[i], None}
    BY <2>1, <1>1
  <2>2. CASE \E id, r : Adds(id, r) /\ r \in {None, made + 1}
    <3>1. PICK id, r : Adds(id, r) /\ r \in {None, made + 1}
      BY <2>2
    <3>2. chan[s].id # id /\ \A i \in Ids : i # id => map'[i] = map[i]
      BY <3>1, AddedReal
    <3> QED
      BY <3>2, <1>1
  <2> QED
    BY <2>1, <2>2, MapSteps
<1> QED
  BY <1>1, <1>2

LEMMA ConfirmedStays ==
  ASSUME OpeningInv, Next
  PROVE Confirmed'
<1> USE DEF OpeningInv, Shape
<1> DEFINE Telling(s) == chan'[s].remote = s \/ map'[chan'[s].id] = None \/ ~active'
<1>1. CASE \E id, r : Adds(id, r) /\ r \in {None, made + 1}
  <2>1. PICK id, r : Adds(id, r) /\ r \in {None, made + 1}
    BY <1>1
  <2>2. /\ \A s \in Real' : s \in Real \/ s = made + 1
        /\ \A s \in Real : chan'[s] = chan[s]
        /\ chan'[made + 1].remote = r /\ ~chan'[made + 1].opened
    BY <2>1, AddedReal
  <2>3. \A s \in Real' : chan'[s].remote \in {None, s}
    BY <2>1, <2>2 DEF Confirmed
  <2>4. \A s \in Real' : chan'[s].opened => Telling(s)
    <3> TAKE s \in Real'
    <3> HAVE chan'[s].opened
    <3>1. s \in Real /\ chan[s].opened
      BY <2>2
    <3> QED
      BY <3>1, TellingStays, EndIsEnd DEF Confirmed
  <2> QED
    BY <2>3, <2>4 DEF Confirmed
<1>2. CASE UNCHANGED made
  <2>1. Real' = Real
    BY <1>2 DEF Real
  <2>2. \A s \in Real : chan'[s].remote \in {None, s}
    BY ChannelsKept DEF Kept, Confirmed
  <2>3. ASSUME NEW s \in Real, chan'[s].opened, ~chan[s].opened
        PROVE Telling(s)
    <3>1. s \in Channels /\ chan'[s].id = chan[s].id
      BY RealFacts, ChannelsKept DEF Kept
    <3>2. ~UNCHANGED chan /\ ~Milder
      BY <2>3, <3>1 DEF Milder
    <3>3. ~\E u \in Openers : Register(u) \/ Drop(u) \/ EventPending(u)
      <4>1. ASSUME NEW u \in Openers, Register(u)
            PROVE FALSE
        BY <4>1, <1>2, RealFacts DEF Register
      <4>2. ASSUME NEW u \in Openers, Drop(u)
            PROVE FALSE
        BY <4>2, <3>2, ClosingIsMild DEF Drop
      <4>3. ASSUME NEW u \in Openers, EventPending(u)
            PROVE FALSE
        BY <4>3, <2>3, <3>1, PendingDoes
      <4> QED
        BY <4>1, <4>2, <4>3
    <3>4. ~PutOpened
      BY <1>2, RealFacts DEF PutOpened
    <3>5. ~AccepterDrops /\ ~HandleClose /\ ~RequestSuccess /\ ~RequestFailed /\ ~UnlinkAll
      BY <3>2, ClosingIsMild, AnswerIsMild, UnlinkIsMild
         DEF AccepterDrops, HandleClose, RequestSuccess, RequestFailed
    <3>6. CASE ParseOpenSuccess
      BY <3>6, <2>3, SuccessDoes
    <3>7. CASE ParseOpenFailure
      BY <3>1, <3>7, <2>3, FailureDoes
    <3>8. CASE WakeAll
      <4>1. ~active
        BY <3>8 DEF WakeAll, ThreadOK
      <4> QED
        BY <4>1, EndIsEnd
    <3> HIDE DEF Telling
    <3> QED
      BY <3>2, <3>3, <3>4, <3>5, <3>6, <3>7, <3>8, ChanWriters, Zenon
  <2>4. ASSUME NEW s \in Real, chan[s].opened
        PROVE Telling(s)
    BY <2>4, TellingStays, EndIsEnd DEF Confirmed
  <2> HIDE DEF Telling
  <2>5. \A s \in Real : chan'[s].opened => Telling(s)
    BY <2>3, <2>4
  <2> QED
    BY <2>1, <2>2, <2>5 DEF Confirmed, Telling
<1> QED
  BY <1>1, <1>2, MapSteps

-----------------------------------------------------------------------------
(****************************************************************************)
(* Users: what they have is theirs, and they are woken.                     *)
(****************************************************************************)
Moves(u, pc, s) == user' = [user EXCEPT ![u] = [pc |-> pc, chan |-> s]]

LEMMA MovesOn ==
  ASSUME UsersOK, NEW u \in Openers, NEW pc, user' = [user EXCEPT ![u].pc = pc]
  PROVE Moves(u, pc, user[u].chan)
<1>1. user[u] \in [pc : UserPlaces, chan : Nat]
  BY DEF UsersOK
<1>2. [user[u] EXCEPT !.pc = pc] = [pc |-> pc, chan |-> user[u].chan]
  BY <1>1
<1>3. user' = [user EXCEPT ![u] = [user[u] EXCEPT !.pc = pc]]
  BY DEF UsersOK
<1> QED
  BY <1>2, <1>3 DEF Moves

LEMMA AfterMove ==
  ASSUME UsersOK, NEW u \in Openers, NEW pc, NEW s, Moves(u, pc, s)
  PROVE /\ user'[u].pc = pc /\ user'[u].chan = s
        /\ \A v \in Openers : v # u => user'[v] = user[v]
  BY DEF UsersOK, Moves

\* What is true of the users who do not move.
LEMMA OthersOwn ==
  ASSUME OpeningInv, Next, NEW v \in Openers, user'[v] = user[v]
  PROVE /\ user'[v].pc = "get" => \/ chan'[user'[v].chan].remote = user'[v].chan
                                  \/ map'[chan'[user'[v].chan].id] = None
        /\ user'[v].pc \in {"have", "clear", "ask", "await"} =>
              chan'[user'[v].chan].remote = user'[v].chan
<1>1. CASE user[v].pc = "idle"
  BY <1>1
<1>2. CASE user[v].pc # "idle"
  <2>1. user[v].chan \in Real
    BY <1>2, RealFacts DEF OpeningInv, Shape, UsersOK
  <2> QED
    BY <2>1, TellingStays DEF OpeningInv, Own
<1> QED
  BY <1>1, <1>2

LEMMA OwnAfter ==
  ASSUME OpeningInv, Next, NEW u \in Openers, NEW pc, NEW s, Moves(u, pc, s),
         s \in {None, user[u].chan, made + 1},
         pc = "get" => chan'[s].remote = s \/ map'[chan'[s].id] = None,
         pc \in {"have", "clear", "ask", "await"} => chan'[s].remote = s
  PROVE Own'
<1>1. /\ user'[u].pc = pc /\ user'[u].chan = s
      /\ \A v \in Openers : v # u => user'[v] = user[v]
  BY AfterMove DEF OpeningInv, Shape
<1>2. \A v, w \in Openers : user'[v].chan # None /\ user'[v].chan = user'[w].chan => v = w
  <2>1. \A v \in Openers : user[v].chan # made + 1
    <3> TAKE v \in Openers
    <3>1. user[v].chan \in 0 .. made /\ made \in Nat
      BY RealFacts DEF OpeningInv, Shape, UsersOK
    <3> QED
      BY <3>1
  <2>2. \A v, w \in Openers : user[v].chan # None /\ user[v].chan = user[w].chan => v = w
    BY DEF OpeningInv, Own
  <2> QED
    BY <1>1, <2>1, <2>2
<1>3. \A v \in Openers : v # u =>
        /\ user'[v].pc = "get" => \/ chan'[user'[v].chan].remote = user'[v].chan
                                  \/ map'[chan'[user'[v].chan].id] = None
        /\ user'[v].pc \in {"have", "clear", "ask", "await"} =>
              chan'[user'[v].chan].remote = user'[v].chan
  BY <1>1, OthersOwn
<1> QED
  BY <1>1, <1>2, <1>3 DEF Own

LEMMA OwnStays ==
  ASSUME OpeningInv, Next
  PROVE Own'
<1> USE DEF OpeningInv, Shape
<1>1. CASE UNCHANGED user
  BY <1>1, OthersOwn DEF Own
<1>2. \A u \in Openers : user[u].pc # "idle" => user[u].chan \in Real
  BY RealFacts DEF UsersOK
<1>3. ASSUME NEW u \in Openers, user' = [user EXCEPT ![u] = [pc |-> "idle", chan |-> None]]
      PROVE Own'
  BY <1>3, OwnAfter DEF Moves
<1>4. ASSUME NEW u \in Openers, Register(u)
      PROVE Own'
  <2>1. Moves(u, "send", made + 1)
    BY <1>4 DEF Register, Moves
  <2> QED
    BY <2>1, OwnAfter
<1>5. ASSUME NEW u \in Openers, SendOpen(u)
      PROVE Own'
  <2>1. Moves(u, "wait", user[u].chan)
    BY <1>5, MovesOn DEF SendOpen
  <2> QED
    BY <2>1, OwnAfter
<1>6. ASSUME NEW u \in Openers, WaitEnds(u)
      PROVE Own'
  <2>1. CASE /\ active /\ chan[user[u].chan].opened
             /\ user' = [user EXCEPT ![u].pc = "get"]
    <3> DEFINE s == user[u].chan
    <3>1. s \in Real /\ UNCHANGED <<chan, map>>
      BY <1>2, <1>6 DEF WaitEnds, ids
    <3>2. chan[s].remote = s \/ map[chan[s].id] = None
      BY <2>1, <3>1 DEF Confirmed
    <3>3. Moves(u, "get", s)
      BY <2>1, MovesOn
    <3> QED
      BY <3>1, <3>2, <3>3, OwnAfter
  <2> QED
    BY <2>1, <1>3, <1>6 DEF WaitEnds, OpenFails
<1>7. ASSUME NEW u \in Openers, GetOpened(u)
      PROVE Own'
  <2> DEFINE r == user[u].chan
             s == Get(chan[r].id)
  <2>1. \/ user' = [user EXCEPT ![u] = [pc |-> "idle", chan |-> None]]
        \/ user' = [user EXCEPT ![u] = [pc |-> "have", chan |-> s]] /\ s # None
    BY <1>7 DEF GetOpened, OpenFails
  <2>2. user[u].pc = "get" /\ r \in Real /\ UNCHANGED chan
    BY <1>2, <1>7 DEF GetOpened
  <2>3. CASE s # None /\ Moves(u, "have", s)
    <3>1. chan[r].id \in Ids /\ map[chan[r].id] = s
      BY <2>2, <2>3, RealFacts DEF Get
    <3>2. s \in Real /\ chan[s].id = chan[r].id
      BY <2>3, <3>1, RealFacts DEF MapsOK, Named
    <3>3. s = r
      BY <3>2, <2>2 DEF Named
    <3>4. chan[r].remote = r
      BY <2>2, <2>3, <3>1 DEF Own
    <3> QED
      BY <2>2, <2>3, <3>3, <3>4, OwnAfter
  <2> HIDE DEF s
  <2> QED
    BY <2>1, <2>3, <1>3 DEF Moves
<1>8. ASSUME NEW u \in Openers, RequestCheck(u) \/ EventPending(u) \/ SendRequest(u) \/ RequestEnds(u)
      PROVE Own'
  <2> DEFINE s == user[u].chan
  <2>1. /\ user[u].pc \in {"have", "clear", "ask", "await"}
        /\ \E pc : user' = [user EXCEPT ![u].pc = pc]
    <3>1. \E pc \in {"have", "clear", "ask", "await"} : user' = [user EXCEPT ![u].pc = pc]
      BY <1>8 DEF RequestCheck, EventPending, SendRequest, RequestEnds
    <3>2. user[u].pc \in {"have", "clear", "ask", "await"}
      BY <1>8 DEF RequestCheck, EventPending, SendRequest, RequestEnds
    <3> QED
      BY <3>1, <3>2
  <2>2. s \in Real /\ chan[s].remote = s
    BY <2>1, <1>2 DEF Own
  <2>3. chan'[s].remote = s
    BY <2>2, TellingStays
  <2>4. PICK pc : Moves(u, pc, s)
    BY <2>1, MovesOn
  <2> HIDE DEF s
  <2> QED
    BY <2>3, <2>4, OwnAfter DEF s
<1>9. ASSUME NEW u \in Openers, OpenTimeout(u) \/ Drop(u)
      PROVE Own'
  BY <1>3, <1>9 DEF OpenTimeout, Drop
<1> QED
  BY <1>1, <1>4, <1>5, <1>6, <1>7, <1>8, <1>9, UserWriters, Zenon

-----------------------------------------------------------------------------
\* A closed channel keeps its event, unless a user waits for a new answer on it.
LEMMA WakingStays ==
  ASSUME OpeningInv, Next, NEW s \in Real,
         \A u \in Openers : EventPending(u) => user[u].chan # s,
         chan[s].closed => chan[s].event \/ chan[s].late
  PROVE chan'[s].closed => chan'[s].event \/ chan'[s].late
<1> USE DEF OpeningInv, Shape
<1> DEFINE Wakes == chan'[s].closed => chan'[s].event \/ chan'[s].late
<1>1. s \in Channels /\ chan[s] \in ChannelState
  BY RealFacts
<1>2. CASE UNCHANGED chan
  BY <1>2
<1>3. ASSUME Milder
      PROVE Wakes
  <2>1. /\ chan'[s].late = chan[s].late
        /\ chan[s].event => chan'[s].event
        /\ chan'[s].closed => chan[s].closed \/ chan'[s].event
    BY <1>1, <1>3 DEF Milder
  <2> QED
    BY <2>1
<1>4. ASSUME NEW id, NEW r \in {None, made + 1}, Adds(id, r)
      PROVE Wakes
  BY <1>4, AddedReal
<1>5. ASSUME UNCHANGED <<chan[s].closed, chan[s].event, chan[s].late>>
      PROVE Wakes
  BY <1>5
<1>6. PICK n \in 0 .. IdSpace : Given(n)
  BY DEF Numbered
<1>7. ASSUME \E u \in Openers : Register(u) \/ Drop(u) \/ EventPending(u)
      PROVE Wakes
  <2>1. ASSUME NEW u \in Openers, Register(u)
        PROVE Wakes
    <3>1. Adds(n, None)
      BY <2>1, <1>6, RegisterAdds
    <3> HIDE DEF Wakes
    <3> QED
      BY <3>1, <1>4
  <2>2. ASSUME NEW u \in Openers, Drop(u)
        PROVE Wakes
    <3>1. Milder
      BY <2>2, ClosingIsMild DEF Drop
    <3> QED
      BY <3>1, <1>3
  <2>3. ASSUME NEW u \in Openers, EventPending(u)
        PROVE Wakes
    <3>1. chan'[s] = chan[s]
      BY <2>3, <1>1, PendingDoes
    <3> QED
      BY <3>1
  <2> HIDE DEF Wakes
  <2> QED
    BY <1>7, <2>1, <2>2, <2>3
<1>8. ASSUME AccepterDrops \/ HandleClose \/ RequestSuccess \/ RequestFailed \/ UnlinkAll
      PROVE Wakes
  <2>1. Milder
    BY <1>8, ClosingIsMild, AnswerIsMild, UnlinkIsMild
       DEF AccepterDrops, HandleClose, RequestSuccess, RequestFailed
  <2> QED
    BY <2>1, <1>3
<1>9. ASSUME ParseOpenSuccess \/ ParseOpenFailure \/ WakeAll
      PROVE Wakes
  <2>1. UNCHANGED <<chan[s].closed, chan[s].event, chan[s].late>>
    BY <1>1, <1>9, SuccessDoes, FailureDoes, WakeDoes
  <2> QED
    BY <2>1, <1>5
<1>10. ASSUME PutOpened
       PROVE Wakes
  <2>1. Adds(thread.id, made + 1)
    BY <1>6, <1>10, PutAdds
  <2> HIDE DEF Wakes
  <2> QED
    BY <2>1, <1>4
<1> HIDE DEF Wakes
<1>11. Wakes
  BY <1>2, <1>7, <1>8, <1>9, <1>10, ChanWriters, Zenon DEF Wakes
<1> QED
  BY <1>11 DEF Wakes

LEMMA WokenStays ==
  ASSUME OpeningInv, Next
  PROVE Woken'
<1> USE DEF OpeningInv, Shape
<1> SUFFICES ASSUME NEW v \in Openers, user'[v].pc \in {"ask", "await"}
             PROVE chan'[user'[v].chan].closed =>
                       chan'[user'[v].chan].event \/ chan'[user'[v].chan].late
  BY DEF Woken
<1> DEFINE Wakes(s) == chan'[s].closed => chan'[s].event \/ chan'[s].late
<1>1. \A u \in Openers : user[u].pc # "idle" => user[u].chan \in Real
  BY RealFacts DEF UsersOK
<1>2. ASSUME user[v].pc \in {"ask", "await"}, user'[v].chan = user[v].chan
      PROVE Wakes(user'[v].chan)
  <2>1. user[v].chan \in Real
    BY <1>1, <1>2
  <2>2. \A u \in Openers : EventPending(u) => user[u].chan # user[v].chan
    <3> TAKE u \in Openers
    <3> HAVE EventPending(u)
    <3>1. user[u].pc = "clear"
      BY DEF EventPending
    <3> QED
      BY <3>1, <2>1, <1>2, RealFacts DEF Own
  <2> QED
    BY <2>1, <2>2, <1>2, WakingStays DEF Woken
<1>3. ASSUME NEW u \in Openers, NEW pc, NEW s, Moves(u, pc, s), pc \notin {"ask", "await"}
      PROVE Wakes(user'[v].chan)
  <2>1. v # u /\ user'[v] = user[v]
    BY <1>3, AfterMove
  <2> QED
    BY <2>1, <1>2
<1>4. ASSUME NEW u \in Openers, EventPending(u)
      PROVE Wakes(user'[v].chan)
  <2>1. Moves(u, "ask", user[u].chan) /\ user[u].chan \in Real
    BY <1>1, <1>4, MovesOn DEF EventPending
  <2>2. CASE v = u
    <3>1. user'[v].chan = user[u].chan /\ user[u].chan \in Channels
      BY <2>1, <2>2, AfterMove, RealFacts
    <3> QED
      BY <3>1, <1>4, PendingDoes
  <2>3. CASE v # u
    BY <2>1, <2>3, <1>2, AfterMove
  <2> QED
    BY <2>2, <2>3
<1>5. ASSUME NEW u \in Openers, SendRequest(u)
      PROVE Wakes(user'[v].chan)
  <2>1. Moves(u, "await", user[u].chan) /\ user[u].pc = "ask"
    BY <1>5, MovesOn DEF SendRequest
  <2> QED
    BY <2>1, <1>2, AfterMove
<1>6. ASSUME NEW u \in Openers,
             \/ Register(u) \/ SendOpen(u) \/ WaitEnds(u) \/ GetOpened(u) \/ OpenTimeout(u)
             \/ RequestCheck(u) \/ RequestEnds(u) \/ Drop(u)
      PROVE Wakes(user'[v].chan)
  <2>1. \E pc \in {"idle", "send", "wait", "get", "have", "clear"} :
          user' = [user EXCEPT ![u].pc = pc] \/ \E s : Moves(u, pc, s)
    BY <1>6
       DEF Register, SendOpen, WaitEnds, OpenFails, GetOpened, OpenTimeout, RequestCheck,
           RequestEnds, Drop, Moves
  <2>2. \E pc \in {"idle", "send", "wait", "get", "have", "clear"} : \E s : Moves(u, pc, s)
    BY <2>1, MovesOn
  <2> HIDE DEF Wakes
  <2> QED
    BY <2>2, <1>3
<1>7. ASSUME UNCHANGED user
      PROVE Wakes(user'[v].chan)
  BY <1>2, <1>7
<1> HIDE DEF Wakes
<1>8. Wakes(user'[v].chan)
  <2>1. UNCHANGED user \/ \E u \in Openers :
            \/ EventPending(u) \/ SendRequest(u)
            \/ Register(u) \/ SendOpen(u) \/ WaitEnds(u) \/ GetOpened(u) \/ OpenTimeout(u)
            \/ RequestCheck(u) \/ RequestEnds(u) \/ Drop(u)
    BY UserWriters, Zenon
  <2> QED
    BY <1>4, <1>5, <1>6, <1>7, <2>1
<1> QED
  BY <1>8 DEF Wakes

-----------------------------------------------------------------------------
(****************************************************************************)
(* What the peer says reaches the channel it speaks of.                     *)
(****************************************************************************)
LEMMA AddressedStays ==
  ASSUME OpeningInv, Next
  PROVE Addressed'
<1> USE DEF OpeningInv, Shape
<1>1. PICK n \in 0 .. IdSpace : Given(n)
  BY DEF Numbered
<1>2. \A s \in Real : s \in Real' /\ chan'[s].id = chan[s].id
  BY ChannelsKept DEF Kept
<1>3. \A s \in Real' : chan'[s].id \in seen'
  <2>1. CASE UNCHANGED <<made, seen>>
    BY <2>1, <1>2 DEF Addressed, Real
  <2>2. ASSUME NEW id, NEW r \in {None, made + 1}, Adds(id, r)
        PROVE \A s \in Real' : chan'[s].id \in seen'
    <3>1. /\ \A s \in Real' : s \in Real \/ s = made + 1
          /\ chan'[made + 1].id = id /\ seen' = seen \cup {id}
      BY <2>2, AddedReal
    <3> QED
      BY <3>1, <1>2 DEF Addressed
  <2> QED
    BY <2>1, <2>2, <1>1, MadeWriters, RegisterAdds, PutAdds
<1>4. \A i \in 1 .. Len(in') : in'[i].type \in ChannelTypes =>
          in'[i].to \in Real' /\ in'[i].id = chan'[in'[i].to].id
  <2>1. CASE UNCHANGED in
    BY <2>1, <1>2 DEF Addressed
  <2>2. CASE \E type \in Types : Receives(type)
    <3>1. /\ Len(in) \in Nat \ {0} /\ Len(in') = Len(in) - 1
          /\ \A i \in 1 .. Len(in') : in'[i] = in[i + 1]
      BY <2>2, Received
    <3>2. \A i \in 1 .. Len(in') : i + 1 \in 1 .. Len(in)
      BY <3>1
    <3> QED
      BY <3>1, <3>2, <1>2 DEF Addressed
  <2>3. CASE \E m : Tells(m)
    <3>1. PICK m : Tells(m)
      BY <2>3
    <3>2. /\ Len(in) \in Nat /\ Len(in') = Len(in) + 1 /\ in'[Len(in) + 1] = m
          /\ \A i \in 1 .. Len(in) : in'[i] = in[i]
      BY <3>1 DEF Tells, Says, WireOK
    <3>3. m.type \in ChannelTypes => m.to \in Real /\ m.id = chan[m.to].id
      BY <3>1 DEF Tells, ChannelTypes
    <3>4. \A i \in 1 .. Len(in') : i \in 1 .. Len(in) \/ i = Len(in) + 1
      BY <3>2
    <3> QED
      BY <3>2, <3>3, <3>4, <1>2 DEF Addressed
  <2> QED
    BY <2>1, <2>2, <2>3, WireSteps
<1>5. thread'.why # "unknown"
  <2>1. CASE NoChannel
    <3>1. PICK type \in {"CLOSE", "SUCCESS", "FAILURE"} : Receives(type)
      BY <2>1 DEF NoChannel, ForChannel
    <3>2. Len(in) \in Nat \ {0} /\ Head(in) = in[1] /\ in[1].type \in ChannelTypes /\ 1 \in 1 .. Len(in)
      <4>1. Len(in) \in Nat \ {0} /\ Head(in) = in[1] /\ in[1].type = type
        BY <3>1, Received
      <4> QED
        BY <4>1 DEF ChannelTypes
    <3>3. Head(in).id \in seen
      BY <3>2 DEF Addressed
    <3>4. thread' = [thread EXCEPT !.chan = None]
      BY <2>1, <3>3, Zenon DEF NoChannel
    <3> QED
      BY <3>4 DEF ThreadOK, Addressed, NeverUnknown
  <2>2. CASE ~NoChannel
    <3>1. thread'.why = thread.why
      <4>1. CASE UNCHANGED thread
        BY <4>1
      <4>2. CASE \E pc, s, id : \/ thread' = [thread EXCEPT !.pc = pc]
                                \/ thread' = [thread EXCEPT !.chan = s]
                                \/ thread' = [thread EXCEPT !.pc = pc, !.id = id]
                                \/ thread' = [thread EXCEPT !.pc = pc, !.chan = s]
                                \/ thread' = [thread EXCEPT !.pc = "queue", !.chan = s, !.id = id]
        BY <4>2 DEF ThreadOK
      <4>3. ParseOpen \/ QueueIncoming \/ LoopEnds \/ ParseDisconnect \/ Deactivate \/ PutOpened
            \/ UnlinkAll \/ WakeAll \/ NotifyAccept \/ HandleClose \/ RequestSuccess \/ RequestFailed
            \/ UNCHANGED thread
        BY <2>2, ThreadWriters, Zenon
      <4>4. HandleClose \/ RequestSuccess \/ RequestFailed => \E s : thread' = [thread EXCEPT !.chan = s]
        BY Zenon DEF HandleClose, RequestSuccess, RequestFailed, Dispatch
      <4>5. WakeAll \/ NotifyAccept \/ UnlinkAll \/ Deactivate => \E pc : thread' = [thread EXCEPT !.pc = pc]
        BY DEF WakeAll, NotifyAccept, UnlinkAll, Deactivate
      <4>6. ParseOpen => UNCHANGED thread \/ \E pc, id : thread' = [thread EXCEPT !.pc = pc, !.id = id]
        BY DEF ParseOpen
      <4>7. QueueIncoming \/ LoopEnds \/ ParseDisconnect =>
               \E pc, s : thread' = [thread EXCEPT !.pc = pc, !.chan = s]
        BY DEF QueueIncoming, LoopEnds, ParseDisconnect
      <4>8. PutOpened => thread' = [thread EXCEPT !.pc = "queue", !.chan = made + 1, !.id = None]
        BY Zenon DEF PutOpened
      <4> QED
        BY <4>1, <4>2, <4>3, <4>4, <4>5, <4>6, <4>7, <4>8, Zenon
    <3> QED
      BY <3>1 DEF Addressed, NeverUnknown
  <2> QED
    BY <2>1, <2>2
<1> QED
  BY <1>3, <1>4, <1>5 DEF Addressed, NeverUnknown

-----------------------------------------------------------------------------
(****************************************************************************)
(* Global requests.  While nothing disturbs them there is one at a time, and *)
(* the peer owes the answer to it.                                          *)
(****************************************************************************)
LEMMA TailDiffers ==
  ASSUME NEW S, NEW q \in Seq(S), q # <<>>
  PROVE Tail(q) # q
<1>1. Len(q) \in Nat /\ Len(Tail(q)) = Len(q) - 1
  OBVIOUS
<1>2. \A k \in Nat : k - 1 # k
  BY SMT
<1> QED
  BY <1>1, <1>2, Zenon

\* A step that neither asks nor answers leaves what the peer owes as it is.
LEMMA OwesStays ==
  ASSUME OpeningInv, Next, ~ParseRequestAnswer, ~PeerAnswersGlobal,
         ~\E a \in Askers : SendGlobal(a)
  PROVE /\ Quiet => Quiet'
        /\ \A n : Owes(n) => Owes(n)'
<1> USE DEF OpeningInv, Shape
<1>1. peer'.globals = peer.globals
  <2>1. ASSUME NEW u \in Openers, SendOpen(u) \/ SendRequest(u)
        PROVE peer'.globals = peer.globals
    <3>1. \E s : \/ peer' = [peer EXCEPT !.opens = s]
                 \/ peer' = [peer EXCEPT !.requests = s]
                 \/ peer' = peer
      BY <2>1 DEF SendOpen, SendRequest
    <3> QED
      BY <3>1 DEF PeerOK
  <2>2. ASSUME PutOpened \/ PeerConfirms \/ PeerRefuses \/ PeerAnswers \/ PeerCloses
               \/ PeerDisconnects \/ PeerDrops
        PROVE peer'.globals = peer.globals
    <3>1. PutOpened => \E s : peer' = [peer EXCEPT !.open = @ \cup {s}]
      BY Zenon DEF PutOpened
    <3>2. PeerConfirms \/ PeerRefuses \/ PeerAnswers \/ PeerCloses =>
             \/ \E s : peer' = [peer EXCEPT !.opens = @ \ {s}, !.open = @ \cup {s}]
             \/ \E s : peer' = [peer EXCEPT !.opens = @ \ {s}]
             \/ \E s : peer' = [peer EXCEPT !.requests = @ \ {s}]
             \/ \E s : peer' = [peer EXCEPT !.open = @ \ {s}, !.requests = @ \ {s}]
      BY Zenon DEF PeerConfirms, PeerRefuses, PeerAnswers, PeerCloses
    <3>3. PeerDisconnects \/ PeerDrops => peer' = [peer EXCEPT !.gone = TRUE]
      BY DEF PeerDisconnects, PeerDrops
    <3> QED
      BY <2>2, <3>1, <3>2, <3>3 DEF PeerOK
  <2> QED
    BY <2>1, <2>2, PeerWriters
<1>2. CASE UNCHANGED in
  BY <1>1, <1>2 DEF Quiet, Owes, NoAnswer, IsAnswer
<1>3. CASE \E type \in Types \ {"GLOBAL_ANSWER"} : Receives(type)
  <2>1. /\ Len(in) \in Nat \ {0} /\ Len(in') = Len(in) - 1 /\ in[1].type # "GLOBAL_ANSWER"
        /\ \A i \in 1 .. Len(in') : in'[i] = in[i + 1]
    BY <1>3, Received
  <2>2. /\ \A i \in 1 .. Len(in') : i + 1 \in 1 .. Len(in)
        /\ \A i \in 1 .. Len(in) : i = 1 \/ (i - 1 \in 1 .. Len(in') /\ (i - 1) + 1 = i)
        /\ \A i, j \in 1 .. Len(in') : i + 1 = j + 1 => i = j
    BY <2>1
  <2>3. NoAnswer => NoAnswer'
    BY <2>1, <2>2 DEF NoAnswer, IsAnswer
  <2>4. ASSUME NEW n, NEW i \in 1 .. Len(in), IsAnswer(i), in[i].to = n,
               \A j \in 1 .. Len(in) : IsAnswer(j) => j = i
        PROVE \E k \in 1 .. Len(in') : /\ in'[k].type = "GLOBAL_ANSWER" /\ in'[k].to = n
                                       /\ \A j \in 1 .. Len(in') : in'[j].type = "GLOBAL_ANSWER" => j = k
    <3>1. PICK k \in 1 .. Len(in') : k + 1 = i
      BY <2>1, <2>2, <2>4 DEF IsAnswer
    <3>2. in'[k] = in[i]
      BY <2>1, <3>1
    <3>3. ASSUME NEW j \in 1 .. Len(in'), in'[j].type = "GLOBAL_ANSWER"
          PROVE j = k
      BY <2>1, <2>2, <2>4, <3>1, <3>3 DEF IsAnswer
    <3> QED
      BY <2>4, <3>2, <3>3 DEF IsAnswer
  <2> QED
    BY <1>1, <2>3, <2>4 DEF Quiet, Owes, IsAnswer
<1>4. CASE \E m : Tells(m)
  <2>1. PICK m : Tells(m)
    BY <1>4
  <2>2. m.type # "GLOBAL_ANSWER"
    <3> SUFFICES ASSUME m.type = "GLOBAL_ANSWER" PROVE FALSE
      OBVIOUS
    <3>1. peer.globals # <<>> /\ peer'.globals = Tail(peer.globals) /\ peer.globals \in Seq(Nat)
      BY <2>1 DEF Tells, ChannelTypes, PeerOK
    <3> QED
      BY <3>1, <1>1, TailDiffers
  <2>3. /\ Len(in) \in Nat /\ Len(in') = Len(in) + 1 /\ in'[Len(in) + 1] = m
        /\ \A i \in 1 .. Len(in) : in'[i] = in[i]
    BY <2>1 DEF Tells, Says, WireOK
  <2>4. /\ \A i \in 1 .. Len(in') : i \in 1 .. Len(in) \/ i = Len(in) + 1
        /\ \A i \in 1 .. Len(in) : i \in 1 .. Len(in')
    BY <2>3
  <2> QED
    BY <1>1, <2>2, <2>3, <2>4 DEF Quiet, Owes, NoAnswer, IsAnswer
<1>5. \/ UNCHANGED in
      \/ \E type \in Types \ {"GLOBAL_ANSWER"} : Receives(type)
      \/ \E m : Tells(m)
  <2>1. ASSUME ParseOpenSuccess \/ ParseOpenFailure \/ ParseOpen
               \/ ParseNewkeys \/ HandleClose \/ RequestSuccess \/ RequestFailed \/ NoChannel
               \/ ParseDisconnect
        PROVE \E type \in Types \ {"GLOBAL_ANSWER"} : Receives(type)
    <3>1. \E type \in {"OPEN_SUCCESS", "OPEN_FAILURE", "OPEN", "NEWKEYS", "CLOSE", "SUCCESS", "FAILURE",
                       "DISCONNECT"} : Receives(type)
      BY <2>1, Zenon
         DEF ParseOpenSuccess, ParseOpenFailure, ParseOpen, ParseNewkeys, HandleClose,
             RequestSuccess, RequestFailed, NoChannel, ParseDisconnect, Dispatch, ForChannel
    <3> QED
      BY <3>1 DEF Types, ChannelTypes
  <2>2. ASSUME PeerConfirms \/ PeerRefuses \/ PeerAnswers \/ PeerCloses \/ PeerOpens
               \/ PeerDisconnects \/ PeerRekeys
        PROVE \E m : Tells(m)
    <3>1. \E m : in' = Append(in, m)
      BY <2>2, Zenon
         DEF PeerConfirms, PeerRefuses, PeerAnswers, PeerCloses, PeerOpens, PeerDisconnects,
             PeerRekeys, Says
    <3>2. Len(in) \in Nat /\ Len(in') = Len(in) + 1
      BY <3>1 DEF WireOK
    <3>3. in' # in /\ \A type : ~Receives(type)
      BY <3>2, Received
    <3> QED
      BY <3>3, WireSteps
  <2> QED
    BY <2>1, <2>2, WireWriters
<1> QED
  BY <1>2, <1>3, <1>4, <1>5

\* What AskGlobal does to the askers.
LEMMA AskDoes ==
  ASSUME AskersOK, BudgetOK, NEW a \in Askers, AskGlobal(a)
  PROVE /\ asker[a].pc = "idle" /\ asker'[a].pc = "send" /\ asker'[a].got.n = None
        /\ asker[a].stirred => asker'[a].stirred
        /\ (\E b \in Askers : b # a /\ asker[b].pc # "idle") => asker'[a].stirred
        /\ \A b \in Askers : b # a =>
              /\ asker'[b].pc = asker[b].pc /\ asker'[b].n = asker[b].n /\ asker'[b].got = asker[b].got
              /\ asker[b].stirred => asker'[b].stirred
<1> DEFINE st == asker[a].stirred \/ \E b \in Askers : b # a /\ asker[b].pc # "idle"
           w == [pc |-> "send", n |-> left["globals"], got |-> [n |-> None, ok |-> FALSE],
                 stirred |-> st]
<1>1. asker' = [Stirred(a) EXCEPT ![a] = w] /\ asker[a].pc = "idle"
  BY Zenon DEF AskGlobal
<1>2. /\ DOMAIN Stirred(a) = Askers
      /\ \A b \in Askers :
            /\ Stirred(a)[b].pc = asker[b].pc /\ Stirred(a)[b].n = asker[b].n
            /\ Stirred(a)[b].got = asker[b].got
            /\ asker[b].stirred => Stirred(a)[b].stirred
  BY DEF Stirred, AskersOK
<1>3. asker'[a] = w /\ \A b \in Askers : b # a => asker'[b] = Stirred(a)[b]
  <2> HIDE DEF w
  <2> QED
    BY <1>1, <1>2 DEF Stirred
<1>4. w.pc = "send" /\ w.got.n = None /\ w.stirred = st
  OBVIOUS
<1> HIDE DEF w
<1> QED
  BY <1>1, <1>2, <1>3, <1>4

LEMMA UndisturbedStays ==
  ASSUME OpeningInv, Next
  PROVE Undisturbed'
<1> USE DEF OpeningInv, Shape
<1>1. active' => active
  BY EndIsEnd
<1> DEFINE Answered == \A a \in Askers : asker'[a].got.n # None => asker'[a].got.n = asker'[a].n
           Goal == Stirless' => Answered /\ (active' => OneAsker')
<1>2. ASSUME UNCHANGED asker
      PROVE Stirless' => Stirless /\ Answered
  BY <1>2 DEF Stirless, Undisturbed, GlobalAnswerIsOwn
<1>3. ASSUME UNCHANGED <<asker, completion, response>>, ~ParseRequestAnswer, ~PeerAnswersGlobal,
             ~\E a \in Askers : SendGlobal(a)
      PROVE Goal
  <2>1. (Quiet => Quiet') /\ \A n : Owes(n) => Owes(n)'
    BY <1>3, OwesStays
  <2>2. ASSUME active', OneAsker
        PROVE OneAsker'
    BY <1>3, <2>1, <2>2 DEF OneAsker
  <2> QED
    BY <1>1, <1>2, <1>3, <2>2 DEF Undisturbed
<1>4. ASSUME NEW a \in Askers, AskGlobal(a)
      PROVE Goal
  <2> SUFFICES ASSUME Stirless'
               PROVE Answered /\ (active' => OneAsker')
    OBVIOUS
  <2>1. UNCHANGED <<in, peer, active>> /\ completion' = "clear" /\ active
    BY <1>4, Zenon DEF AskGlobal, FreshEvent
  <2>2. /\ asker[a].pc = "idle" /\ asker'[a].pc = "send" /\ asker'[a].got.n = None
        /\ asker[a].stirred => asker'[a].stirred
        /\ (\E b \in Askers : b # a /\ asker[b].pc # "idle") => asker'[a].stirred
        /\ \A b \in Askers : b # a =>
              /\ asker'[b].pc = asker[b].pc /\ asker'[b].n = asker[b].n /\ asker'[b].got = asker[b].got
              /\ asker[b].stirred => asker'[b].stirred
    BY <1>4, AskDoes
  <2>3. Stirless /\ \A b \in Askers : asker[b].pc = "idle"
    BY <2>2 DEF Stirless
  <2>4. Quiet /\ Answered
    BY <2>1, <2>2, <2>3 DEF Undisturbed, GlobalAnswerIsOwn, Stirless, OneAsker
  <2>5. Quiet'
    BY <2>1, <2>4 DEF Quiet, NoAnswer, IsAnswer
  <2>6. \A b \in Askers : b # a => asker'[b].pc = "idle"
    BY <2>2, <2>3
  <2>7. OneAsker'
    BY <2>1, <2>2, <2>5, <2>6 DEF OneAsker
  <2> QED
    BY <2>4, <2>7
<1>5. ASSUME NEW a \in Askers, SendGlobal(a)
      PROVE Goal
  <2> SUFFICES ASSUME Stirless'
               PROVE Answered /\ (active' => OneAsker')
    OBVIOUS
  <2>1. /\ asker[a].pc = "send" /\ UNCHANGED <<in, active, completion, response>>
        /\ asker' = [asker EXCEPT ![a].pc = "wait"]
        /\ active => peer' = [peer EXCEPT !.globals = Append(@, asker[a].n)]
    BY <1>5, Zenon DEF SendGlobal, calls
  <2>2. /\ asker'[a].pc = "wait"
        /\ \A b \in Askers : /\ asker'[b].n = asker[b].n /\ asker'[b].got = asker[b].got
                             /\ asker'[b].stirred = asker[b].stirred
                             /\ b # a => asker'[b].pc = asker[b].pc
    BY <2>1 DEF AskersOK
  <2>3. Stirless /\ Answered
    BY <2>2 DEF Stirless, Undisturbed, GlobalAnswerIsOwn
  <2>4. ASSUME active'
        PROVE OneAsker'
    <3>1. OneAsker /\ active
      BY <1>1, <2>3, <2>4 DEF Undisturbed
    <3>2. Quiet /\ completion = "clear" /\ \A b \in Askers : b # a => asker[b].pc = "idle"
      BY <2>1, <3>1 DEF OneAsker
    <3>3. peer'.globals = <<asker[a].n>>
      <4>1. peer.globals = <<>> /\ peer'.globals = Append(peer.globals, asker[a].n)
        BY <2>1, <3>1, <3>2 DEF PeerOK, Quiet
      <4> QED
        BY <4>1
    <3>4. Owes(asker[a].n)'
      BY <2>1, <2>2, <3>2, <3>3 DEF Owes, Quiet, NoAnswer, IsAnswer
    <3>5. \A b \in Askers : b # a => asker'[b].pc = "idle"
      BY <2>2, <3>2
    <3> QED
      BY <2>1, <2>2, <3>2, <3>4, <3>5 DEF OneAsker
  <2> QED
    BY <2>3, <2>4
<1>6. ASSUME NEW a \in Askers, GlobalEnds(a)
      PROVE Goal
  <2> SUFFICES ASSUME Stirless'
               PROVE Answered /\ (active' => OneAsker')
    OBVIOUS
  <2>1. asker[a].pc = "wait" /\ UNCHANGED <<in, active, completion, response, peer>>
    BY <1>6 DEF GlobalEnds
  <2>2. CASE ~active /\ asker' = [asker EXCEPT ![a].pc = "idle"]
    <3>1. \A b \in Askers : /\ asker'[b].n = asker[b].n /\ asker'[b].got = asker[b].got
                            /\ asker'[b].stirred = asker[b].stirred
      BY <2>2 DEF AskersOK
    <3> QED
      BY <1>1, <2>2, <3>1 DEF Stirless, Undisturbed, GlobalAnswerIsOwn
  <2>3. CASE /\ active /\ completion = "set"
             /\ asker' = [asker EXCEPT ![a].pc = "idle", ![a].got = response]
    <3>1. /\ asker'[a].pc = "idle" /\ asker'[a].got = response
          /\ \A b \in Askers : /\ asker'[b].n = asker[b].n /\ asker'[b].stirred = asker[b].stirred
                               /\ b # a => asker'[b].pc = asker[b].pc /\ asker'[b].got = asker[b].got
      BY <2>3 DEF AskersOK
    <3>2. Stirless /\ OneAsker
      BY <2>3, <3>1 DEF Stirless, Undisturbed
    <3>3. /\ response.n = asker[a].n /\ Quiet
          /\ \A b \in Askers : b # a => asker[b].pc = "idle"
      BY <2>1, <2>3, <3>2 DEF OneAsker
    <3>4. Answered
      BY <3>1, <3>2, <3>3 DEF Undisturbed, GlobalAnswerIsOwn, Stirless
    <3>5. Quiet' /\ \A b \in Askers : asker'[b].pc = "idle"
      BY <2>1, <3>1, <3>3 DEF Quiet, NoAnswer, IsAnswer
    <3>6. OneAsker'
      BY <3>5 DEF OneAsker
    <3> QED
      BY <3>4, <3>6
  <2> QED
    BY <2>2, <2>3, <1>6 DEF GlobalEnds
<1>7. ASSUME ParseRequestAnswer
      PROVE Goal
  <2> SUFFICES ASSUME Stirless'
               PROVE Answered /\ (active' => OneAsker')
    OBVIOUS
  <2>1. /\ Receives("GLOBAL_ANSWER") /\ UNCHANGED <<asker, peer, active>>
        /\ response' = [n |-> Head(in).to, ok |-> Head(in).ok]
        /\ completion' = IF completion = "none" THEN "none" ELSE "set"
    BY <1>7 DEF ParseRequestAnswer
  <2>2. Stirless /\ Answered
    BY <1>2, <2>1
  <2>3. /\ Len(in) \in Nat \ {0} /\ Head(in) = in[1] /\ in[1].type = "GLOBAL_ANSWER"
        /\ Len(in') = Len(in) - 1 /\ active
        /\ \A i \in 1 .. Len(in') : in'[i] = in[i + 1]
    BY <2>1, Received
  <2>4. 1 \in 1 .. Len(in) /\ IsAnswer(1) /\ ~NoAnswer
    BY <2>3 DEF IsAnswer, NoAnswer
  <2>5. OneAsker
    BY <2>2, <2>3 DEF Undisturbed
  <2>6. ASSUME NEW a \in Askers, asker[a].pc = "wait"
        PROVE completion' = "set" /\ response'.n = asker[a].n /\ Quiet'
    <3>1. completion = "clear" /\ Owes(asker[a].n)
      BY <2>4, <2>5, <2>6 DEF OneAsker, Quiet
    <3>2. peer.globals = <<>> /\ in[1].to = asker[a].n /\ \A j \in 1 .. Len(in) : IsAnswer(j) => j = 1
      BY <2>4, <3>1 DEF Owes
    <3>3. \A i \in 1 .. Len(in') : i + 1 \in 1 .. Len(in) /\ i + 1 # 1
      BY <2>3
    <3>4. NoAnswer'
      BY <2>3, <3>2, <3>3 DEF NoAnswer, IsAnswer
    <3> QED
      BY <2>1, <2>3, <3>1, <3>2, <3>4 DEF Quiet
  <2>7. \A a \in Askers : asker[a].pc # "send"
    BY <2>4, <2>5 DEF OneAsker, Quiet
  <2>8. ~\A a \in Askers : asker[a].pc = "idle"
    BY <2>4, <2>5 DEF OneAsker, Quiet
  <2>9. OneAsker'
    BY <2>1, <2>5, <2>6, <2>7, <2>8 DEF OneAsker
  <2> QED
    BY <2>2, <2>9
<1>8. ASSUME ParseNewkeys
      PROVE Goal
  <2> SUFFICES ASSUME Stirless'
               PROVE Answered /\ (active' => OneAsker')
    OBVIOUS
  <2>1. asker' = [a \in Askers |-> IF asker[a].pc # "idle"
                                   THEN [asker[a] EXCEPT !.stirred = TRUE] ELSE asker[a]]
    BY <1>8 DEF ParseNewkeys
  <2>2. \A a \in Askers : asker[a].pc = "idle" /\ asker'[a] = asker[a]
    BY <2>1 DEF Stirless, AskersOK
  <2>3. Stirless /\ Answered
    BY <2>2 DEF Stirless, Undisturbed, GlobalAnswerIsOwn
  <2>4. Quiet => Quiet'
    <3>1. Receives("NEWKEYS") /\ UNCHANGED peer
      BY <1>8 DEF ParseNewkeys
    <3>2. /\ Len(in) \in Nat \ {0} /\ Len(in') = Len(in) - 1
          /\ \A i \in 1 .. Len(in') : in'[i] = in[i + 1]
      BY <3>1, Received
    <3>3. \A i \in 1 .. Len(in') : i + 1 \in 1 .. Len(in)
      BY <3>2
    <3> QED
      BY <3>1, <3>2, <3>3 DEF Quiet, NoAnswer, IsAnswer
  <2>5. active' => OneAsker'
    BY <1>1, <2>2, <2>3, <2>4 DEF Undisturbed, OneAsker
  <2> QED
    BY <2>3, <2>5
<1>9. ASSUME WakeAll
      PROVE Goal
  <2>1. ~active /\ UNCHANGED asker
    BY <1>9 DEF WakeAll, ThreadOK
  <2> QED
    BY <1>1, <1>2, <2>1
<1>10. ASSUME PeerAnswersGlobal
       PROVE Goal
  <2> SUFFICES ASSUME Stirless'
               PROVE Answered /\ (active' => OneAsker')
    OBVIOUS
  <2>1. PICK ok \in BOOLEAN :
          /\ peer.globals # <<>> /\ peer' = [peer EXCEPT !.globals = Tail(@)]
          /\ Says([Message("GLOBAL_ANSWER", None, Head(peer.globals)) EXCEPT !.ok = ok])
    BY <1>10 DEF PeerAnswersGlobal
  <2>2. UNCHANGED <<asker, active, completion, response>>
    BY <2>1, Zenon DEF Says, calls
  <2>3. Stirless /\ Answered
    BY <1>2, <2>2
  <2>4. PICK m : in' = Append(in, m) /\ m.type = "GLOBAL_ANSWER" /\ m.to = Head(peer.globals)
    BY <2>1 DEF Says, Message
  <2>5. /\ Len(in) \in Nat /\ Len(in') = Len(in) + 1 /\ in'[Len(in) + 1] = m
        /\ \A i \in 1 .. Len(in) : in'[i] = in[i]
    BY <2>4 DEF WireOK
  <2>6. ASSUME active'
        PROVE OneAsker'
    <3>1. OneAsker /\ ~Quiet
      BY <1>1, <2>1, <2>3, <2>6 DEF Undisturbed, Quiet
    <3>2. PICK a \in Askers : asker[a].pc # "idle"
      BY <3>1 DEF OneAsker
    <3>3. asker[a].pc = "wait"
      <4>1. asker[a].pc # "send"
        BY <3>1 DEF OneAsker
      <4> QED
        BY <3>2, <4>1 DEF AskersOK
    <3>4. completion = "clear" /\ Owes(asker[a].n)
      BY <3>1, <3>3 DEF OneAsker
    <3>5. peer.globals = <<asker[a].n>> /\ NoAnswer
      BY <2>1, <3>4 DEF Owes
    <3>6. m.to = asker[a].n /\ peer'.globals = <<>>
      <4>1. Head(peer.globals) = asker[a].n /\ Tail(peer.globals) = <<>>
        BY <3>5
      <4>2. peer'.globals = Tail(peer.globals)
        BY <2>1 DEF PeerOK
      <4> QED
        BY <2>4, <4>1, <4>2
    <3> DEFINE k == Len(in) + 1
    <3>7. /\ k \in 1 .. Len(in')
          /\ \A j \in 1 .. Len(in') : j \in 1 .. Len(in) \/ j = k
      BY <2>5
    <3>8. \A j \in 1 .. Len(in') : in'[j].type = "GLOBAL_ANSWER" => j = k
      BY <2>5, <3>5, <3>7 DEF NoAnswer, IsAnswer
    <3>9. Owes(asker[a].n)'
      <4>1. in'[k].type = "GLOBAL_ANSWER" /\ in'[k].to = asker'[a].n
        BY <2>2, <2>4, <2>5, <3>6
      <4> HIDE DEF k
      <4> QED
        BY <4>1, <3>6, <3>7, <3>8 DEF Owes, IsAnswer
    <3>10. \A b \in Askers : b # a => asker[b].pc = "idle"
      BY <3>1, <3>2 DEF OneAsker
    <3> QED
      BY <2>2, <3>3, <3>4, <3>9, <3>10 DEF OneAsker
  <2> QED
    BY <2>3, <2>6
<1> HIDE DEF Goal
<1>11. Goal
  <2>1. CASE \/ \E a \in Askers : AskGlobal(a) \/ SendGlobal(a) \/ GlobalEnds(a)
             \/ ParseRequestAnswer \/ ParseNewkeys \/ WakeAll \/ PeerAnswersGlobal
    BY <2>1, <1>4, <1>5, <1>6, <1>7, <1>8, <1>9, <1>10
  <2>2. CASE ~(\/ \E a \in Askers : AskGlobal(a) \/ SendGlobal(a) \/ GlobalEnds(a)
               \/ ParseRequestAnswer \/ ParseNewkeys \/ WakeAll \/ PeerAnswersGlobal)
    <3>1. UNCHANGED asker
      BY <2>2, AskerWriters
    <3>2. UNCHANGED completion
      BY <2>2, EventWriters
    <3>3. UNCHANGED response
      BY <2>2, ResponseWriters
    <3> QED
      BY <2>2, <3>1, <3>2, <3>3, <1>3
  <2> QED
    BY <2>1, <2>2
<1> QED
  BY <1>11 DEF Goal, Undisturbed, GlobalAnswerIsOwn, Stirless

-----------------------------------------------------------------------------
LEMMA InvHolds ==
  ASSUME Init
  PROVE OpeningInv
<1>1. /\ made = 0 /\ counter = 0 /\ in = <<>> /\ Len(in) = 0 /\ Real = {}
      /\ IdSpace \in Nat \ {0} /\ None = 0 /\ 0 \in Ids
  BY SpaceFacts DEF Init, Real, None
<1>2. /\ left \in [Budgeted -> Nat] /\ left["opens"] + left["incoming"] <= IdSpace
      /\ serverMode \in BOOLEAN
  BY BudgetsAssumption, IdsAssumption, PeopleAssumption DEF Init, Budgeted
<1>3. Shape
  <2>1. FlagsOK /\ BudgetOK
    BY <1>1, <1>2 DEF Init, FlagsOK, BudgetOK, Answers
  <2>2. MapsOK
    BY <1>1 DEF Init, MapsOK
  <2>3. ChannelsOK
    BY <1>1 DEF Init, ChannelsOK, ChannelState, Made
  <2>4. ThreadOK /\ UsersOK
    BY <1>1 DEF Init, ThreadOK, UsersOK, UserPlaces
  <2>5. AskersOK
    BY <1>1 DEF Init, AskersOK, Answers
  <2>6. AccepterOK /\ WireOK
    BY <1>1 DEF Init, AccepterOK, WireOK
  <2>7. PeerOK
    BY <1>1 DEF Init, PeerOK
  <2> QED
    BY <2>1, <2>2, <2>3, <2>4, <2>5, <2>6, <2>7 DEF Shape
<1>4. Numbered
  <2>1. PICK t \in [0 .. Len(in) -> 0 .. IdSpace] : \A i \in 0 .. Len(in) : t[i] = 0
    <3> DEFINE w == [i \in 0 .. Len(in) |-> 0]
    <3>1. w \in [0 .. Len(in) -> 0 .. IdSpace] /\ \A i \in 0 .. Len(in) : w[i] = 0
      BY <1>1
    <3> QED
      BY <3>1
  <2>2. Tally(0, t)
    <3>1. t[0] = 0 /\ t[Len(in)] = 0 /\ left["opens"] \in Nat /\ left["incoming"] \in Nat
      BY <1>1, <1>2, <2>1 DEF Budgeted
    <3>2. t[Len(in)] + left["opens"] + left["incoming"] <= IdSpace
      BY <3>1, <1>2
    <3> QED
      BY <2>1, <3>1, <3>2, <1>1 DEF Tally
  <2>3. Given(0)
    BY <2>1, <2>2, <1>1 DEF Given, Tallied, Init
  <2> QED
    BY <2>3, <1>1 DEF Numbered
<1>5. Named /\ Confirmed /\ Own /\ Woken
  BY <1>1 DEF Init, Named, Confirmed, Own, Woken
<1>6. Addressed
  BY <1>1 DEF Init, Addressed, NeverUnknown
<1>7. Undisturbed
  BY <1>1 DEF Init, Undisturbed, GlobalAnswerIsOwn, OneAsker, Quiet, NoAnswer
<1> QED
  BY <1>3, <1>4, <1>5, <1>6, <1>7 DEF OpeningInv

LEMMA InvStays ==
  ASSUME OpeningInv, [Next]_vars
  PROVE OpeningInv'
<1>1. CASE Next
  BY <1>1, ShapeStays, NumberedStays, NamedStays, ConfirmedStays, OwnStays, AddressedStays,
     WokenStays, UndisturbedStays DEF OpeningInv
<1>2. CASE UNCHANGED vars
  <2> USE <1>2 DEF OpeningInv, vars, ids, calls, rest, Real
  <2>1. Shape'
    <3>1. FlagsOK' /\ BudgetOK' /\ MapsOK' /\ ChannelsOK'
      BY DEF Shape, FlagsOK, BudgetOK, MapsOK, ChannelsOK
    <3>2. ThreadOK' /\ UsersOK' /\ AskersOK'
      BY DEF Shape, ThreadOK, UsersOK, AskersOK
    <3>3. AccepterOK' /\ WireOK' /\ PeerOK'
      BY DEF Shape, AccepterOK, WireOK, PeerOK
    <3> QED
      BY <3>1, <3>2, <3>3 DEF Shape
  <2>2. Numbered'
    BY DEF Numbered, Given, Tallied, Tally
  <2>3. Named' /\ Confirmed' /\ Own' /\ Woken'
    BY DEF Named, Confirmed, Own, Woken
  <2>4. Addressed' /\ Undisturbed'
    BY DEF Addressed, NeverUnknown, Undisturbed, GlobalAnswerIsOwn, Stirless, OneAsker, Quiet,
           NoAnswer, IsAnswer, Owes
  <2> QED
    BY <2>1, <2>2, <2>3, <2>4
<1> QED
  BY <1>1, <1>2

LEMMA InvSuffices ==
  ASSUME OpeningInv
  PROVE OwnAnswers /\ NeverUnknown /\ RequestWoken
<1>1. TypeOK
  <2>1. \A i \in 1 .. Len(accepts) : accepts[i] \in 1 .. made
    <3>1. accepts \in Seq(1 .. made)
      BY DEF OpeningInv, Shape, AccepterOK
    <3> QED
      BY <3>1, SeqElement
  <2> QED
    BY <2>1 DEF OpeningInv, Shape, TypeOK, FlagsOK, MapsOK, UsersOK
<1>2. OpenIsOwn
  <2> SUFFICES ASSUME NEW u \in Openers, user[u].pc \in {"have", "clear", "ask", "await"}
               PROVE /\ chan[user[u].chan].remote = user[u].chan
                     /\ \A v \in Openers : user[v].chan = user[u].chan => v = u
    BY DEF OpenIsOwn
  <2>1. user[u].chan # None
    BY DEF OpeningInv, Shape, UsersOK
  <2> QED
    BY <2>1 DEF OpeningInv, Own
<1>3. RequestWoken
  BY DEF OpeningInv, Woken, RequestWoken
<1> QED
  BY <1>1, <1>2, <1>3 DEF OpeningInv, Undisturbed, OwnAnswers, Addressed

LEMMA InvAlways == Spec => []OpeningInv
<1> QED
  BY InvHolds, InvStays, PTL DEF Spec

\* open_channel and global_request: whoever asks the peer gets the answer to his
\* own question, whatever other threads and the peer do meanwhile.
THEOREM AskersGetTheirOwn == Spec => []OwnAnswers
<1> QED
  BY InvAlways, InvSuffices, PTL

\* The dispatch in Transport.run: a peer that keeps to the protocol is never
\* taken to speak of an unknown channel.
THEOREM PeerIsKnown == Spec => []NeverUnknown
<1> QED
  BY InvAlways, InvSuffices, PTL

\* _wait_for_event: whoever waits for an answer on a channel that is closed has
\* been woken, if the channel was still open when the wait began.
THEOREM WaitersAreWoken == Spec => []RequestWoken
<1> QED
  BY InvAlways, InvSuffices, PTL
=============================================================================
