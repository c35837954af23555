-------------------------------- MODULE Relay --------------------------------

(*********************************************************************************)
(* The loop of a relay service of wetland between the hacker's channel and the   *)
(* docker's: shell_service, exec_service, and direct_service, whose loop         *)
(* reverse_service repeats.  A channel is what Channel promises its user: bytes  *)
(* arrive in order, then end of file, then a close; a send takes what the peer's *)
(* window allows.  The bytes that come from a side are numbered from 1.          *)
(*********************************************************************************)
EXTENDS Integers, FiniteSets

Sides == {"hacker", "docker"}
Other(c) == IF c = "hacker" THEN "docker" ELSE "hacker"

\* What can be read: each side's data and the docker's stderr.
Sources == Sides \cup {"errors"}
SideOf(s) == IF s = "hacker" THEN "hacker" ELSE "docker"

CONSTANTS
    Uses,      \* what may be relayed: the `service`, the `amount` of bytes that come
               \*   from each source, the `nbytes` of the recv of each source, and the
               \*   `window`, the most bytes a side takes before its peer reads
    Drops,     \* a side may go away without end of file
    MaxStatuses   \* exit-status messages are counted up to here

Services == {"shell", "exec", "direct"}

ASSUME UsesAssumption ==
    \A u \in Uses :
        /\ u.service \in Services /\ u.window \in Nat \ {0}
        /\ u.amount \in [Sources -> Nat] /\ u.nbytes \in [Sources -> Nat \ {0}]
        /\ u.service = "shell" => u.nbytes["hacker"] = 1
ASSUME StatusAssumption == MaxStatuses \in Nat \ {0}
ASSUME DropsAssumption == Drops \in BOOLEAN

VARIABLES
    use,       \* the one of Uses at hand
    arrived,   \* bytes of a source that have arrived
    taken,     \* bytes of a source that recv or recv_stderr has returned
    eof,       \* eof_received of a side's channel
    closed,    \* closed of a side's channel
    eofSent,   \* eof_sent of a side's channel
    window,    \* out_window_size of a side's channel
    pc,        \* what the relay does next
    ready,     \* the sides whose event is still to be handled
    side,      \* the side whose event is handled
    source,    \* the source of text
    text,      \* bytes recv has returned that are not sent
    given,     \* bytes of a source sent on to the other side
    logged,    \* bytes of a source in the content log
    statuses   \* exit-status messages sent to a side

channels == <<arrived, eof, closed, window>>
event    == <<side, source>>
outcome  == <<given, logged>>
vars == <<use, channels, taken, eofSent, pc, ready, event, text, outcome, statuses>>

Service == use.service
Amount  == use.amount
ChunkOf == use.nbytes
Window  == use.window

Init ==
    /\ use \in Uses
    /\ arrived = [s \in Sources |-> 0] /\ taken = [s \in Sources |-> 0]
    /\ eof = [c \in Sides |-> FALSE] /\ closed = [c \in Sides |-> FALSE]
    /\ eofSent = [c \in Sides |-> FALSE]
    /\ window = [c \in Sides |-> Window]
    /\ pc = "poll" /\ ready = {} /\ side = "hacker" /\ source = "hacker" /\ text = {}
    /\ given = [s \in Sources |-> {}] /\ logged = [s \in Sources |-> {}]
    /\ statuses = [c \in Sides |-> 0]

Least(S) == CHOOSE x \in S : \A y \in S : x <= y
Waiting(s) == arrived[s] - taken[s]
Readable(c) == eof[c] \/ closed[c] \/ \E s \in Sources : SideOf(s) = c /\ Waiting(s) > 0

(****************************************************************************)
(* The transport threads of the two sides.                                  *)
(****************************************************************************)
Arrive(s) ==
    /\ arrived[s] < Amount[s] /\ ~eof[SideOf(s)] /\ ~closed[SideOf(s)]
    /\ arrived' = [arrived EXCEPT ![s] = @ + 1]
    /\ UNCHANGED <<eof, closed, window, taken, eofSent, pc, ready, event, text, outcome, statuses>>

EofArrives(c) ==
    /\ ~eof[c] /\ ~closed[c]
    /\ eof' = [eof EXCEPT ![c] = TRUE]
    /\ UNCHANGED <<arrived, closed, window, taken, eofSent, pc, ready, event, text, outcome,
                   statuses>>

\* A CLOSE, or the end of the side's transport.
Gone(c) ==
    /\ ~closed[c] /\ (eof[c] \/ Drops)
    /\ closed' = [closed EXCEPT ![c] = TRUE]
    /\ UNCHANGED <<arrived, eof, window, taken, eofSent, pc, ready, event, text, outcome, statuses>>

WindowAdjust(c) ==
    /\ window[c] < Window /\ ~closed[c]
    /\ window' = [window EXCEPT ![c] = @ + 1]
    /\ UNCHANGED <<arrived, eof, closed, taken, eofSent, pc, ready, event, text, outcome, statuses>>

(*****************************************************************************)
(* poll or select, then one event after the other.  epoll reports its events *)
(* in any order, select's callers look at the hacker's channel first.        *)
(*****************************************************************************)
Poll ==
    /\ pc = "poll" /\ \E c \in Sides : Readable(c)
    /\ ready' = {c \in Sides : Readable(c)}
    /\ pc' = "next"
    /\ UNCHANGED <<channels, taken, eofSent, event, text, outcome, statuses>>

NextEvent ==
    /\ pc = "next"
    /\ \E c \in ready :
         /\ Service = "direct" /\ "hacker" \in ready => c = "hacker"
         /\ side' = c
         /\ ready' = ready \ {c}
    /\ pc' = "recv"
    /\ UNCHANGED <<channels, taken, eofSent, source, text, outcome, statuses>>

Log(bytes) == logged' = [logged EXCEPT ![side] = @ \cup bytes]

Take(s) ==
    LET n == Least({Waiting(s), ChunkOf[s]}) IN
    /\ source' = s
    /\ taken' = [taken EXCEPT ![s] = @ + n]
    /\ text' = taken[s] + 1 .. taken[s] + n

\* Mutant: shell_service logs the docker's output after it has sent it.
LogsLateBoth == Service = "shell"

\* Mutant: shell_service logs a key before it has sent it.
LogsLateNever == FALSE

\* shell_service logs a key of the hacker after it has sent it; everything else
\* is logged before.
LogsLate == Service = "shell" /\ side = "hacker"

Recv ==
    /\ pc = "recv" /\ Waiting(side) > 0
    /\ Take(side)
    /\ IF LogsLate THEN UNCHANGED logged ELSE Log(text')
    /\ pc' = "send"
    /\ UNCHANGED <<channels, eofSent, ready, side, given, statuses>>

\* Where an epoll loop goes after the data of an event: the docker's stderr comes
\* after its output.
AfterData(s) == IF s = "docker" THEN "recv_stderr" ELSE "eof"

\* Without data the epoll loops skip recv; direct_service waits in it, and at the
\* end of the stream receives and sends the empty string.
RecvNothing ==
    /\ pc = "recv" /\ Waiting(side) = 0
    /\ \/ Service # "direct" /\ pc' = AfterData(side)
       \/ Service = "direct" /\ (eof[side] \/ closed[side]) /\ pc' = "send"
    /\ UNCHANGED <<channels, taken, eofSent, ready, event, text, outcome, statuses>>

\* What recv_stderr returns is not logged.
RecvStderr ==
    /\ pc = "recv_stderr"
    /\ \/ Waiting("errors") > 0 /\ Take("errors") /\ pc' = "send"
       \/ Waiting("errors") = 0 /\ pc' = "eof" /\ UNCHANGED <<taken, source, text>>
    /\ UNCHANGED <<channels, eofSent, ready, side, outcome, statuses>>

\* Mutant: a send on a closed channel returns.
SendRaisesNothing ==
    /\ pc = "send" /\ closed[Other(side)]
    /\ text' = {}
    /\ pc' = IF ready = {} THEN "docker_eof" ELSE "next"
    /\ UNCHANGED <<channels, taken, eofSent, ready, event, outcome, statuses>>

\* `socket.error: Socket is closed`
SendRaises ==
    /\ pc = "send" /\ closed[Other(side)]
    /\ pc' = "close"
    /\ UNCHANGED <<channels, taken, eofSent, ready, event, text, outcome, statuses>>

Able(c) == ~closed[c] /\ ~eofSent[c] /\ window[c] > 0

\* Mutant: one byte more than the window is sent.
FittingOneMore == {b \in text : Cardinality({a \in text : a < b}) <= window[Other(side)]}

Fitting == {b \in text : Cardinality({a \in text : a < b}) < window[Other(side)]}

Give ==
    /\ given' = [given EXCEPT ![source] = @ \cup Fitting]
    /\ window' = [window EXCEPT ![Other(side)] = @ - Cardinality(Fitting)]

\* Mutant: what does not fit in the window is dropped.
SendallOnce ==
    /\ pc = "send" /\ Service # "direct" /\ Able(Other(side))
    /\ Give
    /\ text' = {}
    /\ pc' = IF LogsLate THEN "log" ELSE AfterData(source)
    /\ UNCHANGED <<arrived, eof, closed, taken, eofSent, ready, event, logged, statuses>>

\* sendall, for as long as something is left.
Sendall ==
    /\ pc = "send" /\ Service # "direct" /\ Able(Other(side))
    /\ Give
    /\ text' = text \ Fitting
    /\ pc' = IF text' # {} THEN "send" ELSE IF LogsLate THEN "log" ELSE AfterData(source)
    /\ UNCHANGED <<arrived, eof, closed, taken, eofSent, ready, event, logged, statuses>>

\* A key that visual.txt does not know ends shell_service with a KeyError.
LogKey ==
    /\ pc = "log"
    /\ Log({taken[side]})
    /\ pc' \in {"eof", "close"}
    /\ UNCHANGED <<channels, taken, eofSent, ready, event, text, given, statuses>>

\* send reserves what fits and direct_service forgets the rest.  It blocks while
\* the window is 0, to send nothing as well, and returns 0 after shutdown_write.
Send ==
    /\ pc = "send" /\ Service = "direct"
    /\ \/ Able(Other(side)) /\ Give
       \/ ~closed[Other(side)] /\ eofSent[Other(side)] /\ UNCHANGED <<given, window>>
    /\ text' = {}
    /\ pc' = IF ready = {} THEN "docker_eof" ELSE "next"
    /\ UNCHANGED <<arrived, eof, closed, taken, eofSent, ready, event, logged, statuses>>

(********************************************************************************)
(* shutdown_write and send_exit_status on the other channel of one whose        *)
(* eof_received is set.  The epoll loops look at it after each event, and leave *)
(* after the events if either is set; direct_service looks at the docker's and  *)
(* the hacker's after the events, and leaves if both are.                       *)
(********************************************************************************)
\* Mutant: the side itself is half closed.
HalfCloseSame(c) ==
    IF eof[c]
    THEN /\ eofSent' = [eofSent EXCEPT ![c] = TRUE]
         /\ statuses' = [statuses EXCEPT ![c] = Least({@ + 1, MaxStatuses})]
    ELSE UNCHANGED <<eofSent, statuses>>

HalfClose(c) ==
    IF eof[c]
    THEN /\ eofSent' = [eofSent EXCEPT ![Other(c)] = TRUE]
         /\ statuses' = [statuses EXCEPT ![Other(c)] = Least({@ + 1, MaxStatuses})]
    ELSE UNCHANGED <<eofSent, statuses>>

EofOfEvent ==
    /\ pc = "eof"
    /\ HalfClose(side)
    /\ pc' = IF ready = {} THEN "leave" ELSE "next"
    /\ UNCHANGED <<channels, taken, ready, event, text, outcome>>

EofOfSelect ==
    \/ /\ pc = "docker_eof" /\ HalfClose("docker") /\ pc' = "hacker_eof"
       /\ UNCHANGED <<channels, taken, ready, event, text, outcome>>
    \/ /\ pc = "hacker_eof" /\ HalfClose("hacker") /\ pc' = "leave"
       /\ UNCHANGED <<channels, taken, ready, event, text, outcome>>

\* Mutant: every loop is left when both sides have ended.
FinishedBoth == eof["docker"] /\ eof["hacker"]

\* Mutant: every loop is left when one side has ended.
FinishedEither == eof["docker"] \/ eof["hacker"]

Finished ==
    IF Service = "direct" THEN eof["docker"] /\ eof["hacker"] ELSE eof["docker"] \/ eof["hacker"]

Leave ==
    /\ pc = "leave"
    /\ pc' = IF Finished THEN "close" ELSE "poll"
    /\ UNCHANGED <<channels, taken, eofSent, ready, event, text, outcome, statuses>>

\* Mutant: only the hacker's channel is closed.
CloseHackers ==
    /\ pc = "close"
    /\ closed' = [closed EXCEPT !["hacker"] = TRUE]
    /\ pc' = "done"
    /\ UNCHANGED <<arrived, eof, window, taken, eofSent, ready, event, text, outcome, statuses>>

\* finally: both channels are closed.
Close ==
    /\ pc = "close"
    /\ closed' = [c \in Sides |-> TRUE]
    /\ pc' = "done"
    /\ UNCHANGED <<arrived, eof, window, taken, eofSent, ready, event, text, outcome, statuses>>

Relays ==
    \/ Poll \/ NextEvent \/ Recv \/ RecvNothing \/ RecvStderr \/ SendRaises \/ Sendall \/ LogKey
    \/ Send \/ EofOfEvent \/ EofOfSelect \/ Leave \/ Close

Transports ==
    \/ \E s \in Sources : Arrive(s)
    \/ \E c \in Sides : EofArrives(c) \/ Gone(c) \/ WindowAdjust(c)

Next == (Relays \/ Transports) /\ UNCHANGED use

Spec == Init /\ [][Next]_vars

\* The relay's thread runs and both peers read what they are sent, or go away.
FairSpec ==
    /\ Spec /\ WF_vars(Relays /\ UNCHANGED use)
    /\ \A c \in Sides : WF_vars(WindowAdjust(c) /\ UNCHANGED use)
-----------------------------------------------------------------------------
TypeOK ==
    /\ use \in Uses
    /\ \A s \in Sources : taken[s] \in 0 .. arrived[s] /\ arrived[s] \in 0 .. Amount[s]
    /\ \A c \in Sides : window[c] \in 0 .. Window
    /\ eof \in [Sides -> BOOLEAN] /\ closed \in [Sides -> BOOLEAN] /\ eofSent \in [Sides -> BOOLEAN]
    /\ ready \subseteq Sides /\ side \in Sides /\ source \in Sources
    /\ \A s \in Sources : given[s] \subseteq 1 .. taken[s] /\ logged[s] \subseteq 1 .. taken[s]
    /\ text \subseteq 1 .. taken[source]
    /\ statuses \in [Sides -> 0 .. MaxStatuses]

Prefix(S) == S = 1 .. Cardinality(S)

(* What a side is sent is what the other side sent, without a hole, however the *)
(* windows cut a sendall and wherever a close ends it; direct_service, which    *)
(* forgets what a send did not take, keeps to it where everything fits in the   *)
(* window.                                                                      *)
Lossless == Service # "direct" \/ \A s \in Sources : Amount[s] <= Window

NoHole == Lossless => \A s \in Sources : Prefix(given[s])

(* The hacker is never shown output of the docker that the content log misses, *)
(* its stderr apart.                                                           *)
ShownIsLogged == given["docker"] \subseteq logged["docker"]

(* A key is in the content log of a shell only if the docker was sent it.   *)
KeyLoggedWasSent == Service = "shell" => logged["hacker"] \subseteq given["hacker"]

(* A service never calls sendall after it has shut down writing itself, where *)
(* sendall would never return (Spinning of Channel).                          *)
NoSendallAfterShutdown ==
    pc = "send" /\ Service # "direct" /\ text # {} => ~eofSent[Other(side)]

(* A session gets one exit status at most: the epoll loops are left after the *)
(* round that sent it.                                                        *)
OneExitStatus == Service # "direct" => \A c \in Sides : statuses[c] <= 1

(* When a side ends, shell_service and exec_service end and close both channels, *)
(* so neither peer is left with half a session.                                  *)
EofEnds ==
    \A c \in Sides : eof[c] /\ Service # "direct" ~> \A d \in Sides : closed[d]

(* A forwarded connection that one side has half closed goes on: direct_service *)
(* does not end before both sides have ended or one is closed.                  *)
NotCutShort ==
    Service = "direct" /\ pc = "close" =>
        (\A c \in Sides : eof[c]) \/ \E c \in Sides : closed[c]

(* direct_service ends when both transports have died, end of file or not.  *)
BothGoneEnds ==
    Service = "direct" /\ closed["hacker"] /\ closed["docker"] ~> pc = "done"

(* What a service passes on and writes down is whole: shell_service and        *)
(* exec_service skip nothing, no key is logged that was not sent, and          *)
(* direct_service goes on after the end of one side.                           *)
StreamsWhole == TypeOK /\ NoHole /\ KeyLoggedWasSent /\ NotCutShort

(* The loop of a service ends with its sides.                                  *)
LoopEnds == EofEnds /\ BothGoneEnds
=============================================================================
