---------------------------- MODULE SessionProofs ----------------------------

(*********************************************************************************)
(* Proofs about a session of the hacker: first about the loops of its services,  *)
(* in Relay, for any amount of data, windows and read sizes; then about its      *)
(* channels and threads, in Session, for any number of channels and any wishes.  *)
(*********************************************************************************)
EXTENDS Relay, Session, FiniteSetTheorems, TLAPS

LEMMA SidesFacts ==
    /\ \A c \in Sides : Other(c) \in Sides /\ Other(c) # c /\ Other(Other(c)) = c
    /\ \A c, d \in Sides : d # c => d = Other(c)
    /\ Sides \subseteq Sources /\ "errors" \in Sources
BY DEF Sides, Other, Sources

LEMMA LeastOfTwo ==
    ASSUME NEW a \in Nat, NEW b \in Nat
    PROVE  /\ Least({a, b}) \in {a, b}
           /\ Least({a, b}) <= a /\ Least({a, b}) <= b
<1>1. \E x \in {a, b} : \A y \in {a, b} : x <= y
  <2>1. CASE a <= b
    BY <2>1
  <2>2. CASE b <= a
    BY <2>2
  <2> QED
    BY <2>1, <2>2
<1> QED
  BY <1>1 DEF Least

-----------------------------------------------------------------------------

(* One round of an epoll loop.  While side c is being handled, or still is to  *)
(* be, in this round, no exit status was sent to the other side; once one was, *)
(* c has ended, and the loop does not get back to poll.                        *)
Handling == {"recv", "recv_stderr", "send", "log", "eof"}

NotTold(c) == statuses[Other(c)] = 0 /\ eofSent[Other(c)] = FALSE

Told(c) ==
    /\ statuses[Other(c)] = 1 /\ eof[c] = TRUE
    /\ pc # "poll" /\ c \notin ready
    /\ side = c => pc \notin Handling

RoundType ==
    /\ side \in Sides /\ ready \subseteq Sides
    /\ statuses \in [Sides -> Nat]
    /\ eofSent \in [Sides -> BOOLEAN] /\ eof \in [Sides -> BOOLEAN]
    /\ pc \notin {"docker_eof", "hacker_eof"}
    /\ pc \in Handling => side \notin ready

RoundInv == Service # "direct" => RoundType /\ \A c \in Sides : NotTold(c) \/ Told(c)

LEMMA RoundInit == Init => RoundInv
<1> SUFFICES ASSUME Init PROVE RoundInv
  OBVIOUS
<1>1. RoundType
  BY DEF Init, RoundType, Sides, Handling
<1>2. \A c \in Sides : NotTold(c)
  BY SidesFacts DEF Init, NotTold
<1> QED
  BY <1>1, <1>2 DEF RoundInv

LEMMA RoundStep == RoundInv /\ [Next]_vars => RoundInv'
<1> SUFFICES ASSUME Service # "direct", RoundType, \A c \in Sides : NotTold(c) \/ Told(c),
                    [Next]_vars
             PROVE  RoundType' /\ \A c \in Sides : NotTold(c)' \/ Told(c)'
  <2>1. [Next]_vars => Service' = Service
    BY DEF Next, vars, Service
  <2> QED
    BY <2>1 DEF RoundInv
<1> USE SidesFacts DEF RoundType, channels, outcome, event
\* Steps that touch neither the exit statuses nor the round.
<1>a. ASSUME UNCHANGED <<eof, eofSent, statuses, ready, side>>,
             pc' # "poll", pc' \notin Handling \/ pc \in Handling,
             pc' \notin {"docker_eof", "hacker_eof"}
      PROVE  RoundType' /\ \A c \in Sides : NotTold(c)' \/ Told(c)'
  BY <1>a DEF NotTold, Told
<1>1. ASSUME NEW s \in Sources, Arrive(s) PROVE RoundType' /\ \A c \in Sides : NotTold(c)' \/ Told(c)'
  BY <1>1 DEF Arrive, NotTold, Told, Handling
<1>2. ASSUME NEW d \in Sides, EofArrives(d) PROVE RoundType' /\ \A c \in Sides : NotTold(c)' \/ Told(c)'
  BY <1>2 DEF EofArrives, NotTold, Told, Handling
<1>3. ASSUME NEW d \in Sides, Gone(d) PROVE RoundType' /\ \A c \in Sides : NotTold(c)' \/ Told(c)'
  BY <1>3 DEF Gone, NotTold, Told, Handling
<1>4. ASSUME NEW d \in Sides, WindowAdjust(d) PROVE RoundType' /\ \A c \in Sides : NotTold(c)' \/ Told(c)'
  BY <1>4 DEF WindowAdjust, NotTold, Told, Handling
<1>5. CASE Poll
  <2>1. \A c \in Sides : NotTold(c)
    BY <1>5 DEF Poll, Told
  <2> QED
    BY <1>5, <2>1 DEF Poll, NotTold, Handling
<1>6. CASE NextEvent
  BY <1>6 DEF NextEvent, NotTold, Told, Handling
<1>7. CASE Recv
  BY <1>7, <1>a DEF Recv, Handling
<1>8. CASE RecvNothing
  BY <1>8, <1>a DEF RecvNothing, AfterData, Handling
<1>9. CASE RecvStderr
  BY <1>9, <1>a DEF RecvStderr, Handling
<1>10. CASE SendRaises
  BY <1>10, <1>a DEF SendRaises, Handling
<1>11. CASE Sendall
  BY <1>11, <1>a DEF Sendall, AfterData, Handling
<1>12. CASE LogKey
  BY <1>12, <1>a DEF LogKey, Handling
<1>13. CASE Send
  BY <1>13 DEF Send
<1>14. CASE EofOfEvent
  <2>1. NotTold(side)
    BY <1>14 DEF EofOfEvent, Told, Handling
  <2>2. CASE eof[side] = TRUE
    <3>1. Least({0 + 1, MaxStatuses}) = 1
      BY StatusAssumption, LeastOfTwo
    <3>2. /\ eofSent' = [eofSent EXCEPT ![Other(side)] = TRUE]
          /\ statuses' = [statuses EXCEPT ![Other(side)] = Least({@ + 1, MaxStatuses})]
      BY <1>14, <2>2 DEF EofOfEvent, HalfClose
    <3>3. statuses' = [statuses EXCEPT ![Other(side)] = 1]
      BY <2>1, <3>1, <3>2 DEF NotTold
    <3>4. UNCHANGED <<eof, ready, side>> /\ pc' = IF ready = {} THEN "leave" ELSE "next"
      BY <1>14 DEF EofOfEvent
    <3>5. Told(side)'
      BY <1>14, <2>2, <3>3, <3>4 DEF EofOfEvent, Told, Handling
    <3> QED
      BY <3>2, <3>3, <3>4, <3>5 DEF NotTold, Told, Handling
  <2>3. CASE eof[side] = FALSE
    <3>1. UNCHANGED <<eofSent, statuses>>
      BY <1>14, <2>3 DEF EofOfEvent, HalfClose
    <3> QED
      BY <1>14, <3>1, <1>a DEF EofOfEvent, Handling
  <2> QED
    BY <2>2, <2>3
<1>15. CASE EofOfSelect
  BY <1>15 DEF EofOfSelect
<1>16. CASE Leave
  BY <1>16 DEF Leave, Finished, NotTold, Told, Sides, Handling
<1>17. CASE Close
  BY <1>17, <1>a DEF Close, Handling
<1>18. CASE UNCHANGED vars
  BY <1>18 DEF vars, NotTold, Told, Handling
<1> QED
  BY <1>1, <1>2, <1>3, <1>4, <1>5, <1>6, <1>7, <1>8, <1>9, <1>10, <1>11, <1>12, <1>13, <1>14,
     <1>15, <1>16, <1>17, <1>18 DEF Next, Relays, Transports

LEMMA RoundsAreSound == Spec => []RoundInv
BY RoundInit, RoundStep, PTL DEF Spec

(* A session gets one exit status at most, for any amount of data.          *)
THEOREM StatusIsSentOnce == Spec => []OneExitStatus
<1>1. RoundInv => OneExitStatus
  <2> SUFFICES ASSUME RoundInv, Service # "direct", NEW c \in Sides PROVE statuses[c] <= 1
    BY DEF OneExitStatus
  <2>1. NotTold(Other(c)) \/ Told(Other(c))
    BY SidesFacts DEF RoundInv
  <2>2. statuses[c] = 0 \/ statuses[c] = 1
    BY <2>1, SidesFacts DEF NotTold, Told
  <2> QED
    BY <2>2
<1> QED
  BY <1>1, RoundsAreSound, PTL

(* Neither shell_service nor exec_service can be caught in a sendall that spins *)
(* after shutdown_write, for any amount of data.                                *)
THEOREM SendallReturns == Spec => []NoSendallAfterShutdown
<1>1. RoundInv => NoSendallAfterShutdown
  <2> SUFFICES ASSUME RoundInv, Service # "direct", pc = "send" PROVE ~eofSent[Other(side)]
    BY DEF NoSendallAfterShutdown
  <2>1. side \in Sides /\ (NotTold(side) \/ Told(side))
    BY DEF RoundInv, RoundType
  <2> QED
    BY <2>1 DEF NotTold, Told, Handling
<1> QED
  BY <1>1, RoundsAreSound, PTL

-----------------------------------------------------------------------------

(* What is shown is logged: the docker's output is in the content log before *)
(* any of it is sent, and stays there.                                       *)
LogInv ==
    /\ side \in Sides /\ ready \subseteq Sides
    /\ DOMAIN given = Sources /\ DOMAIN logged = Sources
    /\ given["docker"] \subseteq logged["docker"]
    /\ source = "docker" => text \subseteq logged["docker"]

LEMMA LogStep == LogInv /\ [Next]_vars => LogInv'
<1> SUFFICES ASSUME LogInv, [Next]_vars PROVE LogInv'
  OBVIOUS
<1> USE SidesFacts DEF LogInv, channels, outcome, event
<1>1. ASSUME NEW s \in Sources, Arrive(s) PROVE LogInv'
  BY <1>1 DEF Arrive
<1>2. ASSUME NEW d \in Sides, EofArrives(d) PROVE LogInv'
  BY <1>2 DEF EofArrives
<1>3. ASSUME NEW d \in Sides, Gone(d) PROVE LogInv'
  BY <1>3 DEF Gone
<1>4. ASSUME NEW d \in Sides, WindowAdjust(d) PROVE LogInv'
  BY <1>4 DEF WindowAdjust
<1>5. CASE Poll
  BY <1>5 DEF Poll
<1>6. CASE NextEvent
  BY <1>6 DEF NextEvent
<1>7. CASE Recv
  <2>1. source' = side /\ UNCHANGED <<side, ready, given>>
    BY <1>7 DEF Recv, Take
  <2>2. CASE LogsLate
    <3>1. side # "docker" /\ UNCHANGED logged
      BY <1>7, <2>2 DEF Recv, LogsLate
    <3> QED
      BY <2>1, <3>1
  <2>3. CASE ~LogsLate
    <3>1. logged' = [logged EXCEPT ![side] = @ \cup text']
      BY <1>7, <2>3 DEF Recv, Log
    <3> QED
      BY <2>1, <3>1
  <2> QED
    BY <2>2, <2>3
<1>8. CASE RecvNothing
  BY <1>8 DEF RecvNothing
<1>9. CASE RecvStderr
  BY <1>9 DEF RecvStderr, Take
<1>10. CASE SendRaises
  BY <1>10 DEF SendRaises
<1>11. CASE Sendall
  <2>1. PICK S : given' = [given EXCEPT ![source] = @ \cup S] /\ S \subseteq text
    BY <1>11 DEF Sendall, Give, Fitting
  <2>2. UNCHANGED <<side, source, ready, logged>> /\ text' \subseteq text
    BY <1>11 DEF Sendall
  <2> QED
    BY <2>1, <2>2
<1>12. CASE LogKey
  <2>1. PICK S : logged' = [logged EXCEPT ![side] = @ \cup S]
    <3>1. logged' = [logged EXCEPT ![side] = @ \cup {taken[side]}]
      BY <1>12 DEF LogKey, Log
    <3> WITNESS {taken[side]}
    <3> QED
      BY <3>1
  <2>2. UNCHANGED <<side, source, ready, given, text>>
    BY <1>12 DEF LogKey
  <2> QED
    BY <2>1, <2>2
<1>13. CASE Send
  <2>1. PICK S : \/ given' = [given EXCEPT ![source] = @ \cup S] /\ S \subseteq text
                \/ given' = given
    <3>1. Fitting \subseteq text
      BY DEF Fitting
    <3>2. given' = [given EXCEPT ![source] = @ \cup Fitting] \/ given' = given
      BY <1>13 DEF Send, Give
    <3> WITNESS Fitting
    <3> QED
      BY <3>1, <3>2
  <2>2. UNCHANGED <<side, source, ready, logged>> /\ text' \subseteq text
    BY <1>13 DEF Send
  <2>3. CASE given' = given
    BY <2>2, <2>3
  <2>4. CASE given' = [given EXCEPT ![source] = @ \cup S] /\ S \subseteq text
    BY <2>2, <2>4
  <2> QED
    BY <2>1, <2>3, <2>4
<1>14. CASE EofOfEvent
  BY <1>14 DEF EofOfEvent
<1>15. CASE EofOfSelect
  BY <1>15 DEF EofOfSelect
<1>16. CASE Leave
  BY <1>16 DEF Leave
<1>17. CASE Close
  BY <1>17 DEF Close
<1>18. CASE UNCHANGED vars
  BY <1>18 DEF vars
<1> QED
  BY <1>1, <1>2, <1>3, <1>4, <1>5, <1>6, <1>7, <1>8, <1>9, <1>10, <1>11, <1>12, <1>13, <1>14,
     <1>15, <1>16, <1>17, <1>18 DEF Next, Relays, Transports

(* Whatever the hacker is shown of the docker's output is in the content log. *)
THEOREM OutputIsLogged == Spec => []ShownIsLogged
<1>1. Init => LogInv
  BY SidesFacts DEF Init, LogInv, Sides
<1>2. LogInv => ShownIsLogged
  BY DEF LogInv, ShownIsLogged
<1> QED
  BY <1>1, <1>2, LogStep, PTL DEF Spec

-----------------------------------------------------------------------------
(****************************************************************************)
(* What is passed on is whole.  What a recv has returned is the stretch     *)
(* behind what was sent before, a sendall sends its beginning, and nothing  *)
(* else is received before all of it is sent or the service is over.        *)
(****************************************************************************)
Over == {"close", "done"}
Places == {"poll", "next", "recv", "recv_stderr", "send", "log", "eof",
           "docker_eof", "hacker_eof", "leave"} \cup Over

StreamType ==
    /\ use \in Uses /\ pc \in Places
    /\ arrived \in [Sources -> Nat] /\ taken \in [Sources -> Nat]
    /\ \A s \in Sources : taken[s] <= arrived[s] /\ arrived[s] <= Amount[s]
    /\ window \in [Sides -> 0 .. Window]
    /\ eof \in [Sides -> BOOLEAN] /\ closed \in [Sides -> BOOLEAN] /\ eofSent \in [Sides -> BOOLEAN]
    /\ ready \subseteq Sides /\ side \in Sides /\ source \in Sources
    /\ given \in [Sources -> SUBSET Nat] /\ logged \in [Sources -> SUBSET Nat]
    /\ statuses \in [Sides -> 0 .. MaxStatuses]

\* The loops do not get into each other's code.
Code ==
    /\ pc \in {"recv_stderr", "log", "eof"} => Service # "direct"
    /\ pc \in {"docker_eof", "hacker_eof"} => Service = "direct"
    /\ pc = "recv_stderr" => side = "docker"
    /\ pc = "log" => Service = "shell" /\ side = "hacker" /\ taken["hacker"] > 0

\* What a recv has returned and is not sent.
TextIs(k) == text = k + 1 .. taken[source]

Holding ==
    /\ text \subseteq 1 .. taken[source]
    /\ pc \notin {"send"} \cup Over => text = {}
    /\ pc = "send" => \E k \in 0 .. taken[source] : TextIs(k)
    /\ pc = "send" /\ text # {} => SideOf(source) = side
    /\ pc = "send" /\ Service # "direct" => text # {}
    /\ Service = "direct" => source # "errors" /\ given["errors"] = {} /\ taken["errors"] = 0

Whole(s) == given[s] = 1 .. taken[s]
Pending(s) == \E k \in 0 .. taken[s] : given[s] = 1 .. k /\ TextIs(k)

OnItsWay(s) == pc = "send" /\ s = source /\ text # {}

\* After shutdown_write direct_service sends nothing more.
ShutDown(s) == Service = "direct" /\ s \in Sides /\ eofSent[Other(s)]

Passed ==
    Lossless => \A s \in Sources :
        /\ \E k \in 0 .. taken[s] : given[s] = 1 .. k
        /\ \/ pc \in Over \/ ShutDown(s)
           \/ OnItsWay(s) /\ Pending(s)
           \/ ~OnItsWay(s) /\ Whole(s)

\* What is missing from a window was sent.
WindowLeft ==
    Service = "direct" /\ Lossless => \A c \in Sides : \E k \in 0 .. taken[c] :
        given[c] = 1 .. k /\ window[Other(c)] + k >= Window

\* What is sent or logged has been received.
Received == \A s \in Sources : given[s] \subseteq 1 .. taken[s] /\ logged[s] \subseteq 1 .. taken[s]

StreamInv ==
    /\ StreamType /\ Code /\ Holding /\ Passed /\ WindowLeft
    /\ Received /\ KeyLoggedWasSent /\ NotCutShort

LEMMA IntervalSize ==
    ASSUME NEW k \in Nat, NEW n \in Nat, k <= n
    PROVE  Cardinality(k + 1 .. n) = n - k
<1>1. CASE k = n
  <2>1. k + 1 .. n = {}
    BY <1>1
  <2> QED
    BY <1>1, <2>1, FS_EmptySet
<1>2. CASE k < n
  BY <1>2, FS_Interval
<1> QED
  BY <1>1, <1>2

LEMMA PrefixIs ==
    ASSUME NEW k \in Nat
    PROVE  Prefix(1 .. k)
<1>1. Cardinality(0 + 1 .. k) = k - 0
  BY IntervalSize
<1> QED
  BY <1>1 DEF Prefix

\* What fits in a window is the beginning of the text.
LEMMA FittingIs ==
    ASSUME NEW k \in Nat, NEW n \in Nat, k <= n, text = k + 1 .. n,
           window[Other(side)] \in Nat
    PROVE  LET w == window[Other(side)]
               m == IF n <= k + w THEN n ELSE k + w
           IN  /\ Fitting = k + 1 .. m /\ m \in k .. n /\ Cardinality(Fitting) = m - k
               /\ Cardinality(Fitting) <= w /\ Cardinality(Fitting) \in Nat
               /\ text \ Fitting = m + 1 .. n
               /\ w > 0 /\ k < n => k < m
<1> DEFINE w == window[Other(side)]
           m == IF n <= k + w THEN n ELSE k + w
<1>1. ASSUME NEW b \in text PROVE Cardinality({a \in text : a < b}) = b - 1 - k
  <2>1. {a \in text : a < b} = k + 1 .. b - 1 /\ b - 1 \in Nat /\ k <= b - 1
    BY <1>1
  <2> QED
    BY <2>1, IntervalSize
<1>2. Fitting = {b \in text : b - 1 - k < w}
  BY <1>1 DEF Fitting
<1>3. m \in k .. n /\ m \in Nat
  OBVIOUS
<1>4. Fitting = k + 1 .. m
  BY <1>2, <1>3
<1>5. Cardinality(Fitting) = m - k
  BY <1>3, <1>4, IntervalSize
<1>6. text \ Fitting = m + 1 .. n
  BY <1>3, <1>4
<1> QED
  BY <1>3, <1>4, <1>5, <1>6

-----------------------------------------------------------------------------
\* A step that moves no data.
LEMMA NoData ==
    ASSUME StreamInv, UNCHANGED <<use, taken, text, source, given, logged>>,
           StreamType', Code', NotCutShort',
           \A c \in Sides : (eofSent[c] => eofSent'[c]) /\ window'[c] >= window[c],
           \/ pc' \in Over
           \/ pc' # "send" /\ pc \notin {"send"} \cup Over
           \/ pc' = "send" /\ pc = "send" /\ side' = side
           \/ pc' = "send" /\ pc \notin {"send"} \cup Over /\ Service = "direct"
    PROVE  StreamInv'
<1> USE DEF StreamInv
<1>1. Holding'
  <2>1. text \subseteq 1 .. taken[source] /\ (Service = "direct" => source # "errors" /\ given["errors"] = {} /\ taken["errors"] = 0)
    BY DEF Holding
  <2>2. pc' \notin {"send"} \cup Over => text' = {}
    BY DEF Holding
  <2>3. pc' = "send" => /\ \E k \in 0 .. taken[source] : TextIs(k)
                        /\ text # {} => SideOf(source) = side'
                        /\ Service # "direct" => text # {}
    <3>1. CASE pc = "send" /\ side' = side
      BY <3>1 DEF Holding
    <3>2. CASE pc \notin {"send"} \cup Over /\ Service = "direct"
      <4>1. text = {} /\ taken[source] \in Nat
        BY <3>2 DEF Holding, StreamType
      <4>2. TextIs(taken[source])
        BY <4>1 DEF TextIs
      <4> QED
        BY <3>2, <4>1, <4>2
    <3> QED
      BY <3>1, <3>2 DEF Over
  <2> QED
    BY <2>1, <2>2, <2>3 DEF Holding, TextIs, Service
<1>2. Lossless' = Lossless /\ Service' = Service
  BY DEF Lossless, Service, Amount, Window
<1>3. ASSUME Lossless, NEW s \in Sources
      PROVE  /\ \E k \in 0 .. taken[s] : given[s] = 1 .. k
             /\ \/ pc' \in Over \/ ShutDown(s)'
                \/ OnItsWay(s)' /\ Pending(s)
                \/ ~OnItsWay(s)' /\ Whole(s)
  <2>1. \E k \in 0 .. taken[s] : given[s] = 1 .. k
    BY <1>3 DEF Passed
  <2>2. \/ pc \in Over \/ ShutDown(s)
        \/ OnItsWay(s) /\ Pending(s)
        \/ ~OnItsWay(s) /\ Whole(s)
    BY <1>3 DEF Passed
  <2>3. CASE ShutDown(s)
    BY <2>1, <2>3, <1>2, SidesFacts DEF ShutDown
  <2>4. CASE OnItsWay(s) /\ Pending(s)
    <3>1. pc' \in Over \/ pc' = "send"
      BY <2>4 DEF OnItsWay, Over
    <3> QED
      BY <2>1, <2>4, <3>1 DEF OnItsWay
  <2>5. CASE ~OnItsWay(s) /\ Whole(s)
    <3>1. pc' \in Over \/ ~OnItsWay(s)'
      BY <2>5 DEF OnItsWay, Holding
    <3> QED
      BY <2>1, <2>5, <3>1
  <2>6. CASE pc \in Over
    <3>1. pc' \in Over
      BY <2>6 DEF Over
    <3> QED
      BY <2>1, <3>1
  <2> QED
    BY <2>2, <2>3, <2>4, <2>5, <2>6
<1>4. Passed'
  BY <1>2, <1>3 DEF Passed, Whole, Pending, TextIs
<1>5. WindowLeft'
  <2> SUFFICES ASSUME Service = "direct", Lossless, NEW c \in Sides
               PROVE  \E k \in 0 .. taken[c] : given[c] = 1 .. k /\ window'[Other(c)] + k >= Window
    BY <1>2 DEF WindowLeft, Window
  <2>1. PICK k \in 0 .. taken[c] : given[c] = 1 .. k /\ window[Other(c)] + k >= Window
    BY DEF WindowLeft
  <2>2. window[Other(c)] \in Nat /\ window'[Other(c)] \in Nat /\ window'[Other(c)] >= window[Other(c)]
          /\ Window \in Nat
    BY SidesFacts, UsesAssumption DEF StreamType, Window
  <2> QED
    BY <2>1, <2>2
<1>6. Received' /\ KeyLoggedWasSent'
  BY <1>2 DEF Received, KeyLoggedWasSent
<1> QED
  BY <1>1, <1>4, <1>5, <1>6

LEMMA TransportsKeep ==
    ASSUME StreamInv, Transports, UNCHANGED use
    PROVE  StreamInv'
<1> USE DEF channels, event, outcome
<1>1. /\ UNCHANGED <<taken, text, source, given, logged, eofSent, pc, side, ready, statuses>>
      /\ \A c \in Sides : (closed[c] => closed'[c]) /\ (eof[c] => eof'[c]) /\ window'[c] >= window[c]
  <2>1. ASSUME NEW c \in Sides, WindowAdjust(c) PROVE \A d \in Sides : window'[d] >= window[d]
    BY <2>1 DEF WindowAdjust, StreamInv, StreamType
  <2>2. \A d \in Sides : window[d] \in Int
    BY DEF StreamInv, StreamType
  <2> QED
    BY <2>1, <2>2 DEF Transports, Arrive, EofArrives, Gone, WindowAdjust, StreamInv, StreamType
<1>2. StreamType'
  <2>1. ASSUME NEW s \in Sources, Arrive(s) PROVE StreamType'
    <3>1. arrived' = [arrived EXCEPT ![s] = @ + 1] /\ arrived \in [Sources -> Nat] /\ arrived[s] < Amount[s]
      BY <2>1 DEF Arrive, StreamInv, StreamType
    <3>2. Amount[s] \in Nat /\ taken \in [Sources -> Nat] /\ Amount' = Amount
      BY UsesAssumption DEF StreamInv, StreamType, Amount
    <3>3. arrived' \in [Sources -> Nat]
            /\ \A t \in Sources : taken[t] <= arrived'[t] /\ arrived'[t] <= Amount[t]
      BY <3>1, <3>2 DEF StreamInv, StreamType
    <3> QED
      BY <1>1, <2>1, <3>2, <3>3 DEF Arrive, StreamInv, StreamType, Window
  <2>2. ASSUME NEW c \in Sides, EofArrives(c) PROVE StreamType'
    BY <1>1, <2>2 DEF EofArrives, StreamInv, StreamType, Window, Amount
  <2>3. ASSUME NEW c \in Sides, Gone(c) PROVE StreamType'
    BY <1>1, <2>3 DEF Gone, StreamInv, StreamType, Window, Amount
  <2>4. ASSUME NEW c \in Sides, WindowAdjust(c) PROVE StreamType'
    <3>1. window \in [Sides -> 0 .. Window] /\ window[c] < Window /\ Window \in Nat
          /\ window' = [window EXCEPT ![c] = @ + 1]
      BY <2>4, UsesAssumption DEF WindowAdjust, StreamInv, StreamType, Window
    <3>2. window' \in [Sides -> 0 .. Window]
      BY <3>1
    <3> QED
      BY <1>1, <2>4, <3>2 DEF WindowAdjust, StreamInv, StreamType, Window, Amount
  <2> QED
    BY <2>1, <2>2, <2>3, <2>4 DEF Transports
<1>3. Code'
  BY <1>1 DEF StreamInv, Code, Service
<1>4. NotCutShort'
  BY <1>1 DEF StreamInv, NotCutShort, Service
<1>5. pc \in Over \/ pc = "send" \/ pc \notin {"send"} \cup Over
  OBVIOUS
<1> QED
  BY <1>1, <1>2, <1>3, <1>4, <1>5, NoData

\* half closes.
LEMMA HalfCloseType ==
    ASSUME StreamInv, NEW c \in Sides, HalfClose(c)
    PROVE  /\ eofSent' \in [Sides -> BOOLEAN] /\ statuses' \in [Sides -> 0 .. MaxStatuses]
           /\ \A d \in Sides : eofSent[d] => eofSent'[d]
<1>1. Other(c) \in Sides /\ eofSent \in [Sides -> BOOLEAN] /\ statuses \in [Sides -> 0 .. MaxStatuses]
  BY SidesFacts DEF StreamInv, StreamType
<1>2. Least({statuses[Other(c)] + 1, MaxStatuses}) \in 0 .. MaxStatuses
  <2>1. statuses[Other(c)] + 1 \in Nat /\ MaxStatuses \in Nat
    BY <1>1, StatusAssumption
  <2> QED
    BY <2>1, LeastOfTwo
<1>3. CASE eof[c]
  <2>1. /\ eofSent' = [eofSent EXCEPT ![Other(c)] = TRUE]
        /\ statuses' = [statuses EXCEPT ![Other(c)] = Least({statuses[Other(c)] + 1, MaxStatuses})]
    BY <1>3 DEF HalfClose
  <2> QED
    BY <1>1, <1>2, <2>1
<1>4. CASE ~eof[c]
  BY <1>1, <1>4 DEF HalfClose
<1> QED
  BY <1>3, <1>4

Control == Poll \/ NextEvent \/ RecvNothing \/ SendRaises \/ EofOfEvent \/ EofOfSelect \/ Leave \/ Close

LEMMA ControlKeeps ==
    ASSUME StreamInv, Control, UNCHANGED use
    PROVE  StreamInv'
<1> USE DEF channels, event, outcome
<1>1. UNCHANGED <<taken, text, source, given, logged, arrived, eof, window>>
  BY DEF Control, Poll, NextEvent, RecvNothing, SendRaises, EofOfEvent, EofOfSelect, Leave, Close
<1>2. /\ eofSent' \in [Sides -> BOOLEAN] /\ statuses' \in [Sides -> 0 .. MaxStatuses]
      /\ \A d \in Sides : eofSent[d] => eofSent'[d]
  <2>1. CASE EofOfEvent
    BY <2>1, HalfCloseType DEF EofOfEvent, StreamInv, StreamType
  <2>2. CASE EofOfSelect
    <3>1. "docker" \in Sides /\ "hacker" \in Sides
      BY DEF Sides
    <3>2. HalfClose("docker") \/ HalfClose("hacker")
      BY <2>2 DEF EofOfSelect
    <3> QED
      BY <3>1, <3>2, HalfCloseType
  <2>3. CASE UNCHANGED <<eofSent, statuses>>
    BY <2>3 DEF StreamInv, StreamType
  <2> QED
    BY <2>1, <2>2, <2>3 DEF Control, Poll, NextEvent, RecvNothing, SendRaises, Leave, Close
<1>3. closed' \in [Sides -> BOOLEAN] /\ \A c \in Sides : closed[c] => closed'[c]
  BY DEF Control, Poll, NextEvent, RecvNothing, SendRaises, EofOfEvent, EofOfSelect, Leave, Close,
         StreamInv, StreamType
<1>4. ready' \subseteq Sides /\ side' \in Sides
  BY DEF Control, Poll, NextEvent, RecvNothing, SendRaises, EofOfEvent, EofOfSelect, Leave, Close,
         StreamInv, StreamType
<1>5. pc' \in Places
  BY DEF Control, Poll, NextEvent, RecvNothing, SendRaises, EofOfEvent, EofOfSelect, Leave, Close,
         AfterData, Places, Over
<1>6. StreamType'
  BY <1>1, <1>2, <1>3, <1>4, <1>5 DEF StreamInv, StreamType, Window, Amount
<1>7. Code'
  BY <1>1, SidesFacts
     DEF Control, Poll, NextEvent, RecvNothing, SendRaises, EofOfEvent, EofOfSelect, Leave, Close,
         AfterData, StreamInv, Code, StreamType, Service
<1>8. NotCutShort'
  <2>1. CASE Leave
    <3>1. Service = "direct" /\ pc' = "close" => eof["docker"] /\ eof["hacker"]
      BY <2>1 DEF Leave, Finished
    <3> QED
      BY <1>1, <3>1 DEF NotCutShort, Sides, Service
  <2>2. CASE SendRaises
    BY <2>2, SidesFacts DEF SendRaises, NotCutShort, StreamInv, StreamType
  <2>3. CASE ~Leave /\ ~SendRaises
    <3>1. pc' # "close"
      BY <2>3 DEF Control, Poll, NextEvent, RecvNothing, EofOfEvent, EofOfSelect, Close, AfterData
    <3> QED
      BY <3>1 DEF NotCutShort
  <2> QED
    BY <2>1, <2>2, <2>3
<1>9. \/ pc' \in Over
      \/ pc' # "send" /\ pc \notin {"send"} \cup Over
      \/ pc' = "send" /\ pc \notin {"send"} \cup Over /\ Service = "direct"
  BY DEF Control, Poll, NextEvent, RecvNothing, SendRaises, EofOfEvent, EofOfSelect, Leave, Close,
         AfterData, Over
<1>10. \A c \in Sides : window'[c] >= window[c]
  BY <1>1 DEF StreamInv, StreamType
<1> QED
  BY <1>1, <1>2, <1>6, <1>7, <1>8, <1>9, <1>10, NoData

-----------------------------------------------------------------------------
\* recv and recv_stderr, with something to receive.
LEMMA Receiving ==
    ASSUME StreamInv, pc \in {"recv", "recv_stderr"}, NEW s \in Sources, Waiting(s) > 0, Take(s),
           pc' = "send", SideOf(s) = side, Service = "direct" => s # "errors",
           UNCHANGED <<use, arrived, eof, closed, window, eofSent, ready, side, given, statuses>>,
           logged' \in [Sources -> SUBSET Nat], \A t \in Sources : logged'[t] \subseteq 1 .. taken'[t],
           KeyLoggedWasSent'
    PROVE  StreamInv'
<1> USE DEF StreamInv
<1> DEFINE n == Least({Waiting(s), ChunkOf[s]})
<1>0. n \in Nat \ {0} /\ n <= Waiting(s)
  <2>1. ChunkOf[s] \in Nat \ {0} /\ arrived[s] \in Nat /\ taken[s] \in Nat
    BY UsesAssumption DEF StreamType, ChunkOf
  <2>2. Waiting(s) \in Nat \ {0}
    BY <2>1 DEF Waiting
  <2> QED
    BY <2>1, <2>2, LeastOfTwo
<1>1. /\ taken' = [taken EXCEPT ![s] = taken[s] + n] /\ text' = taken[s] + 1 .. taken[s] + n
      /\ taken[s] + n <= arrived[s]
  <2>1. arrived[s] \in Nat /\ taken[s] \in Nat
    BY DEF StreamType
  <2> QED
    BY <1>0, <2>1 DEF Take, Waiting
<1> HIDE DEF n
<1>2. source' = s /\ taken \in [Sources -> Nat]
  BY DEF Take, StreamType
<1>3. taken'[s] = taken[s] + n /\ \A t \in Sources : t # s => taken'[t] = taken[t]
  BY <1>0, <1>1, <1>2
<1>4. StreamType'
  <2>1. taken' \in [Sources -> Nat] /\ \A t \in Sources : taken'[t] <= arrived[t]
    BY <1>0, <1>1, <1>2, <1>3 DEF StreamType
  <2> QED
    BY <1>2, <2>1 DEF StreamType, Places, Amount, Window
<1>5. Code' /\ NotCutShort'
  BY DEF Code, NotCutShort
<1>6. text' = taken[s] + 1 .. taken'[s] /\ text' # {} /\ taken[s] \in 0 .. taken'[s]
  <2>1. taken[s] + 1 \in text'
    BY <1>0, <1>1, <1>2
  <2> QED
    BY <1>0, <1>1, <1>2, <1>3, <2>1
<1>7. Holding'
  <2>1. text' \subseteq 1 .. taken'[source']
    BY <1>0, <1>1, <1>2, <1>3
  <2>2. Service = "direct" => given["errors"] = {} /\ taken'["errors"] = 0
    BY <1>3, SidesFacts DEF Holding
  <2>3. \E k \in 0 .. taken'[source'] : TextIs(k)'
    BY <1>2, <1>6 DEF TextIs
  <2> QED
    BY <1>2, <1>6, <2>1, <2>2, <2>3 DEF Holding, Over, Service
<1>8. Lossless' = Lossless /\ Service' = Service
  BY DEF Lossless, Service, Amount, Window
<1>9. ASSUME Lossless, NEW t \in Sources
      PROVE  /\ \E k \in 0 .. taken'[t] : given[t] = 1 .. k
             /\ \/ ShutDown(t)'
                \/ OnItsWay(t)' /\ Pending(t)'
                \/ ~OnItsWay(t)' /\ Whole(t)'
  <2>1. PICK k \in 0 .. taken[t] : given[t] = 1 .. k
    BY <1>9 DEF Passed
  <2>2. k \in 0 .. taken'[t]
    BY <1>0, <1>2, <1>3
  <2>3. ShutDown(t) \/ Whole(t)
    BY <1>9 DEF Passed, OnItsWay, Over
  <2>4. CASE ShutDown(t)
    BY <1>8, <2>1, <2>2, <2>4 DEF ShutDown
  <2>5. CASE Whole(t) /\ t = s
    BY <1>2, <1>6, <2>1, <2>2, <2>5 DEF Whole, OnItsWay, Pending, TextIs
  <2>6. CASE Whole(t) /\ t # s
    BY <1>2, <1>3, <2>1, <2>2, <2>6 DEF Whole, OnItsWay
  <2> QED
    BY <2>3, <2>4, <2>5, <2>6
<1>10. Passed'
  BY <1>8, <1>9 DEF Passed
<1>11. WindowLeft'
  <2> SUFFICES ASSUME Service = "direct", Lossless, NEW c \in Sides
               PROVE  \E k \in 0 .. taken'[c] : given[c] = 1 .. k /\ window[Other(c)] + k >= Window
    BY <1>8 DEF WindowLeft, Window
  <2>1. PICK k \in 0 .. taken[c] : given[c] = 1 .. k /\ window[Other(c)] + k >= Window
    BY DEF WindowLeft
  <2>2. k \in 0 .. taken'[c]
    BY <1>0, <1>2, <1>3, SidesFacts
  <2> QED
    BY <2>1, <2>2
<1>12. Received'
  <2> SUFFICES ASSUME NEW t \in Sources PROVE given[t] \subseteq 1 .. taken'[t]
    BY DEF Received
  <2>1. given[t] \subseteq 1 .. taken[t] /\ taken[t] \in Nat /\ taken'[t] \in Nat /\ taken[t] <= taken'[t]
    BY <1>0, <1>2, <1>3 DEF Received
  <2> QED
    BY <2>1
<1> QED
  BY <1>4, <1>5, <1>7, <1>10, <1>11, <1>12

LEMMA RecvKeeps ==
    ASSUME StreamInv, Recv, UNCHANGED use
    PROVE  StreamInv'
<1> USE DEF channels
<1>1. /\ pc = "recv" /\ Waiting(side) > 0 /\ Take(side) /\ pc' = "send"
      /\ UNCHANGED <<arrived, eof, closed, window, eofSent, ready, side, given, statuses>>
  BY DEF Recv
<1>2. side \in Sides /\ side \in Sources /\ side # "errors" /\ SideOf(side) = side
  BY SidesFacts DEF StreamInv, StreamType, SideOf, Sides
<1>3. /\ arrived \in [Sources -> Nat] /\ taken \in [Sources -> Nat] /\ logged \in [Sources -> SUBSET Nat]
      /\ ChunkOf[side] \in Nat \ {0}
  BY <1>2, UsesAssumption DEF StreamInv, StreamType, ChunkOf
<1> DEFINE n == Least({Waiting(side), ChunkOf[side]})
<1>4. n \in Nat
  <2>1. Waiting(side) \in Nat
    BY <1>1, <1>2, <1>3 DEF Waiting
  <2> QED
    BY <1>3, <2>1, LeastOfTwo
<1>5. /\ taken' = [taken EXCEPT ![side] = taken[side] + n]
      /\ text' = taken[side] + 1 .. taken[side] + n
  BY <1>1 DEF Take
<1> HIDE DEF n
<1>6. /\ \A t \in Sources : taken'[t] \in Nat /\ taken[t] <= taken'[t]
      /\ text' \subseteq 1 .. taken'[side] /\ text' \subseteq Nat
  BY <1>2, <1>3, <1>4, <1>5
<1>7. \A t \in Sources : logged[t] \subseteq 1 .. taken'[t]
  BY <1>3, <1>6 DEF StreamInv, Received
<1>8. logged' \in [Sources -> SUBSET Nat] /\ \A t \in Sources : logged'[t] \subseteq 1 .. taken'[t]
  <2>1. CASE LogsLate
    BY <1>3, <1>7, <2>1 DEF Recv
  <2>2. CASE ~LogsLate
    BY <1>2, <1>3, <1>6, <1>7, <2>2 DEF Recv, Log
  <2> QED
    BY <2>1, <2>2
<1>9. KeyLoggedWasSent'
  <2> SUFFICES ASSUME Service = "shell" PROVE logged'["hacker"] \subseteq given["hacker"]
    BY <1>1 DEF KeyLoggedWasSent, Service
  <2>1. logged["hacker"] \subseteq given["hacker"]
    BY DEF StreamInv, KeyLoggedWasSent
  <2>2. CASE side = "hacker"
    BY <2>1, <2>2 DEF Recv, LogsLate
  <2>3. CASE side # "hacker"
    <3>1. logged' = [logged EXCEPT ![side] = @ \cup text']
      BY <2>3 DEF Recv, LogsLate, Log
    <3> QED
      BY <1>2, <1>3, <2>1, <2>3, <3>1 DEF Sources, Sides
  <2> QED
    BY <2>2, <2>3
<1> QED
  BY <1>1, <1>2, <1>8, <1>9, Receiving

LEMMA RecvStderrKeeps ==
    ASSUME StreamInv, RecvStderr, UNCHANGED use
    PROVE  StreamInv'
<1> USE DEF channels, event, outcome
<1>1. /\ pc = "recv_stderr" /\ side = "docker" /\ Service # "direct"
      /\ UNCHANGED <<arrived, eof, closed, window, eofSent, ready, side, given, logged, statuses>>
  BY DEF RecvStderr, StreamInv, Code
<1>2. CASE Waiting("errors") > 0 /\ Take("errors") /\ pc' = "send"
  <2>1. "errors" \in Sources /\ SideOf("errors") = side
    BY <1>1, SidesFacts DEF SideOf
  <2>2. /\ arrived \in [Sources -> Nat] /\ taken \in [Sources -> Nat] /\ logged \in [Sources -> SUBSET Nat]
        /\ ChunkOf["errors"] \in Nat \ {0}
    BY <2>1, UsesAssumption DEF StreamInv, StreamType, ChunkOf
  <2>3. Least({Waiting("errors"), ChunkOf["errors"]}) \in Nat
    <3>1. Waiting("errors") \in Nat
      BY <1>2, <2>1, <2>2 DEF Waiting
    <3> QED
      BY <2>2, <3>1, LeastOfTwo
  <2>4. taken' = [taken EXCEPT !["errors"] = taken["errors"] + Least({Waiting("errors"), ChunkOf["errors"]})]
    BY <1>2 DEF Take
  <2>5. \A t \in Sources : taken'[t] \in Nat /\ taken[t] <= taken'[t]
    BY <2>1, <2>2, <2>3, <2>4
  <2>6. \A t \in Sources : logged'[t] \subseteq 1 .. taken'[t]
    BY <1>1, <2>2, <2>5 DEF StreamInv, Received
  <2>7. KeyLoggedWasSent'
    BY <1>1 DEF StreamInv, KeyLoggedWasSent, Service
  <2> QED
    BY <1>1, <1>2, <2>1, <2>2, <2>6, <2>7, Receiving
<1>3. CASE Waiting("errors") = 0 /\ pc' = "eof" /\ UNCHANGED <<taken, source, text>>
  <2>1. StreamType'
    BY <1>1, <1>3 DEF StreamInv, StreamType, Places, Amount, Window
  <2>2. Code' /\ NotCutShort'
    BY <1>1, <1>3 DEF Code, NotCutShort, Service
  <2>3. \A c \in Sides : (eofSent[c] => eofSent'[c]) /\ window'[c] >= window[c]
    BY <1>1 DEF StreamInv, StreamType
  <2>4. pc' # "send" /\ pc \notin {"send"} \cup Over
    BY <1>1, <1>3 DEF Over
  <2> QED
    BY <1>1, <1>3, <2>1, <2>2, <2>3, <2>4, NoData
<1> QED
  BY <1>1, <1>2, <1>3 DEF RecvStderr

\* A send: what fits is the beginning of the text.
LEMMA Giving ==
    ASSUME StreamInv, pc = "send", Give
    PROVE  \E k, m \in 0 .. taken[source] :
              /\ k <= m /\ text = k + 1 .. taken[source] /\ Fitting = k + 1 .. m
              /\ text \ Fitting = m + 1 .. taken[source]
              /\ given' = [given EXCEPT ![source] = @ \cup (k + 1 .. m)]
              /\ window' = [window EXCEPT ![Other(side)] = @ - (m - k)]
              /\ given' \in [Sources -> SUBSET Nat] /\ window' \in [Sides -> 0 .. Window]
              /\ m < taken[source] => window[Other(side)] < taken[source] - k
              /\ \A t \in Sources : given'[t] \subseteq 1 .. taken[t] /\ given[t] \subseteq given'[t]
<1>1. PICK k \in 0 .. taken[source] : text = k + 1 .. taken[source]
  BY DEF StreamInv, Holding, TextIs
<1>2. /\ source \in Sources /\ taken[source] \in Nat /\ side \in Sides /\ Other(side) \in Sides
      /\ given \in [Sources -> SUBSET Nat] /\ window \in [Sides -> 0 .. Window]
      /\ window[Other(side)] \in Nat /\ Window \in Nat
  BY SidesFacts, UsesAssumption DEF StreamInv, StreamType, Window
<1> DEFINE n == taken[source]
           w == window[Other(side)]
           m == IF n <= k + w THEN n ELSE k + w
<1>3. /\ Fitting = k + 1 .. m /\ m \in k .. n /\ Cardinality(Fitting) = m - k
      /\ text \ Fitting = m + 1 .. n
  BY <1>1, <1>2, FittingIs
<1>4. m - k \in 0 .. w /\ (m < n => w < n - k)
  BY <1>1, <1>2
<1> HIDE DEF m
<1>5. /\ given' = [given EXCEPT ![source] = @ \cup (k + 1 .. m)]
      /\ window' = [window EXCEPT ![Other(side)] = @ - (m - k)]
  BY <1>3 DEF Give
<1>6. k + 1 .. m \subseteq 1 .. n /\ k + 1 .. m \subseteq Nat
  BY <1>1, <1>2, <1>3
<1>7. /\ given' \in [Sources -> SUBSET Nat]
      /\ \A t \in Sources : given'[t] \subseteq 1 .. taken[t] /\ given[t] \subseteq given'[t]
  BY <1>2, <1>5, <1>6 DEF StreamInv, Received
<1>8. window' \in [Sides -> 0 .. Window]
  <2>1. w - (m - k) \in 0 .. Window
    BY <1>2, <1>4
  <2> QED
    BY <1>2, <1>5, <2>1
<1>9. m \in 0 .. n /\ k <= m
  BY <1>1, <1>2, <1>3
<1> QED
  BY <1>1, <1>3, <1>4, <1>5, <1>7, <1>8, <1>9

LEMMA SendallKeeps ==
    ASSUME StreamInv, Sendall, UNCHANGED use
    PROVE  StreamInv'
<1> USE DEF event
<1>1. /\ pc = "send" /\ Service # "direct" /\ Give /\ text' = text \ Fitting
      /\ pc' = IF text' # {} THEN "send" ELSE IF LogsLate THEN "log" ELSE AfterData(source)
      /\ UNCHANGED <<arrived, eof, closed, taken, eofSent, ready, side, source, logged, statuses>>
  BY DEF Sendall
<1>2. PICK k, m \in 0 .. taken[source] :
              /\ k <= m /\ text = k + 1 .. taken[source]
              /\ text' = m + 1 .. taken[source]
              /\ given' = [given EXCEPT ![source] = @ \cup (k + 1 .. m)]
              /\ given' \in [Sources -> SUBSET Nat] /\ window' \in [Sides -> 0 .. Window]
              /\ \A t \in Sources : given'[t] \subseteq 1 .. taken[t] /\ given[t] \subseteq given'[t]
  BY <1>1, Giving
<1>3. /\ text # {} /\ SideOf(source) = side /\ text \subseteq 1 .. taken[source]
      /\ side \in Sides /\ source \in Sources
      /\ taken \in [Sources -> Nat] /\ given \in [Sources -> SUBSET Nat]
  BY <1>1 DEF StreamInv, Holding, StreamType
<1>4. pc' \in {"send", "log", "recv_stderr", "eof"}
  BY <1>1 DEF AfterData
<1>5. StreamType'
  BY <1>1, <1>2, <1>4 DEF StreamInv, StreamType, Places, Window, Amount
<1>6. Code'
  <2>1. pc' = "recv_stderr" => side = "docker"
    BY <1>1, <1>3 DEF AfterData, SideOf
  <2>2. pc' = "log" => Service = "shell" /\ side = "hacker" /\ taken["hacker"] > 0
    <3>1. pc' = "log" => LogsLate
      BY <1>1 DEF AfterData
    <3>2. side = "hacker" => source = "hacker"
      BY <1>3 DEF SideOf
    <3>3. taken[source] > 0
      <4>1. PICK b \in text : TRUE
        BY <1>3
      <4>2. b \in 1 .. taken[source] /\ taken[source] \in Nat
        BY <1>3, <4>1
      <4> QED
        BY <4>2
    <3> QED
      BY <3>1, <3>2, <3>3 DEF LogsLate
  <2> QED
    BY <1>1, <1>4, <2>1, <2>2 DEF Code, Service
<1>7. Holding'
  <2>1. text' \subseteq 1 .. taken[source] /\ TextIs(m)'
    BY <1>1, <1>2, <1>3 DEF TextIs
  <2>2. pc' = "send" <=> text' # {}
    BY <1>1 DEF AfterData
  <2>3. Service' = Service
    BY DEF Service
  <2>4. m \in 0 .. taken'[source']
    BY <1>1, <1>2, <1>3
  <2>5. pc' \notin Over
    BY <1>4 DEF Over
  <2> QED
    BY <1>1, <1>3, <2>1, <2>2, <2>3, <2>4, <2>5 DEF Holding
<1>8. Lossless' = Lossless /\ Service' = Service
  BY DEF Lossless, Service, Amount, Window
<1>9. ASSUME NEW t \in Sources
      PROVE  /\ \E i \in 0 .. taken[t] : given'[t] = 1 .. i
             /\ \/ OnItsWay(t)' /\ Pending(t)'
                \/ ~OnItsWay(t)' /\ Whole(t)'
  <2>1. Lossless
    BY <1>1 DEF Lossless
  <2>2. /\ \E i \in 0 .. taken[t] : given[t] = 1 .. i
        /\ \/ OnItsWay(t) /\ Pending(t)
           \/ ~OnItsWay(t) /\ Whole(t)
    BY <1>1, <2>1 DEF StreamInv, Passed, Over, ShutDown
  <2>3. CASE t # source
    BY <1>1, <1>2, <1>3, <2>2, <2>3 DEF OnItsWay, Whole
  <2>4. CASE t = source
    <3>1. Pending(source)
      BY <1>1, <1>3, <2>2, <2>4 DEF OnItsWay
    <3>2. PICK i \in 0 .. taken[source] : given[source] = 1 .. i /\ text = i + 1 .. taken[source]
      BY <3>1 DEF Pending, TextIs
    <3>3. i = k
      <4>1. k + 1 \in text /\ i + 1 \in text
        BY <1>2, <1>3, <3>2
      <4> QED
        BY <1>2, <1>3, <3>2, <4>1
    <3>4. given'[source] = 1 .. m
      BY <1>2, <1>3, <3>2, <3>3
    <3>5. text' # {} <=> m < taken[source]
      BY <1>2, <1>3
    <3>6. pc' = "send" <=> text' # {}
      BY <1>1 DEF AfterData
    <3>7. CASE text' # {}
      BY <1>1, <1>2, <1>3, <2>4, <3>4, <3>6, <3>7 DEF OnItsWay, Pending, TextIs
    <3>8. CASE text' = {}
      BY <1>1, <1>2, <1>3, <2>4, <3>4, <3>5, <3>6, <3>8 DEF OnItsWay, Whole
    <3> QED
      BY <3>7, <3>8
  <2> QED
    BY <2>3, <2>4
<1>10. Passed' /\ WindowLeft'
  BY <1>1, <1>8, <1>9 DEF Passed, WindowLeft
<1>11. Received' /\ KeyLoggedWasSent' /\ NotCutShort'
  BY <1>1, <1>2, <1>8, SidesFacts DEF StreamInv, Received, KeyLoggedWasSent, NotCutShort, Sides
<1> QED
  BY <1>5, <1>6, <1>7, <1>10, <1>11 DEF StreamInv

LEMMA LogKeyKeeps ==
    ASSUME StreamInv, LogKey, UNCHANGED use
    PROVE  StreamInv'
<1> USE DEF event, channels
<1>1. /\ pc = "log" /\ pc' \in {"eof", "close"}
      /\ Service = "shell" /\ side = "hacker" /\ taken["hacker"] > 0
      /\ logged' = [logged EXCEPT !["hacker"] = @ \cup {taken["hacker"]}]
      /\ UNCHANGED <<arrived, eof, closed, window, taken, eofSent, ready, side, source, text, given,
                     statuses>>
  BY DEF LogKey, Log, StreamInv, Code
<1>2. /\ "hacker" \in Sources /\ taken \in [Sources -> Nat] /\ logged \in [Sources -> SUBSET Nat]
  BY SidesFacts DEF StreamInv, StreamType, Sides
<1>3. StreamType'
  BY <1>1, <1>2 DEF StreamInv, StreamType, Places, Over, Amount, Window
<1>4. Code' /\ NotCutShort'
  BY <1>1 DEF Code, NotCutShort, Service
<1>5. Lossless' = Lossless /\ Service' = Service /\ Lossless
  BY <1>1 DEF Lossless, Service, Amount, Window
<1>6. Holding'
  BY <1>1, <1>5 DEF StreamInv, Holding, Over, TextIs
<1>7. \A t \in Sources : (\E i \in 0 .. taken[t] : given[t] = 1 .. i) /\ Whole(t)
  BY <1>1, <1>5 DEF StreamInv, Passed, Over, ShutDown, OnItsWay
<1>8. Passed' /\ WindowLeft'
  BY <1>1, <1>5, <1>7 DEF Passed, WindowLeft, OnItsWay, Whole
<1>9. Received'
  BY <1>1, <1>2 DEF StreamInv, Received
<1>10. KeyLoggedWasSent'
  <2>1. given["hacker"] = 1 .. taken["hacker"]
    BY <1>2, <1>7 DEF Whole
  <2>2. logged'["hacker"] = logged["hacker"] \cup {taken["hacker"]}
    BY <1>1, <1>2
  <2> QED
    BY <1>1, <1>2, <1>5, <2>1, <2>2 DEF StreamInv, KeyLoggedWasSent
<1> QED
  BY <1>3, <1>4, <1>6, <1>8, <1>9, <1>10 DEF StreamInv

LEMMA SendKeeps ==
    ASSUME StreamInv, Send, UNCHANGED use
    PROVE  StreamInv'
<1> USE DEF event
<1>1. /\ pc = "send" /\ Service = "direct" /\ text' = {}
      /\ \/ ~eofSent[Other(side)] /\ Give
         \/ eofSent[Other(side)] /\ UNCHANGED <<given, window>>
      /\ pc' \in {"docker_eof", "next"}
      /\ UNCHANGED <<arrived, eof, closed, taken, eofSent, ready, side, source, logged, statuses>>
  BY DEF Send, Able
<1>2. /\ side \in Sides /\ source \in Sources /\ source # "errors" /\ source \in Sides
      /\ given["errors"] = {} /\ taken["errors"] = 0
      /\ text # {} => source = side
      /\ taken \in [Sources -> Nat] /\ given \in [Sources -> SUBSET Nat]
      /\ window \in [Sides -> 0 .. Window] /\ Window \in Nat /\ Other(side) \in Sides
  BY <1>1, SidesFacts, UsesAssumption
     DEF StreamInv, StreamType, Holding, SideOf, Sources, Sides, Window
<1>3. PICK k, m \in 0 .. taken[source] :
         /\ k <= m /\ text = k + 1 .. taken[source]
         /\ given' \in [Sources -> SUBSET Nat] /\ window' \in [Sides -> 0 .. Window]
         /\ \A t \in Sources : given'[t] \subseteq 1 .. taken[t] /\ given[t] \subseteq given'[t]
         /\ \/ /\ ~eofSent[Other(side)]
               /\ given' = [given EXCEPT ![source] = @ \cup (k + 1 .. m)]
               /\ window' = [window EXCEPT ![Other(side)] = @ - (m - k)]
               /\ m < taken[source] => window[Other(side)] < taken[source] - k
            \/ eofSent[Other(side)] /\ UNCHANGED <<given, window>>
  <2>1. CASE ~eofSent[Other(side)] /\ Give
    BY <1>1, <2>1, Giving
  <2>2. CASE eofSent[Other(side)] /\ UNCHANGED <<given, window>>
    <3>1. PICK k \in 0 .. taken[source] : text = k + 1 .. taken[source]
      BY <1>1 DEF StreamInv, Holding, TextIs
    <3>2. k <= k
      OBVIOUS
    <3>3. \A t \in Sources : given'[t] \subseteq 1 .. taken[t] /\ given[t] \subseteq given'[t]
      BY <2>2 DEF StreamInv, Received
    <3> QED
      BY <1>2, <2>2, <3>1, <3>2, <3>3
  <2> QED
    BY <1>1, <2>1, <2>2
<1>4. StreamType'
  BY <1>1, <1>3 DEF StreamInv, StreamType, Places, Window, Amount
<1>5. Code' /\ NotCutShort'
  BY <1>1 DEF Code, NotCutShort, Service
<1>6. given'["errors"] = {}
  BY <1>2, <1>3, SidesFacts
<1>7. Holding'
  BY <1>1, <1>2, <1>6 DEF Holding, Service, Over
<1>8. Lossless' = Lossless /\ Service' = Service /\ Window' = Window
  BY DEF Lossless, Service, Amount, Window
<1>9. Received' /\ KeyLoggedWasSent'
  BY <1>1, <1>3, <1>8 DEF StreamInv, Received, KeyLoggedWasSent
<1>10. ASSUME Lossless
       PROVE  Passed' /\ WindowLeft'
  <2>1. /\ \A t \in Sources : \E i \in 0 .. taken[t] : given[t] = 1 .. i
        /\ \A t \in Sources : \/ ShutDown(t)
                              \/ OnItsWay(t) /\ Pending(t)
                              \/ ~OnItsWay(t) /\ Whole(t)
        /\ \A c \in Sides : \E i \in 0 .. taken[c] :
              given[c] = 1 .. i /\ window[Other(c)] + i >= Window
    BY <1>1, <1>10 DEF StreamInv, Passed, WindowLeft, Over
  <2>2. CASE eofSent[Other(side)]
    <3>0. UNCHANGED <<given, window>>
      BY <1>3, <2>2
    <3>1. \A t \in Sources : ShutDown(t) \/ ~OnItsWay(t)
      BY <1>1, <1>2, <1>3, <2>2 DEF OnItsWay, ShutDown
    <3>2. \A t \in Sources : ShutDown(t)' \/ (~OnItsWay(t)' /\ Whole(t)')
      BY <1>1, <1>8, <2>1, <3>0, <3>1 DEF OnItsWay, Whole, ShutDown
    <3> QED
      BY <1>1, <1>8, <2>1, <3>0, <3>2 DEF Passed, WindowLeft
  <2>3. CASE ~eofSent[Other(side)] /\ text = {}
    <3>1. k + 1 .. m = {} /\ m = k
      BY <1>2, <1>3, <2>3
    <3>2. \A t \in Sources : given'[t] = given[t]
      BY <1>2, <1>3, <2>3, <3>1
    <3>3. \A c \in Sides : window'[Other(c)] = window[Other(c)]
      BY <1>2, <1>3, <2>3, <3>1, SidesFacts
    <3>4. \A t \in Sources : ShutDown(t)' \/ (~OnItsWay(t)' /\ Whole(t)')
      BY <1>1, <1>8, <2>1, <2>3, <3>2 DEF OnItsWay, Whole, ShutDown
    <3> QED
      BY <1>1, <1>8, <2>1, <3>2, <3>3, <3>4, SidesFacts DEF Passed, WindowLeft
  <2>4. CASE ~eofSent[Other(side)] /\ text # {}
    <3>1. source = side /\ OnItsWay(source) /\ ~ShutDown(source)
      BY <1>1, <1>2, <1>3, <2>4 DEF OnItsWay, ShutDown
    <3>2. PICK i \in 0 .. taken[source] : given[source] = 1 .. i /\ text = i + 1 .. taken[source]
      BY <1>2, <2>1, <3>1 DEF Pending, TextIs
    <3>3. i = k
      <4>1. k + 1 \in text /\ i + 1 \in text
        BY <1>2, <1>3, <2>4, <3>2
      <4> QED
        BY <1>2, <1>3, <3>2, <4>1
    <3>4. window[Other(side)] + k >= Window
      <4>1. PICK j \in 0 .. taken[source] : given[source] = 1 .. j /\ window[Other(side)] + j >= Window
        BY <1>2, <2>1, <3>1
      <4>2. j = k
        <5>1. 1 .. j = 1 .. k
          BY <3>2, <3>3, <4>1
        <5>2. (k > 0 => k \in 1 .. j) /\ (j > 0 => j \in 1 .. k)
          BY <1>2, <5>1
        <5> QED
          BY <1>2, <5>2
      <4> QED
        BY <4>1, <4>2
    <3>5. taken[source] <= Window
      <4>1. taken[source] <= arrived[source] /\ arrived[source] <= Amount[source]
              /\ Amount[source] <= Window /\ Amount[source] \in Nat /\ arrived[source] \in Nat
        BY <1>1, <1>2, <1>10, UsesAssumption DEF StreamInv, StreamType, Lossless, Amount
      <4> QED
        BY <1>2, <4>1
    <3>6. m = taken[source]
      <4>1. window[Other(side)] \in Nat /\ taken[source] \in Nat
        BY <1>2
      <4>2. ~(m < taken[source])
        BY <1>2, <1>3, <2>4, <3>4, <3>5, <4>1
      <4> QED
        BY <1>2, <4>1, <4>2
    <3>7. given'[source] = 1 .. taken[source] /\ window'[Other(side)] = window[Other(side)] - (taken[source] - k)
      <4>1. 1 .. k \cup k + 1 .. taken[source] = 1 .. taken[source]
        BY <1>2
      <4> QED
        BY <1>2, <1>3, <2>4, <3>2, <3>3, <3>6, <4>1
    <3>8. window'[Other(side)] + taken[source] >= Window
      BY <1>2, <3>4, <3>7
    <3>9. \A t \in Sources : t # source => given'[t] = given[t]
      BY <1>2, <1>3, <2>4
    <3>10. \A c \in Sides : c # side => window'[Other(c)] = window[Other(c)]
      BY <1>2, <1>3, <2>4, SidesFacts
    <3>11. \A t \in Sources : \E j \in 0 .. taken[t] : given'[t] = 1 .. j
      <4>1. taken[source] \in 0 .. taken[source]
        BY <1>2
      <4> QED
        BY <2>1, <3>7, <3>9, <4>1
    <3>12. \A t \in Sources : ShutDown(t)' \/ (~OnItsWay(t)' /\ Whole(t)')
      BY <1>1, <1>2, <1>8, <2>1, <3>7, <3>9 DEF OnItsWay, Whole, ShutDown
    <3>13. Passed'
      BY <1>1, <1>8, <3>11, <3>12 DEF Passed
    <3>14. ASSUME NEW c \in Sides
           PROVE  \E j \in 0 .. taken[c] : given'[c] = 1 .. j /\ window'[Other(c)] + j >= Window
      <4>1. CASE c = side
        BY <1>2, <3>1, <3>7, <3>8, <4>1
      <4>2. CASE c # side
        BY <2>1, <3>1, <3>9, <3>10, <3>14, <4>2, SidesFacts
      <4> QED
        BY <4>1, <4>2
    <3> QED
      BY <1>1, <1>8, <3>13, <3>14 DEF WindowLeft
  <2> QED
    BY <2>2, <2>3, <2>4
<1>11. Passed' /\ WindowLeft'
  BY <1>8, <1>10 DEF Passed, WindowLeft
<1> QED
  BY <1>4, <1>5, <1>7, <1>9, <1>11 DEF StreamInv

LEMMA StreamStarts == Init => StreamInv
<1> SUFFICES ASSUME Init PROVE StreamInv
  OBVIOUS
<1>1. Window \in Nat /\ \A s \in Sources : Amount[s] \in Nat
  BY UsesAssumption DEF Init, Window, Amount
<1>2. StreamType
  BY <1>1, SidesFacts, StatusAssumption DEF Init, StreamType, Places, Sides
<1>3. Code /\ NotCutShort
  BY DEF Init, Code, NotCutShort
<1>4. /\ \A s \in Sources : given[s] = {} /\ logged[s] = {} /\ taken[s] = 0
      /\ \A c \in Sides : window[Other(c)] = Window
      /\ text = {} /\ pc = "poll" /\ source \in Sources /\ source # "errors"
  BY SidesFacts DEF Init, Sides
<1>5. Holding
  BY <1>4, SidesFacts DEF Holding, Over
<1>6. 1 .. 0 = {} /\ 0 \in 0 .. 0
  OBVIOUS
<1>7. Passed /\ WindowLeft
  <2>1. \A s \in Sources : 0 \in 0 .. taken[s] /\ given[s] = 1 .. 0 /\ Whole(s) /\ ~OnItsWay(s)
    BY <1>4, <1>6 DEF Whole, OnItsWay
  <2>2. \A c \in Sides : window[Other(c)] + 0 >= Window
    BY <1>1, <1>4
  <2> QED
    BY <2>1, <2>2, SidesFacts DEF Passed, WindowLeft
<1>8. Received /\ KeyLoggedWasSent
  BY <1>4, SidesFacts DEF Received, KeyLoggedWasSent, Sides
<1> QED
  BY <1>2, <1>3, <1>5, <1>7, <1>8 DEF StreamInv

LEMMA StreamStays == StreamInv /\ [Next]_vars => StreamInv'
<1> SUFFICES ASSUME StreamInv, [Next]_vars PROVE StreamInv'
  OBVIOUS
<1>1. CASE UNCHANGED vars
  <2>1. UNCHANGED <<use, arrived, eof, closed, window, taken, eofSent, pc, ready, side, source, text,
                    given, logged, statuses>>
    BY <1>1 DEF vars, channels, event, outcome
  <2> QED
    BY <2>1
       DEF StreamInv, StreamType, Code, Holding, Passed, WindowLeft, Received, KeyLoggedWasSent,
           NotCutShort, TextIs, Whole, Pending, OnItsWay, ShutDown, Lossless, Service, Amount,
           Window
<1>2. CASE Next
  BY <1>2, TransportsKeep, ControlKeeps, RecvKeeps, RecvStderrKeeps, SendallKeeps, LogKeyKeeps,
     SendKeeps DEF Next, Relays, Control
<1> QED
  BY <1>1, <1>2

LEMMA StreamSuffices == StreamInv => StreamsWhole
<1> SUFFICES ASSUME StreamInv PROVE StreamsWhole
  OBVIOUS
<1>1. TypeOK
  BY UsesAssumption DEF StreamInv, StreamType, Holding, Received, TypeOK
<1>2. NoHole
  BY PrefixIs DEF StreamInv, StreamType, Passed, NoHole
<1> QED
  BY <1>1, <1>2 DEF StreamInv, StreamsWhole

(* shell_service and exec_service skip no byte of a stream, for any amount of   *)
(* data, windows and read sizes, and direct_service skips none where all that   *)
(* comes fits in the window; no key is in a shell's log that was not sent, and  *)
(* direct_service does not end before both sides have ended or one is closed.   *)
THEOREM StreamsAreWhole == Spec => []StreamsWhole
<1> QED
  BY StreamStarts, StreamStays, StreamSuffices, PTL DEF Spec

-----------------------------------------------------------------------------

(*********************************************************************************)
(* Session.  The proof looks at each action once, to say what a step may do to   *)
(* each variable (HackerMoves, DockerMoves, ServiceMay, ThreadMay, ...); that    *)
(* the invariant is kept follows from these relations alone.                     *)
(*********************************************************************************)

HackerIds == HackerChannels \cup {None}
DockerIds == DockerChannels \cup {None}

\* What the variables hold.
Handlers ==
    [pc : {"init", "serve", "accept", "close", "join", "shutdown", "done"}, chann : HackerIds]
HackerThreads ==
    [pc : {"off", "read", "open", "pty", "shell", "env", "put", "global", "dead"},
     active : BOOLEAN, chan : HackerIds, h : HackerIds, d : DockerIds,
     wish : AllWishes \cup {"none"}, answer : {"none", "yes", "no"}]
DockerThreads == [pc : {"off", "read", "dead"}, active : BOOLEAN, chan : DockerIds]
ChannelStates == [state : {"none", "taken", "asked", "open", "closed"}, linked : BOOLEAN]
ServiceStates ==
    [pc : {"none", "exec", "seek", "ask", "relay", "end"}, h : HackerIds, goal : HackerIds,
     tries : Nat, answer : {"none", "yes", "no"}]

Fields ==
    /\ handler \in Handlers /\ ht \in HackerThreads /\ dt \in DockerThreads
    /\ hch \in [HackerChannels -> ChannelStates] /\ dch \in [DockerChannels -> ChannelStates]
    /\ \A h \in HackerChannels : hch[h].state # "asked"
    /\ \A d \in DockerChannels : dch[d].state # "taken"
    /\ chain \in [HackerChannels -> DockerIds]
    /\ service \in [DockerChannels -> ServiceStates]
    /\ accepts \in Seq(HackerChannels)

\* Channels are numbered as they come.
Numbered ==
    /\ \E k \in 0 .. MaxHacker : {h \in HackerChannels : hch[h].state # "none"} = 1 .. k
    /\ \E k \in 0 .. MaxDocker : {d \in DockerChannels : dch[d].state # "none"} = 1 .. k

\* What is in the maps of channels.
Mapped ==
    /\ \A h \in HackerChannels : hch[h].linked => hch[h].state \in {"open", "closed"}
    /\ \A d \in DockerChannels : dch[d].state = "open" => dch[d].linked

\* Where the hacker's thread is when it refers to channels.
Locals ==
    /\ ht.pc \in {"off", "read", "global", "dead"} => ht.h = None /\ ht.d = None
    /\ ht.pc \in {"off", "read", "dead"} => ht.answer = "none"
    /\ ht.pc \in {"open", "pty", "shell", "env"} => ht.h # None /\ ht.d # None
    /\ ht.pc = "put" => ht.h # None /\ ht.d = None
    /\ ht.pc = "put" \/ (ht.pc = "open" /\ ht.wish = "direct") => hch[ht.h].state = "taken"

\* The order in which the threads start and end.
Lives ==
    /\ handler.pc \in {"init", "serve"} => ht.pc = "off"
    /\ handler.pc = "init" => dt.pc = "off" 
    /\ dt.active => dt.pc = "read"
    /\ handler.pc \in {"shutdown", "done"} /\ ht.pc # "off" =>
         dt.pc = "dead" /\ \A d \in DockerChannels : dch[d].state # "open"

\* A channel of the container that is not there yet, or only asked for.
Unserved ==
    /\ \A d \in DockerChannels : dch[d].state = "none" =>
         /\ service[d].pc = "none" /\ ht.d # d
         /\ \A h \in HackerChannels : chain[h] # d
    /\ \A d \in DockerChannels : service[d].pc = "none" => service[d].answer = "none"
    /\ ht.pc = "open" => service[ht.d].pc = "none"
    /\ ht.pc \in {"open", "pty"} => \A h \in HackerChannels : chain[h] # ht.d
    /\ handler.pc = "init" => \A h \in HackerChannels : chain[h] = None

\* What was known at the last look cannot be reached any more.
Unreached ==
    /\ handler.pc \in {"init", "serve", "accept"} => known = {}
    /\ handler.pc \in {"close", "join"} =>
         \A h \in known : /\ h \in HackerChannels /\ hch[h].state \in {"open", "closed"}
                          /\ h \in HackerHeld => ~hch[h].linked
    /\ \A d \in DockerChannels : service[d].pc = "seek" => service[d].goal # None

Shut ==
    /\ \A d \in DockerChannels :
         service[d].pc = "end" \/ service[d].answer = "no" => dch[d].state # "open"
    /\ ht.pc \in {"pty", "shell", "env"} /\ ht.answer = "no" => dch[ht.d].state # "open"

\* Who keeps a container's channel that waits for its shell.
Remembered(d) ==
    service[d].pc = "none" /\ dch[d].state = "open" /\ dt.active => d = dt.chan \/ d \in overtaken

Kept ==
    /\ \A h \in HackerChannels : chain[h] # None => ht.d = chain[h] \/ Remembered(chain[h])
    /\ ht.pc \in {"pty", "shell", "env"} /\ ht.answer = "yes" => Remembered(ht.d)

SessionInv == Fields /\ Numbered /\ Mapped /\ Locals /\ Lives /\ Unserved /\ Unreached /\ Shut /\ Kept

LEMMA Bounds == MaxHacker \in Nat /\ MaxDocker \in Nat /\ Tries \in Nat \ {0}
BY BoundsAssumption

LEMMA NoneIsNoChannel == None \notin HackerChannels /\ None \notin DockerChannels
BY Bounds DEF None, HackerChannels, DockerChannels

(* The next channel is one that was never used.                             *)
LEMMA NextIsFresh ==
    ASSUME NEW limit \in Nat, NEW ch,
           NEW k \in 0 .. limit, {c \in 1 .. limit : ch[c].state # "none"} = 1 .. k,
           DOMAIN ch = 1 .. limit
    PROVE  /\ NextOf(ch, limit) = k + 1
           /\ NextOf(ch, limit) <= limit =>
                k + 1 \in 1 .. limit /\ ch[k + 1].state = "none"
<1>1. Cardinality(1 .. k) = k
  <2>1. Cardinality(1 .. k) = IF 1 > k THEN 0 ELSE k - 1 + 1
    BY FS_Interval
  <2> QED
    BY <2>1
<1>2. NextOf(ch, limit) = k + 1
  BY <1>1 DEF NextOf
<1>3. k + 1 \notin 1 .. k
  OBVIOUS
<1> QED
  BY <1>2, <1>3

LEMMA FreshHacker ==
    ASSUME Fields, Numbered, NextHacker <= MaxHacker
    PROVE  /\ NextHacker \in HackerChannels /\ hch[NextHacker].state = "none"
           /\ {h \in HackerChannels : hch[h].state # "none"} = 1 .. NextHacker - 1
<1>1. PICK k \in 0 .. MaxHacker : {h \in HackerChannels : hch[h].state # "none"} = 1 .. k
  BY DEF Numbered
<1>2. NextHacker = k + 1 /\ k + 1 \in 1 .. MaxHacker /\ hch[k + 1].state = "none"
  BY <1>1, NextIsFresh, Bounds DEF NextHacker, HackerChannels, Fields
<1> QED
  BY <1>1, <1>2 DEF HackerChannels

LEMMA FreshDocker ==
    ASSUME Fields, Numbered, NextDocker <= MaxDocker
    PROVE  /\ NextDocker \in DockerChannels /\ dch[NextDocker].state = "none"
           /\ {d \in DockerChannels : dch[d].state # "none"} = 1 .. NextDocker - 1
<1>1. PICK k \in 0 .. MaxDocker : {d \in DockerChannels : dch[d].state # "none"} = 1 .. k
  BY DEF Numbered
<1>2. NextDocker = k + 1 /\ k + 1 \in 1 .. MaxDocker /\ dch[k + 1].state = "none"
  BY <1>1, NextIsFresh, Bounds DEF NextDocker, DockerChannels, Fields
<1> QED
  BY <1>1, <1>2 DEF DockerChannels

(****************************************************************************)
(* The operators.                                                           *)
(****************************************************************************)
LEMMA IdleIs ==
    ASSUME Fields, NEW h \in HackerIds, NEW c \in HackerIds
    PROVE  /\ Idle(h, c) \in HackerThreads
           /\ Idle(h, c).pc = "read" /\ Idle(h, c).active = ht.active /\ Idle(h, c).chan = c
           /\ Idle(h, c).h = None /\ Idle(h, c).d = None
           /\ Idle(h, c).wish = "none" /\ Idle(h, c).answer = "none"
BY DEF Fields, HackerThreads, HackerIds, Idle, DockerIds

LEMMA UnlinkedAllIs ==
    ASSUME NEW S, NEW ch \in [S -> ChannelStates]
    PROVE  /\ UnlinkedAll(ch) \in [S -> ChannelStates]
           /\ \A c \in S : \/ ch[c].state = "none" /\ UnlinkedAll(ch)[c] = ch[c]
                           \/ /\ ch[c].state # "none" /\ UnlinkedAll(ch)[c].state = "closed"
                              /\ ~UnlinkedAll(ch)[c].linked
BY DEF ChannelStates, UnlinkedAll, ClosedByPeer

LEMMA ClosedIs ==
    ASSUME NEW c \in ChannelStates
    PROVE  /\ ClosedByPeer(c) \in ChannelStates /\ ClosedByPeer(c).state = "closed"
           /\ ~ClosedByPeer(c).linked
           /\ ClosedByUser(c) \in ChannelStates /\ ClosedByUser(c).linked = c.linked
           /\ IF c.state = "open" THEN ClosedByUser(c).state = "closed" ELSE ClosedByUser(c) = c
BY DEF ChannelStates, ClosedByPeer, ClosedByUser

LEMMA ClosedByUserIn ==
    ASSUME NEW S, NEW ch \in [S -> ChannelStates], NEW c
    PROVE  [ch EXCEPT ![c] = ClosedByUser(@)] \in [S -> ChannelStates]
<1>1. \A s \in S : ch[s] \in ChannelStates /\ ClosedByUser(ch[s]) \in ChannelStates
  BY ClosedIs
<1> QED
  BY <1>1

LEMMA ClosedByUserAt ==
    ASSUME NEW S, NEW ch \in [S -> ChannelStates], NEW c, NEW s \in S
    PROVE  LET new == [ch EXCEPT ![c] = ClosedByUser(@)]
           IN  /\ \/ new[s] = ch[s]
                  \/ /\ ch[s].state = "open" /\ new[s].state = "closed"
                     /\ new[s].linked = ch[s].linked
               /\ s = c => new[s].state # "open"
<1>1. CASE s # c
  BY <1>1
<1>2. CASE s = c
  BY <1>2, ch[s] \in ChannelStates, ClosedIs
<1> QED
  BY <1>1, <1>2

(* What a service becomes.                                                  *)
Started(h, at) == [NoService EXCEPT !.h = h, !.pc = at]
Seeking(h) == [NoService EXCEPT !.goal = h, !.pc = "seek"]
Ended == [NoService EXCEPT !.pc = "end"]
AnsweredWith(s, answer) == [s EXCEPT !.answer = answer]
Relaying(s, h) == [s EXCEPT !.pc = "relay", !.h = h]
Tried(s) == [s EXCEPT !.tries = s.tries + 1]

LEMMA NewServiceIs ==
    ASSUME NEW h \in HackerIds, NEW at \in {"exec", "ask", "relay"}
    PROVE  /\ Started(h, at) \in ServiceStates
           /\ Started(h, at).h = h /\ Started(h, at).pc = at /\ Started(h, at).answer = "none"
           /\ Seeking(h) \in ServiceStates
           /\ Seeking(h).h = None /\ Seeking(h).pc = "seek" /\ Seeking(h).goal = h
           /\ Seeking(h).answer = "none"
           /\ Ended \in ServiceStates
           /\ Ended.h = None /\ Ended.pc = "end" /\ Ended.answer = "none"
<1>1. NoService \in ServiceStates /\ NoService.answer = "none" /\ NoService.h = None
  BY DEF NoService, ServiceStates, HackerIds
<1> QED
  BY <1>1 DEF ServiceStates, Started, Seeking, Ended

LEMMA AnsweredWithIs ==
    ASSUME NEW s \in ServiceStates, NEW answer \in {"yes", "no"}
    PROVE  /\ AnsweredWith(s, answer) \in ServiceStates
           /\ AnsweredWith(s, answer).h = s.h /\ AnsweredWith(s, answer).pc = s.pc /\ AnsweredWith(s, answer).answer = answer
BY DEF ServiceStates, AnsweredWith

LEMMA RelayingIs ==
    ASSUME NEW s \in ServiceStates, NEW h \in HackerIds
    PROVE  /\ Relaying(s, h) \in ServiceStates
           /\ Relaying(s, h).h = h /\ Relaying(s, h).pc = "relay" /\ Relaying(s, h).answer = s.answer
BY DEF ServiceStates, Relaying

LEMMA ExecRelaysIs ==
    ASSUME NEW s \in ServiceStates
    PROVE  LET n == [s EXCEPT !.pc = "relay"]
           IN  n \in ServiceStates /\ n.h = s.h /\ n.pc = "relay" /\ n.answer = s.answer
BY DEF ServiceStates

LEMMA TriedIs ==
    ASSUME NEW s \in ServiceStates
    PROVE  /\ Tried(s) \in ServiceStates
           /\ Tried(s).h = s.h /\ Tried(s).goal = s.goal /\ Tried(s).pc = s.pc
           /\ Tried(s).answer = s.answer
<1>1. s.tries + 1 \in Nat
  BY DEF ServiceStates
<1> QED
  BY <1>1 DEF ServiceStates, Tried

LEMMA HackerDeadIs ==
    ASSUME Fields, HackerDead
    PROVE  /\ ht' \in HackerThreads /\ hch' \in [HackerChannels -> ChannelStates]
           /\ ht'.pc = "dead" /\ ~ht'.active /\ ht'.chan = None /\ ht'.h = None /\ ht'.d = None
           /\ ht'.wish = "none" /\ ht'.answer = "none"
           /\ \A h \in HackerChannels :
                \/ hch[h].state = "none" /\ hch'[h] = hch[h]
                \/ hch[h].state # "none" /\ hch'[h].state = "closed" /\ ~hch'[h].linked
<1>1. None \in HackerIds
  BY DEF HackerIds
<1>2. ht' = [Idle(None, None) EXCEPT !.pc = "dead", !.active = FALSE] /\ hch' = UnlinkedAll(hch)
  BY DEF HackerDead
<1>3. /\ hch' \in [HackerChannels -> ChannelStates]
      /\ \A h \in HackerChannels :
                \/ hch[h].state = "none" /\ hch'[h] = hch[h]
                \/ hch[h].state # "none" /\ hch'[h].state = "closed" /\ ~hch'[h].linked
  BY <1>2, UnlinkedAllIs DEF Fields
<1>4. PICK i \in HackerThreads :
         /\ ht' = [i EXCEPT !.pc = "dead", !.active = FALSE]
         /\ i.chan = None /\ i.h = None /\ i.d = None /\ i.wish = "none" /\ i.answer = "none"
  BY <1>1, <1>2, IdleIs
<1>5. /\ ht' \in HackerThreads
      /\ ht'.pc = "dead" /\ ~ht'.active /\ ht'.chan = None /\ ht'.h = None /\ ht'.d = None
      /\ ht'.wish = "none" /\ ht'.answer = "none"
  BY <1>4 DEF HackerThreads
<1> QED
  BY <1>3, <1>5


(****************************************************************************)
(* What a step may do to each variable.                                     *)
(****************************************************************************)
HackerMoves(h) ==
    \/ hch'[h] = hch[h]
    \/ /\ h = NextHacker /\ NextHacker <= MaxHacker /\ hch[h].state = "none"
       /\ hch'[h].state = "open" \/ (hch'[h].state = "taken" /\ ~hch'[h].linked /\ ht.pc = "read")
    \/ ht.pc = "put" /\ ht'.pc = "read" /\ h = ht.h /\ hch'[h].state = "open"
    \/ /\ hch[h].state # "none" /\ hch'[h].state = "closed" /\ (hch'[h].linked => hch[h].linked)
       /\ hch[h].state = "open" \/ ht.pc = "read" \/ ht'.pc = "dead"

HackersMove ==
    /\ hch' \in [HackerChannels -> ChannelStates]
    /\ \A h \in HackerChannels : HackerMoves(h)

LEMMA DeadHackersMove == SessionInv /\ HackerDead => HackersMove
BY HackerDeadIs DEF SessionInv, HackersMove, HackerMoves

LEMMA HackerChannelsMove ==
    ASSUME SessionInv, SessionNext
    PROVE  HackersMove
<1> USE DEF SessionInv, Fields, HackersMove, HackerMoves
<1>1. CASE UNCHANGED hch
  BY <1>1
<1>2. CASE HackerDead
  BY <1>2, DeadHackersMove
<1>3. CASE OpenSession
  <2>1. hch' = [hch EXCEPT ![NextHacker] = Opened] /\ Opened \in ChannelStates /\ Opened.state = "open"
    BY <1>3 DEF OpenSession, Opened, ChannelStates
  <2> QED
    BY <1>3, <2>1, FreshHacker DEF OpenSession
<1>4. CASE RequestDirect /\ dt.active
  <2>1. hch' = [hch EXCEPT ![NextHacker].state = "taken"] /\ ht.pc = "read" /\ NextHacker <= MaxHacker
    BY <1>4 DEF RequestDirect, HackerReads, AskChannel
  <2>2. \A c \in ChannelStates :
           /\ [c EXCEPT !.state = "taken"] \in ChannelStates
           /\ [c EXCEPT !.state = "taken"].state = "taken"
           /\ [c EXCEPT !.state = "taken"].linked = c.linked
    BY DEF ChannelStates
  <2> QED
    BY <2>1, <2>2, FreshHacker DEF Mapped
<1>5. CASE PutDirect
  <2>1. hch' = [hch EXCEPT ![ht.h] = Opened] /\ Opened \in ChannelStates /\ Opened.state = "open"
    BY <1>5 DEF PutDirect, Opened, ChannelStates
  <2>2. ht' = Idle(ht.h, ht.chan) \/ ht' = Idle(None, ht.chan)
    BY <1>5 DEF PutDirect
  <2>3. None \in HackerIds /\ ht.h \in HackerIds /\ ht.chan \in HackerIds
    BY DEF HackerThreads, HackerIds
  <2>4. ht'.pc = "read"
    BY <2>2, <2>3, IdleIs
  <2> QED
    BY <1>5, <2>1, <2>4 DEF PutDirect
<1>6. ASSUME NEW h \in HackerChannels, HackerClose(h) PROVE HackersMove
  <2>1. hch' = [hch EXCEPT ![h] = ClosedByPeer(@)] /\ ht.pc = "read" /\ hch[h].linked
    BY <1>6, NoneIsNoChannel DEF HackerClose, HackerReads, GetHacker
  <2>2. hch[h].state # "none"
    BY <1>6, <2>1 DEF Mapped
  <2> QED
    BY <2>1, <2>2, ClosedIs
<1>7. ASSUME NEW d \in DockerChannels, ReverseOpens(d) PROVE HackersMove
  <2>1. hch' = [hch EXCEPT ![NextHacker] = Opened] /\ Opened \in ChannelStates /\ Opened.state = "open"
    BY <1>7 DEF ReverseOpens, Opened, ChannelStates
  <2> QED
    BY <1>7, <2>1, FreshHacker DEF ReverseOpens
<1>8. ASSUME NEW d \in DockerChannels, RelayEnds(d) PROVE HackersMove
  <2>1. hch' = [hch EXCEPT ![service[d].h] = ClosedByUser(@)]
    BY <1>8 DEF RelayEnds, CloseBoth
  <2>2. hch' \in [HackerChannels -> ChannelStates]
    BY <2>1, ClosedByUserIn
  <2>3. ASSUME NEW h \in HackerChannels PROVE HackerMoves(h)
    <3>1. \/ hch'[h] = hch[h]
          \/ hch[h].state = "open" /\ hch'[h].state = "closed" /\ hch'[h].linked = hch[h].linked
      BY <2>1, ClosedByUserAt
    <3> QED
      BY <3>1
  <2> QED
    BY <2>2, <2>3
<1> QED
  BY <1>1, <1>2, <1>3, <1>4, <1>5, <1>6, <1>7, <1>8, Zenon
     DEF SessionNext, Handler, HackerThread, Hacker, Docker, DockerAnswers, ServiceThreads, ServiceSteps,
         InitServer, StartServer, Accept, CloseDocker, JoinDocker, ShutdownRequest, SessionOpened,
         ExecOpened, DirectOpened, OpenRefused, PtyDone, PtyRefused, ShellDone, ShellRefused, EnvDone,
         ForwardDone, RequestDirect, RequestForward, HackerDrops, RequestSession, RequestShell,
         RequestEnv, Refused, HackerSpeaks, AnswerOpen, AnswerRequest, AnswerGlobal, AnswerExec,
         DockerForwards, DockerDead, DockerSpeaks, DockerClose, ExecRuns, DirectFinds, DirectLooks,
         ReverseFails, hackers

DockerMoves(d) ==
    \/ dch'[d] = dch[d]
    \/ /\ d = NextDocker /\ NextDocker <= MaxDocker /\ dch[d].state = "none"
       /\ \/ dch'[d].state = "asked" /\ ht.pc = "read" /\ dt.active
          \/ dch'[d].state = "open" /\ dch'[d].linked /\ DockerReads
    \/ ht.pc = "open" /\ d = ht.d /\ DockerReads /\ dch'[d].state = "open" /\ dch'[d].linked
    \/ dch[d].state # "none" /\ dch'[d].state = "closed"

DockersMove ==
    /\ dch' \in [DockerChannels -> ChannelStates]
    /\ \A d \in DockerChannels : DockerMoves(d)

LEMMA DockerChannelsMove ==
    ASSUME SessionInv, SessionNext
    PROVE  DockersMove
<1> USE DEF SessionInv, Fields, DockersMove, DockerMoves
<1>1. CASE UNCHANGED dch
  BY <1>1
<1>2. CASE dch' = UnlinkedAll(dch)
  BY <1>2, UnlinkedAllIs
<1>3. ASSUME NEW h, NEW chan, NEW wish, AskChannel(h, chan, wish), ht.pc = "read", dt.active
      PROVE  DockersMove
  <2>1. dch' = [dch EXCEPT ![NextDocker] = Asked] /\ Asked \in ChannelStates /\ Asked.state = "asked"
    BY <1>3 DEF AskChannel, Asked, ChannelStates
  <2> QED
    BY <1>3, <2>1, FreshDocker DEF AskChannel
<1>4. CASE AnswerOpen
  <2>1. ht.d \in DockerChannels /\ dch[ht.d].state # "none" /\ dch[ht.d] \in ChannelStates
    BY <1>4 DEF AnswerOpen, Locals, Unserved, HackerThreads, DockerIds
  <2>2. Opened \in ChannelStates /\ Opened.state = "open" /\ Opened.linked
    BY DEF Opened, ChannelStates
  <2>3. \/ dch' = [dch EXCEPT ![ht.d] = Opened]
        \/ dch' = [dch EXCEPT ![ht.d] = ClosedByPeer(@)]
    BY <1>4 DEF AnswerOpen
  <2> QED
    BY <1>4, <2>1, <2>2, <2>3, ClosedIs DEF AnswerOpen
<1>5. ASSUME NEW d, dch' = [dch EXCEPT ![d] = ClosedByUser(@)]
      PROVE  DockersMove
  BY <1>5, ClosedByUserIn, ClosedByUserAt
<1>6. CASE DockerForwards
  <2>1. /\ dch' = [dch EXCEPT ![NextDocker] = Opened] /\ NextDocker <= MaxDocker
        /\ Opened \in ChannelStates /\ Opened.state = "open" /\ Opened.linked
    BY <1>6 DEF DockerForwards, Opened, ChannelStates
  <2> QED
    BY <1>6, <2>1, FreshDocker DEF DockerForwards
<1>7. ASSUME NEW d \in DockerChannels, DockerClose(d) PROVE DockersMove
  <2>1. dch' = [dch EXCEPT ![d] = ClosedByPeer(@)] /\ dch[d].state # "none"
    BY <1>7 DEF DockerClose
  <2> QED
    BY <2>1, ClosedIs
<1> QED
  BY <1>1, <1>2, <1>3, <1>4, <1>5, <1>6, <1>7, Zenon
     DEF SessionNext, Handler, HackerThread, Hacker, Docker, DockerAnswers, ServiceThreads, ServiceSteps,
         InitServer, StartServer, Accept, CloseDocker, JoinDocker, ShutdownRequest, SessionOpened,
         ExecOpened, DirectOpened, PutDirect, OpenRefused, PtyDone, PtyRefused, ShellDone, ShellRefused,
         EnvDone, ForwardDone, OpenSession, RequestDirect, RequestForward, HackerDrops, RequestSession,
         RequestShell, RequestEnv, Request, HackerReads, Refused, HackerSpeaks, HackerClose, AnswerRequest,
         AnswerGlobal, AnswerExec, DockerDead, DockerSpeaks, ExecRuns, DirectFinds, DirectLooks, Abandoned,
         ReverseOpens, ReverseFails, RelayEnds, CloseBoth, dockers

ServiceMay(d, old, new) ==
    \/ /\ d = ht.d /\ (ht.pc = "open" \/ (ht.pc = "shell" /\ ht.answer = "yes"))
       /\ ht'.pc # "open"
       /\ new.pc \in {"exec", "relay"} /\ new.h = ht.h /\ new.answer = "none"
    \/ /\ d = ht.d /\ ht.pc = "open" /\ ht'.pc = "put"
       /\ new.pc = "seek" /\ new.h = None /\ new.goal = ht.h /\ new.answer = "none"
    \/ /\ d = NextDocker /\ NextDocker <= MaxDocker /\ dch[d].state = "none"
       /\ dch'[d].state = "open"
       /\ new.pc = "ask" /\ new.h = None /\ new.answer = "none"
    \/ /\ old.pc = "exec" /\ new.pc \in {"exec", "relay"} /\ new.h = old.h
       /\ new.answer = "no" => dch'[d].state # "open"
    \/ /\ old.pc = "seek" /\ new.pc = "seek" /\ new.h = old.h /\ new.goal = old.goal
       /\ new.answer = old.answer
    \/ /\ old.pc = "seek" /\ new.pc = "relay" /\ GetHacker(old.goal) # None
       /\ new.h = old.goal /\ new.answer = old.answer
    \/ /\ old.pc = "ask" /\ new.pc = "relay" /\ HackerReads
       /\ NextHacker <= MaxHacker /\ new.h = NextHacker /\ new.answer = old.answer
    \/ /\ old.pc # "none" /\ new.pc = "end" /\ new.h = None /\ new.answer = "none"
       /\ dch'[d].state # "open"

ServiceMoves(d) == service'[d] = service[d] \/ ServiceMay(d, service[d], service'[d])

ServicesMove ==
    /\ service' \in [DockerChannels -> ServiceStates]
    /\ \A d \in DockerChannels : ServiceMoves(d)

LEMMA ServiceBecomes ==
    ASSUME Fields, NEW d, NEW n \in ServiceStates, service' = [service EXCEPT ![d] = n],
           d \in DockerChannels => ServiceMay(d, service[d], n)
    PROVE  ServicesMove
BY DEF Fields, ServicesMove, ServiceMoves

LEMMA ServiceThreadsMove ==
    ASSUME SessionInv, SessionNext
    PROVE  ServicesMove
<1>1. CASE UNCHANGED service
  BY <1>1 DEF SessionInv, Fields, ServicesMove, ServiceMoves
<1>2. None \in HackerIds /\ Fields /\ Numbered
  BY DEF HackerIds, SessionInv
<1>3. CASE ExecOpened \/ ShellDone
  <2>1. ht.h \in HackerIds
    BY <1>2 DEF HackerThreads, Fields
  <2>2. PICK at \in {"exec", "relay"} :
           service' = [service EXCEPT ![ht.d] = Started(ht.h, at)]
    BY <1>3 DEF ExecOpened, ShellDone, Start, Started
  <2>3. PICK n \in ServiceStates :
           /\ service' = [service EXCEPT ![ht.d] = n]
           /\ n.h = ht.h /\ n.pc = at /\ n.answer = "none"
    <3>1. at \in {"exec", "ask", "relay"}
      OBVIOUS
    <3>2. /\ Started(ht.h, at) \in ServiceStates /\ Started(ht.h, at).h = ht.h
          /\ Started(ht.h, at).pc = at /\ Started(ht.h, at).answer = "none"
      BY <3>1, <2>1, NewServiceIs
    <3> QED
      BY <3>2, <2>2, Zenon
  <2>4. ht.pc = "open" \/ (ht.pc = "shell" /\ ht.answer = "yes")
    BY <1>3 DEF ExecOpened, ShellDone, Yes
  <2>5. ht' = Idle(ht.h, ht.chan) /\ ht.chan \in HackerIds
    BY <1>2, <1>3 DEF ExecOpened, ShellDone, Answered, Fields, HackerThreads
  <2>6. ht'.pc # "open"
    BY <1>2, <2>1, <2>5, IdleIs
  <2>7. ServiceMay(ht.d, service[ht.d], n)
    BY <2>3, <2>4, <2>6 DEF ServiceMay
  <2> QED
    BY <1>2, <2>3, <2>7, ServiceBecomes
<1>4. CASE DirectOpened
  <2>1. /\ service' = [service EXCEPT ![ht.d] = Seeking(ht.h)]
        /\ ht.pc = "open" /\ ht.h \in HackerIds
    BY <1>2, <1>4 DEF DirectOpened, HackerThreads, Fields, Seeking
  <2>2. PICK n \in ServiceStates :
           /\ service' = [service EXCEPT ![ht.d] = n]
           /\ n.h = None /\ n.pc = "seek" /\ n.goal = ht.h /\ n.answer = "none"
    BY <2>1, NewServiceIs
  <2>3. ht' = [ht EXCEPT !.pc = "put", !.d = None]
    BY <1>4 DEF DirectOpened
  <2>4. ht'.pc = "put"
    BY <1>2, <2>3 DEF Fields, HackerThreads
  <2>5. ServiceMay(ht.d, service[ht.d], n)
    BY <2>1, <2>2, <2>4 DEF ServiceMay
  <2> QED
    BY <1>2, <2>2, <2>5, ServiceBecomes
<1>5. CASE DockerForwards
  <2>1. /\ service' = [service EXCEPT ![NextDocker] = Started(None, "ask")]
        /\ NextDocker <= MaxDocker
    BY <1>5 DEF DockerForwards, Start, Started
  <2>2. PICK n \in ServiceStates :
           /\ service' = [service EXCEPT ![NextDocker] = n]
           /\ n.h = None /\ n.pc = "ask" /\ n.answer = "none"
    BY <1>2, <2>1, NewServiceIs
  <2>3. dch' = [dch EXCEPT ![NextDocker] = Opened] /\ Opened.state = "open"
    BY <1>5 DEF DockerForwards, Opened
  <2>4. NextDocker \in DockerChannels /\ dch[NextDocker].state = "none"
    BY <1>2, <2>1, FreshDocker
  <2>5. dch'[NextDocker].state = "open"
    BY <1>2, <2>3, <2>4 DEF Fields
  <2>6. ServiceMay(NextDocker, service[NextDocker], n)
    BY <2>1, <2>2, <2>4, <2>5 DEF ServiceMay
  <2> QED
    BY <1>2, <2>2, <2>6, ServiceBecomes
<1>6. ASSUME NEW d \in DockerChannels, AnswerExec(d) PROVE ServicesMove
  <2>1. /\ service[d].pc = "exec" /\ service[d] \in ServiceStates
        /\ \/ service' = [service EXCEPT ![d].answer = "yes"]
           \/ service' = [service EXCEPT ![d].answer = "no"] /\ dch' = [dch EXCEPT ![d] = ClosedByUser(@)]
    BY <1>2, <1>6 DEF AnswerExec, Fields
  <2>2. dch' = [dch EXCEPT ![d] = ClosedByUser(@)] => dch'[d].state # "open"
    BY <1>2, ClosedByUserAt DEF Fields
  <2>3. PICK answer \in {"yes", "no"} :
           /\ service' = [service EXCEPT ![d] = AnsweredWith(service[d], answer)]
           /\ answer = "no" => dch'[d].state # "open"
    BY <2>1, <2>2 DEF AnsweredWith
  <2>4. PICK n \in ServiceStates :
           /\ service' = [service EXCEPT ![d] = n]
           /\ n.h = service[d].h /\ n.pc = "exec" /\ n.answer = answer
    <3>1. /\ AnsweredWith(service[d], answer) \in ServiceStates
          /\ AnsweredWith(service[d], answer).h = service[d].h
          /\ AnsweredWith(service[d], answer).pc = "exec" /\ AnsweredWith(service[d], answer).answer = answer
      BY <2>1, AnsweredWithIs
    <3> QED
      BY <3>1, <2>3, Zenon
  <2>5. ServiceMay(d, service[d], n)
    BY <2>1, <2>3, <2>4 DEF ServiceMay
  <2> QED
    BY <1>2, <2>4, <2>5, ServiceBecomes
<1>7. ASSUME NEW d \in DockerChannels, ExecRuns(d) PROVE ServicesMove
  <2>1. service[d].pc = "exec" /\ service[d] \in ServiceStates /\ dch' = dch
    BY <1>2, <1>7 DEF ExecRuns, Fields, dockers
  <2>2. CASE service[d].answer = "yes" /\ service' = [service EXCEPT ![d].pc = "relay"]
    <3>1. PICK n \in ServiceStates :
             /\ service' = [service EXCEPT ![d] = n]
             /\ n.h = service[d].h /\ n.pc = "relay" /\ n.answer = service[d].answer
      <4>1. service' = [service EXCEPT ![d] = [service[d] EXCEPT !.pc = "relay"]]
        BY <2>2
      <4> QED
        BY <2>1, <4>1, ExecRelaysIs
    <3>2. ServiceMay(d, service[d], n)
      BY <2>1, <2>2, <3>1 DEF ServiceMay
    <3> QED
      BY <1>2, <3>1, <3>2, ServiceBecomes
  <2>3. CASE (service[d].answer = "no" \/ dch[d].state = "closed") /\ End(d)
    <3>1. dch'[d].state # "open"
      BY <2>1, <2>3 DEF SessionInv, Shut
    <3>2. PICK n \in ServiceStates :
             service' = [service EXCEPT ![d] = n] /\ n.h = None /\ n.pc = "end" /\ n.answer = "none"
      BY <1>2, <2>3, NewServiceIs DEF End, Ended
    <3>3. ServiceMay(d, service[d], n)
      BY <2>1, <3>1, <3>2 DEF ServiceMay
    <3> QED
      BY <1>2, <3>2, <3>3, ServiceBecomes
  <2> QED
    BY <1>7, <2>2, <2>3 DEF ExecRuns
<1>8. ASSUME NEW d \in DockerChannels, DirectFinds(d) PROVE ServicesMove
  <2>1. /\ service' = [service EXCEPT ![d] = Relaying(service[d], service[d].goal)]
        /\ service[d].pc = "seek" /\ GetHacker(service[d].goal) # None
    BY <1>8 DEF DirectFinds, Relaying
  <2>2. service[d] \in ServiceStates /\ service[d].goal \in HackerIds
    BY <1>2 DEF ServiceStates, Fields
  <2>3. PICK n \in ServiceStates :
           /\ service' = [service EXCEPT ![d] = n]
           /\ n.h = service[d].goal /\ n.pc = "relay" /\ n.answer = service[d].answer
    <3> DEFINE n == Relaying(service[d], service[d].goal)
    <3>1. n \in ServiceStates /\ n.h = service[d].goal /\ n.pc = "relay" /\ n.answer = service[d].answer
      BY <2>2, RelayingIs
    <3> QED
      BY <3>1, <2>1, Zenon
  <2>4. ServiceMay(d, service[d], n)
    BY <2>1, <2>3 DEF ServiceMay
  <2> QED
    BY <1>2, <2>3, <2>4, ServiceBecomes
<1>9. ASSUME NEW d \in DockerChannels, DirectLooks(d) PROVE ServicesMove
  <2>1. service[d].pc = "seek" /\ service[d] \in ServiceStates
    BY <1>2, <1>9 DEF DirectLooks, Fields
  <2>2. CASE End(d) /\ dch' = Abandoned(d)
    <3>1. dch'[d].state # "open"
      BY <1>2, <2>2, ClosedByUserAt DEF Abandoned, Fields
    <3>2. PICK n \in ServiceStates :
             service' = [service EXCEPT ![d] = n] /\ n.h = None /\ n.pc = "end" /\ n.answer = "none"
      BY <1>2, <2>2, NewServiceIs DEF End, Ended
    <3>3. ServiceMay(d, service[d], n)
      BY <2>1, <3>1, <3>2 DEF ServiceMay
    <3> QED
      BY <1>2, <3>2, <3>3, ServiceBecomes
  <2>3. CASE service' = [service EXCEPT ![d].tries = @ + 1]
    <3>1. service' = [service EXCEPT ![d] = Tried(service[d])]
      BY <2>3 DEF Tried
    <3>2. PICK n \in ServiceStates :
             /\ service' = [service EXCEPT ![d] = n]
             /\ n.h = service[d].h /\ n.goal = service[d].goal /\ n.pc = service[d].pc
             /\ n.answer = service[d].answer
      BY <2>1, <3>1, TriedIs
    <3>3. ServiceMay(d, service[d], n)
      BY <2>1, <3>2 DEF ServiceMay
    <3> QED
      BY <1>2, <3>2, <3>3, ServiceBecomes
  <2> QED
    BY <1>9, <2>2, <2>3 DEF DirectLooks
<1>10. ASSUME NEW d \in DockerChannels, ReverseOpens(d) PROVE ServicesMove
  <2>1. /\ NextHacker \in HackerIds /\ NextHacker <= MaxHacker /\ HackerReads
        /\ service[d].pc = "ask" /\ service[d] \in ServiceStates
    BY <1>2, <1>10, FreshHacker DEF ReverseOpens, HackerIds, Fields
  <2>2. service' = [service EXCEPT ![d] = Relaying(service[d], NextHacker)]
    BY <1>10 DEF ReverseOpens, Relaying
  <2>3. PICK n \in ServiceStates :
           /\ service' = [service EXCEPT ![d] = n]
           /\ n.h = NextHacker /\ n.pc = "relay" /\ n.answer = service[d].answer
    <3> DEFINE n == Relaying(service[d], NextHacker)
    <3>1. n \in ServiceStates /\ n.h = NextHacker /\ n.pc = "relay" /\ n.answer = service[d].answer
      BY <2>1, RelayingIs
    <3> QED
      BY <3>1, <2>2, Zenon
  <2>4. ServiceMay(d, service[d], n)
    BY <2>1, <2>3 DEF ServiceMay
  <2> QED
    BY <1>2, <2>3, <2>4, ServiceBecomes
<1>11. ASSUME NEW d \in DockerChannels, ReverseFails(d) \/ RelayEnds(d) PROVE ServicesMove
  <2>1. /\ dch' = [dch EXCEPT ![d] = ClosedByUser(@)] /\ End(d)
        /\ service[d].pc \in {"ask", "relay"}
    BY <1>11 DEF ReverseFails, RelayEnds, CloseBoth, Abandoned
  <2>2. dch'[d].state # "open"
    BY <1>2, <2>1, ClosedByUserAt DEF Fields
  <2>3. PICK n \in ServiceStates :
           service' = [service EXCEPT ![d] = n] /\ n.h = None /\ n.pc = "end" /\ n.answer = "none"
    BY <1>2, <2>1, NewServiceIs DEF End, Ended
  <2>4. ServiceMay(d, service[d], n)
    BY <2>1, <2>2, <2>3 DEF ServiceMay
  <2> QED
    BY <1>2, <2>3, <2>4, ServiceBecomes
<1> QED
  BY <1>1, <1>3, <1>4, <1>5, <1>6, <1>7, <1>8, <1>9, <1>10, <1>11, Zenon
     DEF SessionNext, Handler, HackerThread, Hacker, Docker, DockerAnswers, ServiceThreads, ServiceSteps,
         InitServer, StartServer, Accept, CloseDocker, JoinDocker, ShutdownRequest, SessionOpened,
         PutDirect, OpenRefused, PtyDone, PtyRefused, ShellRefused, EnvDone, ForwardDone,
         OpenSession, RequestDirect, RequestForward, HackerDrops, RequestSession,
         RequestShell, RequestEnv, Request, HackerSpeaks, HackerClose, AnswerOpen, AnswerRequest,
         AnswerGlobal, DockerDead, DockerSpeaks, DockerClose

(* What a step may do to the hacker's thread.                               *)
ThreadMay(new) ==
    \/ /\ ht.pc = "off" /\ handler.pc = "serve" /\ handler'.pc = "accept"
       /\ new.pc = "read" /\ new.h = ht.h /\ new.d = ht.d /\ new.answer = ht.answer
    \/ /\ ht.pc # "off" /\ new.pc \in {"read", "dead"}
       /\ new.h = None /\ new.d = None /\ new.answer = "none"
       /\ ht.pc \in {"pty", "shell", "env"} => ht.answer # "none" \/ ~dt.active
    \/ /\ ht.pc = "read" /\ new.pc = "open" /\ new.answer = ht.answer
       /\ new.h \in HackerChannels /\ new.d = NextDocker /\ NextDocker <= MaxDocker
       /\ dch'[NextDocker].state = "asked" /\ service' = service /\ chain' = chain
       /\ new.wish = "direct" => hch'[new.h].state = "taken"
    \/ /\ ht.pc = "read" /\ new.pc \in {"shell", "env"} /\ new.answer = ht.answer
       /\ new.h \in HackerChannels /\ new.d # None /\ new.d = chain[new.h]
    \/ /\ ht.pc = "read" /\ new.pc \in {"read", "global"}
       /\ new.h = ht.h /\ new.d = ht.d /\ new.answer = ht.answer
    \/ /\ ht.pc = "open" /\ new.pc = "pty"
       /\ new.h = ht.h /\ new.d = ht.d /\ new.answer = "none"
    \/ /\ ht.pc = "open" /\ new.pc = "put" /\ ht.wish = "direct" /\ new.h = ht.h /\ new.d = None
    \/ /\ ht.pc = "pty" /\ new.pc = "shell"
       /\ new.h = ht.h /\ new.d = ht.d /\ new.answer = "none"
    \/ /\ new.pc = ht.pc /\ new.h = ht.h /\ new.d = ht.d /\ new.wish = ht.wish
       /\ dt.pc = "read" /\ new.answer \in {"yes", "no"}
       /\ \/ ht.pc \in {"open", "global"}
          \/ /\ ht.pc \in {"pty", "shell", "env"}
             /\ new.answer = "yes" => dt'.chan = ht.d
             /\ new.answer = "no" => dch'[ht.d].state # "open"

Reached == HackerHeld \cup {None, NextHacker}

ThreadMoves ==
    /\ ht' \in HackerThreads
    /\ ht' = ht \/ ThreadMay(ht')
    /\ {ht'.chan, ht'.h} \subseteq Reached

LEMMA ThreadReaches == {ht.chan, ht.h, None} \subseteq Reached
BY DEF Reached, HackerHeld, HeldWith

(* The end of a request, and of the thread.                                 *)
LEMMA IdleMoves ==
    ASSUME SessionInv, NEW h \in HackerIds, NEW c \in HackerIds, c \in Reached,
           ht' = Idle(h, c), ht.pc # "off",
           ht.pc \in {"pty", "shell", "env"} => ht.answer # "none" \/ ~dt.active
    PROVE  ThreadMoves
<1>1. Fields
  BY DEF SessionInv
<1>2. /\ ht' \in HackerThreads /\ ht'.pc = "read" /\ ht'.chan = c /\ ht'.h = None /\ ht'.d = None
      /\ ht'.answer = "none"
  BY <1>1, IdleIs
<1> QED
  BY <1>2, ThreadReaches DEF ThreadMoves, ThreadMay

LEMMA DeadMoves ==
    ASSUME SessionInv, HackerDead, ht.pc # "off",
           ht.pc \in {"pty", "shell", "env"} => ht.answer # "none" \/ ~dt.active
    PROVE  ThreadMoves
<1>1. Fields
  BY DEF SessionInv
<1>2. /\ ht' \in HackerThreads /\ ht'.pc = "dead" /\ ht'.chan = None /\ ht'.h = None /\ ht'.d = None
      /\ ht'.answer = "none"
  BY <1>1, HackerDeadIs
<1> QED
  BY <1>2, ThreadReaches DEF ThreadMoves, ThreadMay

LEMMA AskMoves ==
    ASSUME SessionInv, NEW h \in HackerChannels, NEW c \in HackerIds,
           NEW wish \in AllWishes, AskChannel(h, c, wish), ht.pc = "read",
           {h, c} \subseteq Reached, service' = service, chain' = chain,
           wish = "direct" => hch'[h].state = "taken"
    PROVE  ThreadMoves
<1>1. /\ Fields /\ NextDocker <= MaxDocker /\ NextDocker \in DockerChannels
      /\ dch' = [dch EXCEPT ![NextDocker] = Asked]
      /\ ht' = [ht EXCEPT !.pc = "open", !.chan = c, !.h = h, !.d = NextDocker, !.wish = wish]
  BY FreshDocker DEF AskChannel, SessionInv
<1>2. dch'[NextDocker].state = "asked"
  BY <1>1 DEF Fields, Asked
<1>3. ht \in HackerThreads /\ h \in HackerIds /\ NextDocker \in DockerIds
  BY <1>1 DEF Fields, HackerIds, DockerIds
<1>4. /\ ht' \in HackerThreads /\ ht'.pc = "open" /\ ht'.chan = c /\ ht'.h = h /\ ht'.d = NextDocker
      /\ ht'.wish = wish /\ ht'.answer = ht.answer
  BY <1>1, <1>3 DEF HackerThreads
<1> QED
  BY <1>1, <1>2, <1>4 DEF ThreadMoves, ThreadMay

(* A request on a channel of the container that is open already.            *)
LEMMA UseMoves ==
    ASSUME SessionInv, NEW h \in HackerChannels, NEW at \in {"shell", "env"}, ht.pc = "read",
           h \in HackerHeld, GetDocker(chain[h]) # None,
           ht' = [ht EXCEPT !.pc = at, !.chan = h, !.h = h, !.d = chain[h]]
    PROVE  ThreadMoves
<1>1. ht \in HackerThreads /\ h \in HackerIds /\ chain[h] \in DockerIds /\ chain[h] # None
  BY DEF SessionInv, Fields, HackerIds, DockerIds, GetDocker
<1>2. /\ ht' \in HackerThreads /\ ht'.pc = at /\ ht'.chan = h /\ ht'.h = h /\ ht'.d = chain[h]
      /\ ht'.answer = ht.answer
  BY <1>1 DEF HackerThreads
<1> QED
  BY <1>1, <1>2 DEF ThreadMoves, ThreadMay, Reached

LEMMA HeldHacker ==
    ASSUME NEW h \in HackerChannels, GetHacker(h) = h
    PROVE  h \in HackerHeld /\ h \in Reached /\ h \in HackerIds
BY NoneIsNoChannel DEF GetHacker, Reached, HackerIds

LEMMA HackerThreadMoves ==
    ASSUME SessionInv, SessionNext
    PROVE  ThreadMoves
<1>1. CASE ht' = ht
  BY <1>1, ThreadReaches DEF ThreadMoves, SessionInv, Fields
<1>2. ht \in HackerThreads /\ ht.h \in HackerIds /\ ht.chan \in HackerIds /\ None \in HackerIds
  BY DEF SessionInv, Fields, HackerThreads, HackerIds
<1>3. CASE StartServer /\ ht' = [ht EXCEPT !.pc = "read", !.active = TRUE]
  <2>1. handler.pc = "serve" /\ ht.pc = "off"
    BY <1>3 DEF StartServer, SessionInv, Lives
  <2>2. handler' = [handler EXCEPT !.pc = "accept"] \/ ht' = ht
    BY <1>3 DEF StartServer
  <2>3. handler' = [handler EXCEPT !.pc = "accept"] => handler'.pc = "accept"
    BY DEF SessionInv, Fields, Handlers
  <2>4. /\ ht' \in HackerThreads /\ ht'.pc = "read" /\ ht'.h = ht.h /\ ht'.d = ht.d
        /\ ht'.answer = ht.answer /\ ht'.chan = ht.chan
    BY <1>2, <1>3 DEF HackerThreads
  <2> QED
    BY <1>1, <2>1, <2>2, <2>3, <2>4, ThreadReaches DEF ThreadMoves, ThreadMay
<1>4. CASE \/ ExecOpened \/ PutDirect \/ ShellDone \/ ShellRefused \/ EnvDone
           \/ (PtyDone /\ ht.wish = "pty") \/ (OpenRefused /\ Answered)
           \/ (PtyRefused /\ Answered) \/ (ForwardDone /\ ~HackerDead)
  <2>1. ht' = Idle(ht.h, ht.chan) \/ ht' = Idle(None, ht.chan)
    BY <1>4 DEF ExecOpened, PutDirect, ShellDone, ShellRefused, EnvDone, PtyDone, OpenRefused,
                PtyRefused, ForwardDone, Answered
  <2>2. /\ ht.pc \in {"open", "put", "shell", "env", "pty", "global"}
        /\ ht.pc \in {"pty", "shell", "env"} => ht.answer # "none" \/ ~dt.active
    BY <1>4 DEF ExecOpened, PutDirect, ShellDone, ShellRefused, EnvDone, PtyDone, OpenRefused,
                PtyRefused, ForwardDone, Yes, No
  <2> QED
    BY <1>2, <2>1, <2>2, IdleMoves, ThreadReaches
<1>5. CASE /\ HackerDead
           /\ \/ OpenRefused \/ PtyRefused \/ ForwardDone \/ HackerDrops \/ RequestDirect
              \/ RequestForward \/ \E h \in HackerChannels : RequestShell(h)
  <2>1. /\ ht.pc \in {"open", "pty", "global", "read"}
        /\ ht.pc \in {"pty", "shell", "env"} => ht.answer # "none" \/ ~dt.active
    BY <1>5 DEF OpenRefused, PtyRefused, ForwardDone, HackerDrops, RequestDirect, RequestForward,
                RequestShell, Request, HackerReads, No
  <2> QED
    BY <1>5, <2>1, DeadMoves
<1>6. ASSUME NEW h \in HackerChannels, NEW wish, Request(h, wish), Refused(h)
      PROVE  ThreadMoves
  <2>1. ht.pc = "read" /\ GetHacker(h) = h /\ ht' = Idle(h, h)
    BY <1>6 DEF Request, Refused, HackerReads, HackerOpen
  <2> QED
    BY <2>1, IdleMoves, HeldHacker
<1>7. ASSUME NEW h \in HackerChannels, NEW wish \in {"pty", "exec", "shell"}, Request(h, wish),
             AskChannel(h, h, wish)
      PROVE  ThreadMoves
  <2>1. ht.pc = "read" /\ GetHacker(h) = h /\ service' = service /\ chain' = chain
    BY <1>7 DEF Request, HackerReads, HackerOpen
  <2>2. wish \in AllWishes /\ wish # "direct"
    BY DEF AllWishes
  <2> QED
    BY <1>7, <2>1, <2>2, AskMoves, HeldHacker
<1>8. CASE RequestDirect /\ dt.active
  <2>1. /\ ht.pc = "read" /\ NextHacker <= MaxHacker /\ AskChannel(NextHacker, ht.chan, "direct")
        /\ hch' = [hch EXCEPT ![NextHacker].state = "taken"] /\ service' = service /\ chain' = chain
    BY <1>8 DEF RequestDirect, HackerReads
  <2>2. NextHacker \in HackerChannels /\ hch \in [HackerChannels -> ChannelStates]
    BY <2>1, FreshHacker DEF SessionInv, Fields
  <2>3. hch[NextHacker] \in ChannelStates
    BY <2>2
  <2>4. hch'[NextHacker].state = "taken"
    BY <2>1, <2>2, <2>3 DEF ChannelStates
  <2>5. "direct" \in AllWishes /\ {NextHacker, ht.chan} \subseteq Reached
    BY ThreadReaches DEF AllWishes, Reached
  <2> QED
    BY <1>2, <2>1, <2>2, <2>4, <2>5, AskMoves
<1>9. ASSUME NEW h \in HackerChannels, RequestShell(h) \/ RequestEnv(h),
             GetDocker(chain[h]) # None,
             \E at \in {"shell", "env"} : ht' = [ht EXCEPT !.pc = at, !.chan = h, !.h = h, !.d = chain[h]]
      PROVE  ThreadMoves
  <2>1. ht.pc = "read" /\ GetHacker(h) = h
    BY <1>9 DEF RequestShell, RequestEnv, Request, HackerReads, HackerOpen
  <2> QED
    BY <1>9, <2>1, UseMoves, HeldHacker
<1>10. CASE RequestForward /\ dt.active
  <2>1. ht.pc = "read" /\ ht' = [ht EXCEPT !.pc = "global"]
    BY <1>10 DEF RequestForward, HackerReads
  <2>2. /\ ht' \in HackerThreads /\ ht'.pc = "global" /\ ht'.h = ht.h /\ ht'.d = ht.d
        /\ ht'.answer = ht.answer /\ ht'.chan = ht.chan
    BY <1>2, <2>1 DEF HackerThreads
  <2> QED
    BY <2>1, <2>2, ThreadReaches DEF ThreadMoves, ThreadMay
<1>11. ASSUME NEW h \in HackerChannels, HackerSpeaks(h) \/ HackerClose(h)
       PROVE  ThreadMoves
  <2>1. ht.pc = "read" /\ GetHacker(h) = h /\ \E c \in {h, None} : ht' = [ht EXCEPT !.chan = c]
    BY <1>11 DEF HackerSpeaks, HackerClose, HackerReads, HackerOpen
  <2>2. PICK c \in {h, None} : ht' = [ht EXCEPT !.chan = c]
    BY <2>1
  <2>3. c \in HackerIds /\ c \in Reached
    BY <1>2, <2>1, HeldHacker, ThreadReaches
  <2>4. /\ ht' \in HackerThreads /\ ht'.pc = "read" /\ ht'.h = ht.h /\ ht'.d = ht.d
        /\ ht'.answer = ht.answer /\ ht'.chan = c
    BY <1>2, <2>1, <2>2, <2>3 DEF HackerThreads
  <2> QED
    BY <2>1, <2>3, <2>4, ThreadReaches DEF ThreadMoves, ThreadMay
<1>12. CASE SessionOpened \/ (PtyDone /\ ht.wish # "pty")
  <2>1. PICK at \in {"pty", "shell"} :
           /\ ht' = [ht EXCEPT !.pc = at, !.answer = "none"]
           /\ (ht.pc = "open" /\ at = "pty") \/ (ht.pc = "pty" /\ at = "shell")
    BY <1>12 DEF SessionOpened, PtyDone
  <2>2. /\ ht' \in HackerThreads /\ ht'.pc = at /\ ht'.h = ht.h /\ ht'.d = ht.d
        /\ ht'.answer = "none" /\ ht'.chan = ht.chan
    BY <1>2, <2>1 DEF HackerThreads
  <2> QED
    BY <2>1, <2>2, ThreadReaches DEF ThreadMoves, ThreadMay
<1>13. CASE DirectOpened
  <2>1. ht.pc = "open" /\ ht.wish = "direct" /\ ht' = [ht EXCEPT !.pc = "put", !.d = None]
    BY <1>13 DEF DirectOpened
  <2>2. None \in DockerIds
    BY DEF DockerIds
  <2>3. /\ ht' \in HackerThreads /\ ht'.pc = "put" /\ ht'.h = ht.h /\ ht'.d = None /\ ht'.chan = ht.chan
    BY <1>2, <2>1, <2>2 DEF HackerThreads
  <2> QED
    BY <2>1, <2>3, ThreadReaches DEF ThreadMoves, ThreadMay
<1>14. CASE AnswerOpen \/ AnswerGlobal \/ AnswerRequest
  <2>1. PICK answer \in {"yes", "no"} : ht' = [ht EXCEPT !.answer = answer]
    BY <1>14 DEF AnswerOpen, AnswerGlobal, AnswerRequest
  <2>2. /\ ht' \in HackerThreads /\ ht'.pc = ht.pc /\ ht'.h = ht.h /\ ht'.d = ht.d
        /\ ht'.answer = answer /\ ht'.chan = ht.chan /\ ht'.wish = ht.wish
    BY <1>2, <2>1 DEF HackerThreads
  <2>3. dt.pc = "read"
    BY <1>14 DEF AnswerOpen, AnswerGlobal, AnswerRequest, DockerReads
  <2>4. CASE AnswerOpen \/ AnswerGlobal
    BY <2>2, <2>3, <2>4, ThreadReaches DEF ThreadMoves, ThreadMay, AnswerOpen, AnswerGlobal
  <2>5. CASE AnswerRequest
    <3>1. ht.pc \in {"pty", "shell", "env"} /\ dt' = [dt EXCEPT !.chan = ht.d]
      BY <2>5 DEF AnswerRequest, Speaks
    <3>2. dt'.chan = ht.d
      BY <3>1 DEF SessionInv, Fields, DockerThreads
    <3>3. /\ ht.d \in DockerChannels
          /\ dch \in [DockerChannels -> ChannelStates]
      BY <1>2, <3>1 DEF SessionInv, Locals, Fields, HackerThreads, DockerIds
    <3>4. ht'.answer = "yes" \/ dch' = [dch EXCEPT ![ht.d] = ClosedByUser(@)]
      <4>1. ht' = [ht EXCEPT !.answer = "yes"] \/ dch' = [dch EXCEPT ![ht.d] = ClosedByUser(@)]
        BY <2>5 DEF AnswerRequest
      <4> QED
        BY <4>1, <1>2 DEF HackerThreads
    <3>5. ht'.answer = "no" => dch'[ht.d].state # "open"
      BY <3>3, <3>4, ClosedByUserAt
    <3> QED
      BY <2>2, <2>3, <3>1, <3>2, <3>5, ThreadReaches DEF ThreadMoves, ThreadMay
  <2> QED
    BY <1>14, <2>4, <2>5
<1>15. ASSUME NEW h \in HackerChannels, RequestSession(h) PROVE ThreadMoves
  BY <1>6, <1>7, <1>15 DEF RequestSession
<1>16. ASSUME NEW h \in HackerChannels, RequestShell(h) PROVE ThreadMoves
  BY <1>5, <1>6, <1>7, <1>9, <1>16 DEF RequestShell
<1>17. ASSUME NEW h \in HackerChannels, RequestEnv(h) PROVE ThreadMoves
  BY <1>6, <1>9, <1>17 DEF RequestEnv
<1>18. CASE RequestDirect \/ RequestForward \/ OpenRefused \/ PtyRefused \/ PtyDone \/ ForwardDone
            \/ StartServer
  BY <1>1, <1>3, <1>4, <1>5, <1>8, <1>10, <1>12, <1>18
     DEF RequestDirect, RequestForward, OpenRefused, PtyRefused, StartServer
<1> QED
  BY <1>1, <1>4, <1>5, <1>11, <1>12, <1>13, <1>14, <1>15, <1>16, <1>17, <1>18, Zenon
     DEF SessionNext, Handler, HackerThread, Hacker, Docker, DockerAnswers, ServiceThreads, ServiceSteps,
         InitServer, Accept, CloseDocker, JoinDocker, ShutdownRequest, OpenSession, HackerDrops,
         AnswerExec, DockerForwards, DockerDead, DockerSpeaks, DockerClose, ExecRuns, DirectFinds,
         DirectLooks, ReverseOpens, ReverseFails, RelayEnds, hackers

(* What a step may do to the container's thread: it is never blocked, and a *)
(* channel with an old message is remembered.                               *)
DockerMay(new) ==
    \/ handler.pc = "init" /\ handler'.pc = "serve" /\ new.pc = "read"
    \/ new.pc = dt.pc /\ (new.active => dt.active)
    \/ dt.pc = "read" /\ new.pc = "dead" /\ ~new.active

RemembersStill(c) ==
    (c = dt.chan \/ c \in overtaken) /\ service'[c].pc = "none" =>
        c = dt'.chan \/ c \in overtaken' \/ dch'[c].state = "closed" \/ ~dt'.active

DockerThreadMoves ==
    /\ dt' \in DockerThreads /\ DockerMay(dt')
    /\ \A c \in DockerChannels : RemembersStill(c)

LEMMA SameDocker ==
    ASSUME SessionInv, dt' = dt, overtaken' = overtaken
    PROVE  DockerThreadMoves
BY DEF DockerThreadMoves, DockerMay, RemembersStill, SessionInv, Fields

LEMMA SpeaksMoves ==
    ASSUME SessionInv, SessionNext, NEW d \in DockerChannels, NEW kept \in {d, None},
           Speaks(d, kept), kept = None => dch'[d].state = "closed"
    PROVE  DockerThreadMoves
<1>1. /\ dt' = [dt EXCEPT !.chan = kept]
      /\ overtaken' = {c \in (overtaken \cup {dt.chan}) \ {None, d} : service[c].pc = "none"}
  BY DEF Speaks
<1>2. dt \in DockerThreads /\ kept \in DockerIds
  BY DEF SessionInv, Fields, DockerIds
<1>3. dt' \in DockerThreads /\ dt'.pc = dt.pc /\ dt'.active = dt.active /\ dt'.chan = kept
  BY <1>1, <1>2 DEF DockerThreads
<1>4. ASSUME NEW c \in DockerChannels, c = dt.chan \/ c \in overtaken, service'[c].pc = "none"
      PROVE  c = dt'.chan \/ c \in overtaken' \/ dch'[c].state = "closed"
  <2>1. CASE c = d
    BY <1>3, <2>1
  <2>2. CASE c # d
    <3>1. ServicesMove
      BY ServiceThreadsMove
    <3>2. service[c].pc = "none"
      BY <1>4, <3>1 DEF ServicesMove, ServiceMoves, ServiceMay
    <3> QED
      BY <1>1, <1>4, <2>2, <3>2, NoneIsNoChannel
  <2> QED
    BY <2>1, <2>2
<1> QED
  BY <1>3, <1>4 DEF DockerThreadMoves, DockerMay, RemembersStill

LEMMA DockersThreadMoves ==
    ASSUME SessionInv, SessionNext
    PROVE  DockerThreadMoves
<1>1. CASE dt' = dt /\ overtaken' = overtaken
  BY <1>1, SameDocker
<1>2. dt \in DockerThreads /\ (dt.active => dt.pc = "read")
  BY DEF SessionInv, Fields, Lives
<1>3. CASE InitServer
  <2>1. CASE handler' = [handler EXCEPT !.pc = "serve"] /\ dt' = [dt EXCEPT !.pc = "read", !.active = TRUE]
    <3>1. /\ dt' \in DockerThreads /\ dt'.pc = "read" /\ dt'.chan = dt.chan
      BY <1>2, <2>1 DEF DockerThreads
    <3>2. handler.pc = "init" /\ handler'.pc = "serve" /\ overtaken' = overtaken
      BY <1>3, <2>1 DEF InitServer, history, SessionInv, Fields, Handlers
    <3> QED
      BY <3>1, <3>2 DEF DockerThreadMoves, DockerMay, RemembersStill
  <2> QED
    BY <1>1, <1>3, <2>1 DEF InitServer, history
<1>4. CASE CloseDocker
  <2>1. dt' = [dt EXCEPT !.active = FALSE] /\ overtaken' = overtaken
    BY <1>4 DEF CloseDocker, Deactivated, history
  <2>2. dt' \in DockerThreads /\ dt'.pc = dt.pc /\ dt'.chan = dt.chan /\ ~dt'.active
    BY <1>2, <2>1 DEF DockerThreads
  <2> QED
    BY <2>1, <2>2 DEF DockerThreadMoves, DockerMay, RemembersStill
<1>5. CASE DockerDead
  <2>1. dt' = [pc |-> "dead", active |-> FALSE, chan |-> None] /\ None \in DockerIds
    BY <1>5 DEF DockerDead, DockerIds
  <2>2. dt' \in DockerThreads /\ dt.pc = "read" /\ dt'.pc = "dead" /\ ~dt'.active
    BY <1>5, <2>1 DEF DockerThreads, DockerDead
  <2> QED
    BY <2>2 DEF DockerThreadMoves, DockerMay, RemembersStill
<1>6. CASE DockerForwards
  <2>1. dt.pc = "read" /\ dt' = [dt EXCEPT !.pc = "read"] /\ overtaken' = overtaken
    BY <1>6 DEF DockerForwards, DockerReads, AfterHandler, history
  <2>2. dt' = dt
    BY <1>2, <2>1 DEF DockerThreads
  <2> QED
    BY <1>1, <2>1, <2>2
<1>7. ASSUME NEW d, Unblocked(d), overtaken' = overtaken PROVE DockerThreadMoves
  <2>1. dt' = [dt EXCEPT !.pc = IF dt.pc = "blocked" THEN "read" ELSE dt.pc]
    BY <1>7 DEF Unblocked
  <2>2. dt.pc # "blocked"
    BY <1>2 DEF DockerThreads
  <2>3. dt' = dt
    BY <1>2, <2>1, <2>2 DEF DockerThreads
  <2> QED
    BY <1>1, <1>7, <2>3
<1>8. CASE AnswerRequest
  <2>1. ht.d \in DockerChannels /\ Speaks(ht.d, ht.d)
    BY <1>8 DEF AnswerRequest, SessionInv, Locals, Fields, HackerThreads, DockerIds
  <2> QED
    BY <2>1, SpeaksMoves, NoneIsNoChannel
<1>9. ASSUME NEW d \in DockerChannels, AnswerExec(d) \/ DockerSpeaks(d) PROVE DockerThreadMoves
  BY <1>9, SpeaksMoves, NoneIsNoChannel DEF AnswerExec, DockerSpeaks
<1>10. ASSUME NEW d \in DockerChannels, DockerClose(d) PROVE DockerThreadMoves
  <2>1. Speaks(d, None) /\ dch' = [dch EXCEPT ![d] = ClosedByPeer(@)]
    BY <1>10 DEF DockerClose
  <2>2. dch[d] \in ChannelStates /\ dch \in [DockerChannels -> ChannelStates]
    BY DEF SessionInv, Fields
  <2>3. dch'[d].state = "closed"
    BY <2>1, <2>2, ClosedIs
  <2> QED
    BY <2>1, <2>3, SpeaksMoves
<1> QED
  BY <1>1, <1>3, <1>4, <1>5, <1>6, <1>7, <1>8, <1>9, <1>10, Zenon
     DEF SessionNext, Handler, HackerThread, Hacker, Docker, DockerAnswers, ServiceThreads, ServiceSteps,
         StartServer, Accept, JoinDocker, ShutdownRequest, SessionOpened, history, dockers,
         ExecOpened, DirectOpened, PutDirect, OpenRefused, PtyDone, PtyRefused, ShellDone, ShellRefused,
         EnvDone, ForwardDone, OpenSession, RequestDirect, RequestForward, HackerDrops, RequestSession,
         RequestShell, RequestEnv, Request, HackerSpeaks, HackerClose, AnswerOpen,
         AnswerGlobal, ExecRuns, DirectFinds, DirectLooks, ReverseOpens, ReverseFails, RelayEnds

(* What a step may do to the handler's thread and to its last look.         *)
HandlerMay(new) ==
    \/ new.pc = handler.pc /\ new.chann = handler.chann /\ known' = known
    \/ handler.pc = "init" /\ new.pc \in {"serve", "shutdown"} /\ new.chann = handler.chann /\ known' = known
    \/ /\ handler.pc = "serve" /\ new.pc \in {"accept", "shutdown", "close"}
       /\ new.chann = handler.chann /\ known' = known
    \/ /\ handler.pc = "accept" /\ new.pc = "accept" /\ known' = known
       /\ new.chann = None \/ (accepts # <<>> /\ new.chann = Head(accepts))
    \/ /\ handler.pc = "accept" /\ new.pc = "close" /\ NoChannel(new.chann)
       /\ new.chann = None \/ (accepts # <<>> /\ new.chann = Head(accepts))
       /\ known' = {h \in HackerChannels : hch[h].state \in {"open", "closed"}}
       /\ UNCHANGED <<ht, hch, service>>
       /\ accepts' = IF accepts = <<>> THEN <<>> ELSE Tail(accepts)
    \/ handler.pc = "close" /\ new.pc = "join" /\ new.chann = handler.chann /\ known' = known
    \/ /\ handler.pc = "join" /\ new.pc = "shutdown" /\ new.chann = handler.chann /\ known' = known
       /\ dt.pc = "dead" /\ dt' = dt /\ dch' = UnlinkedAll(dch)
    \/ handler.pc = "shutdown" /\ new.pc = "done" /\ new.chann = None /\ known' = known

HandlerMoves == handler' \in Handlers /\ HandlerMay(handler')

LEMMA HandlerThreadMoves ==
    ASSUME SessionInv, SessionNext
    PROVE  HandlerMoves
<1>1. handler \in Handlers /\ accepts \in Seq(HackerChannels) /\ None \in HackerIds
  BY DEF SessionInv, Fields, HackerIds
<1>2. CASE handler' = handler /\ known' = known
  BY <1>1, <1>2 DEF HandlerMoves, HandlerMay
<1>3. CASE Accept
  <2> DEFINE chann == IF accepts = <<>> THEN None ELSE Head(accepts)
  <2>1. chann \in HackerIds
    BY <1>1 DEF HackerIds
  <2>2. PICK at \in {"accept", "close"} :
           /\ handler' = [pc |-> at, chann |-> chann]
           /\ at = "close" => NoChannel(chann)
    BY <1>3 DEF Accept
  <2>3. handler' \in Handlers /\ handler'.pc = at /\ handler'.chann = chann
    BY <2>1, <2>2 DEF Handlers
  <2>4. CASE at = "close"
    <3>1. known' = {h \in HackerChannels : hch[h].state \in {"open", "closed"}}
      BY <1>3, <2>3, <2>4 DEF Accept
    <3> QED
      BY <1>3, <2>2, <2>3, <2>4, <3>1 DEF HandlerMoves, HandlerMay, Accept
  <2>5. CASE at = "accept"
    <3>1. known' = known
      BY <1>3, <2>3, <2>5 DEF Accept
    <3> QED
      BY <1>3, <2>3, <2>5, <3>1 DEF HandlerMoves, HandlerMay, Accept
  <2> QED
    BY <2>4, <2>5
<1>4. CASE InitServer \/ StartServer \/ CloseDocker
  <2>1. PICK at \in {"serve", "accept", "shutdown", "close", "join"} :
           /\ handler' = [handler EXCEPT !.pc = at] /\ known' = known
           /\ \/ handler.pc = "init" /\ at \in {"serve", "shutdown"}
              \/ handler.pc = "serve" /\ at \in {"accept", "shutdown", "close"}
              \/ handler.pc = "close" /\ at = "join"
    BY <1>4 DEF InitServer, StartServer, CloseDocker, history
  <2>2. handler' \in Handlers /\ handler'.pc = at /\ handler'.chann = handler.chann
    BY <1>1, <2>1 DEF Handlers
  <2> QED
    BY <2>1, <2>2 DEF HandlerMoves, HandlerMay
<1>5. CASE JoinDocker
  <2>1. /\ handler' = [handler EXCEPT !.pc = "shutdown"] /\ known' = known /\ handler.pc = "join"
        /\ dt.pc = "dead" /\ dt' = dt /\ dch' = UnlinkedAll(dch)
    BY <1>5 DEF JoinDocker, Joined, history
  <2>2. handler' \in Handlers /\ handler'.pc = "shutdown" /\ handler'.chann = handler.chann
    BY <1>1, <2>1 DEF Handlers
  <2> QED
    BY <2>1, <2>2 DEF HandlerMoves, HandlerMay
<1>6. CASE ShutdownRequest
  <2>1. handler' = [pc |-> "done", chann |-> None] /\ known' = known /\ handler.pc = "shutdown"
    BY <1>6 DEF ShutdownRequest, history
  <2>2. handler' \in Handlers /\ handler'.pc = "done" /\ handler'.chann = None
    BY <1>1, <2>1 DEF Handlers
  <2> QED
    BY <2>1, <2>2 DEF HandlerMoves, HandlerMay
<1> QED
  BY <1>2, <1>3, <1>4, <1>5, <1>6, Zenon
     DEF SessionNext, Handler, HackerThread, Hacker, Docker, DockerAnswers, ServiceThreads, ServiceSteps,
         SessionOpened, history, Speaks,
         ExecOpened, DirectOpened, PutDirect, OpenRefused, PtyDone, PtyRefused, ShellDone, ShellRefused,
         EnvDone, ForwardDone, OpenSession, RequestDirect, RequestForward, HackerDrops, RequestSession,
         RequestShell, RequestEnv, Request, HackerSpeaks, HackerClose, AnswerOpen, AnswerRequest,
         AnswerGlobal, AnswerExec, DockerForwards, DockerDead, DockerSpeaks, DockerClose, ExecRuns,
         DirectFinds, DirectLooks, ReverseOpens, ReverseFails, RelayEnds

(* What a step may do to the chain and to the queue of accept.              *)
ChainMoves ==
    \/ chain' = chain
    \/ /\ chain' = [chain EXCEPT ![ht.h] = ht.d] /\ ht'.pc \notin {"open", "pty"}
       /\ \/ ht.pc = "open" /\ service'[ht.d].pc # "none"
          \/ ht.pc = "pty" /\ ht.answer = "yes"

AcceptsMove ==
    \/ accepts' = accepts
    \/ accepts' = Append(accepts, NextHacker) /\ NextHacker <= MaxHacker
    \/ accepts' = Append(accepts, ht.h) /\ ht.pc = "put"
    \/ accepts # <<>> /\ accepts' = Tail(accepts)

LEMMA ChainsMove ==
    ASSUME SessionInv, SessionNext
    PROVE  ChainMoves /\ AcceptsMove
<1>1. /\ ht \in HackerThreads /\ ht.h \in HackerIds /\ ht.chan \in HackerIds /\ ht.d \in DockerIds
      /\ service \in [DockerChannels -> ServiceStates] /\ Fields
  BY DEF SessionInv, Fields, HackerThreads
<1>2. AcceptsMove
  BY Zenon DEF AcceptsMove, 
         SessionNext, Handler, HackerThread, Hacker, Docker, DockerAnswers, ServiceThreads, ServiceSteps,
         SessionOpened, hackers, InitServer, StartServer, Accept, CloseDocker, JoinDocker, ShutdownRequest,
         ExecOpened, DirectOpened, PutDirect, OpenRefused, PtyDone, PtyRefused, ShellDone, ShellRefused,
         EnvDone, ForwardDone, OpenSession, RequestDirect, RequestForward, HackerDrops, RequestSession,
         RequestShell, RequestEnv, Request, HackerSpeaks, HackerClose, AnswerOpen, AnswerRequest,
         AnswerGlobal, AnswerExec, DockerForwards, DockerDead, DockerSpeaks, DockerClose, ExecRuns,
         DirectFinds, DirectLooks, ReverseOpens, ReverseFails, RelayEnds
<1>3. CASE chain' = chain
  BY <1>2, <1>3 DEF ChainMoves
<1>4. CASE ExecOpened
  <2>1. /\ chain' = [chain EXCEPT ![ht.h] = ht.d] /\ ht.pc = "open"
        /\ service' = [service EXCEPT ![ht.d] = Started(ht.h, "exec")] /\ ht' = Idle(ht.h, ht.chan)
    BY <1>4 DEF ExecOpened, Start, Started, Answered
  <2>2. ht.d \in DockerChannels
    BY <1>1, <2>1 DEF SessionInv, Locals, DockerIds
  <2>3. service'[ht.d].pc # "none" /\ ht'.pc = "read"
    BY <1>1, <2>1, <2>2, IdleIs, NewServiceIs
  <2> QED
    BY <1>2, <2>1, <2>3 DEF ChainMoves
<1>5. CASE DirectOpened
  <2>1. /\ chain' = [chain EXCEPT ![ht.h] = ht.d] /\ ht.pc = "open"
        /\ service' = [service EXCEPT ![ht.d] = Seeking(ht.h)]
        /\ ht' = [ht EXCEPT !.pc = "put", !.d = None]
    BY <1>5 DEF DirectOpened, Seeking
  <2>2. ht.d \in DockerChannels
    BY <1>1, <2>1 DEF SessionInv, Locals, DockerIds
  <2>3. service'[ht.d].pc # "none"
    BY <1>1, <2>1, <2>2, NewServiceIs
  <2>4. ht'.pc = "put"
    BY <1>1, <2>1 DEF HackerThreads
  <2> QED
    BY <1>2, <2>1, <2>3, <2>4 DEF ChainMoves
<1>6. CASE PtyDone
  <2>1. /\ chain' = [chain EXCEPT ![ht.h] = ht.d] /\ ht.pc = "pty" /\ ht.answer = "yes"
        /\ ht' = Idle(ht.h, ht.chan) \/ ht' = [ht EXCEPT !.pc = "shell", !.answer = "none"]
    BY <1>6 DEF PtyDone, Answered, Yes
  <2>2. ht' = Idle(ht.h, ht.chan) => ht'.pc = "read"
    BY <1>1, IdleIs
  <2>3. ht' = [ht EXCEPT !.pc = "shell", !.answer = "none"] => ht'.pc = "shell"
    BY <1>1 DEF HackerThreads
  <2> QED
    BY <1>2, <2>1, <2>2, <2>3 DEF ChainMoves
<1> QED
  BY <1>3, <1>4, <1>5, <1>6, <1>2, Zenon
     DEF SessionNext, Handler, HackerThread, Hacker, Docker, DockerAnswers, ServiceThreads, ServiceSteps,
         SessionOpened, InitServer, StartServer, Accept, CloseDocker, JoinDocker, ShutdownRequest,
         PutDirect, OpenRefused, PtyRefused, ShellDone, ShellRefused,
         EnvDone, ForwardDone, OpenSession, RequestDirect, RequestForward, HackerDrops, RequestSession,
         RequestShell, RequestEnv, Request, HackerSpeaks, HackerClose, AnswerOpen, AnswerRequest,
         AnswerGlobal, AnswerExec, DockerForwards, DockerDead, DockerSpeaks, DockerClose, ExecRuns,
         DirectFinds, DirectLooks, ReverseOpens, ReverseFails, RelayEnds

(****************************************************************************)
(* The invariant is kept.                                                   *)
(****************************************************************************)
StepMoves ==
    /\ HackersMove /\ DockersMove /\ ServicesMove /\ ThreadMoves /\ DockerThreadMoves
    /\ HandlerMoves /\ ChainMoves /\ AcceptsMove

LEMMA AllMove == SessionInv /\ SessionNext => StepMoves
BY HackerChannelsMove, DockerChannelsMove, ServiceThreadsMove, HackerThreadMoves, DockersThreadMoves,
   HandlerThreadMoves, ChainsMove DEF StepMoves

LEMMA FieldsStay == SessionInv /\ StepMoves => Fields'
<1> SUFFICES ASSUME SessionInv, StepMoves PROVE Fields'
  OBVIOUS
<1>1. handler' \in Handlers /\ ht' \in HackerThreads /\ dt' \in DockerThreads
  BY DEF StepMoves, HandlerMoves, ThreadMoves, DockerThreadMoves
<1>2. /\ hch' \in [HackerChannels -> ChannelStates] /\ dch' \in [DockerChannels -> ChannelStates]
      /\ service' \in [DockerChannels -> ServiceStates]
  BY DEF StepMoves, HackersMove, DockersMove, ServicesMove
<1>3. ASSUME NEW h \in HackerChannels PROVE hch'[h].state # "asked"
  BY DEF StepMoves, HackersMove, HackerMoves, SessionInv, Fields
<1>4. ASSUME NEW d \in DockerChannels PROVE dch'[d].state # "taken"
  BY DEF StepMoves, DockersMove, DockerMoves, SessionInv, Fields
<1>5. chain' \in [HackerChannels -> DockerIds]
  BY DEF StepMoves, ChainMoves, SessionInv, Fields, HackerThreads
<1>6. accepts' \in Seq(HackerChannels)
  <2>1. Fields /\ Numbered /\ accepts \in Seq(HackerChannels)
    BY DEF SessionInv, Fields
  <2>2. ht.pc = "put" => ht.h \in HackerChannels
    BY DEF SessionInv, Fields, Locals, HackerThreads, HackerIds
  <2> QED
    BY <2>1, <2>2, FreshHacker DEF StepMoves, AcceptsMove
<1> QED
  BY <1>1, <1>2, <1>3, <1>4, <1>5, <1>6 DEF Fields

LEMMA HackerStates ==
    ASSUME SessionInv, StepMoves, NEW h \in HackerChannels
    PROVE  /\ hch[h].state # "none" => hch'[h].state # "none"
           /\ hch[h].state = "none" /\ hch'[h].state # "none" =>
                h = NextHacker /\ NextHacker <= MaxHacker
<1>1. HackerMoves(h) /\ (ht.pc = "put" => hch[ht.h].state = "taken")
  BY DEF StepMoves, HackersMove, SessionInv, Locals
<1> QED
  BY <1>1 DEF HackerMoves

LEMMA DockerStates ==
    ASSUME SessionInv, StepMoves, NEW d \in DockerChannels
    PROVE  /\ dch[d].state # "none" => dch'[d].state # "none"
           /\ dch[d].state = "none" /\ dch'[d].state # "none" =>
                d = NextDocker /\ NextDocker <= MaxDocker
<1>1. /\ DockerMoves(d) 
      /\ ht.pc = "open" /\ d = ht.d => dch[d].state # "none"
  BY DEF StepMoves, DockersMove, SessionInv, Unserved
<1> QED
  BY <1>1 DEF DockerMoves

LEMMA NumberedStays == SessionInv /\ StepMoves => Numbered'
<1> SUFFICES ASSUME SessionInv, StepMoves PROVE Numbered'
  OBVIOUS
<1>1. \E k \in 0 .. MaxHacker : {h \in HackerChannels : hch'[h].state # "none"} = 1 .. k
  <2>1. Fields /\ Numbered
    BY DEF SessionInv
  <2>2. CASE \A h \in HackerChannels : hch'[h].state # "none" => hch[h].state # "none"
    <3>1. {h \in HackerChannels : hch'[h].state # "none"} = {h \in HackerChannels : hch[h].state # "none"}
      BY <2>2, HackerStates
    <3> QED
      BY <2>1, <3>1 DEF Numbered
  <2>3. CASE \E h \in HackerChannels : hch'[h].state # "none" /\ hch[h].state = "none"
    <3>1. NextHacker <= MaxHacker /\ hch'[NextHacker].state # "none"
      BY <2>3, HackerStates
    <3>2. /\ NextHacker \in 1 .. MaxHacker
          /\ {h \in HackerChannels : hch[h].state # "none"} = 1 .. NextHacker - 1
      BY <2>1, <3>1, FreshHacker DEF HackerChannels
    <3>3. PICK n \in 1 .. MaxHacker : n = NextHacker
      BY <3>2
    <3>4. {h \in HackerChannels : hch'[h].state # "none"}
            = {h \in HackerChannels : hch[h].state # "none"} \cup {n}
      BY <3>1, <3>3, HackerStates DEF HackerChannels
    <3>5. {h \in HackerChannels : hch'[h].state # "none"} = 1 .. n
      BY <3>2, <3>3, <3>4, Bounds
    <3> QED
      BY <3>5, Bounds
  <2> QED
    BY <2>2, <2>3
<1>2. \E k \in 0 .. MaxDocker : {d \in DockerChannels : dch'[d].state # "none"} = 1 .. k
  <2>1. Fields /\ Numbered
    BY DEF SessionInv
  <2>2. CASE \A d \in DockerChannels : dch'[d].state # "none" => dch[d].state # "none"
    <3>1. {d \in DockerChannels : dch'[d].state # "none"} = {d \in DockerChannels : dch[d].state # "none"}
      BY <2>2, DockerStates
    <3> QED
      BY <2>1, <3>1 DEF Numbered
  <2>3. CASE \E d \in DockerChannels : dch'[d].state # "none" /\ dch[d].state = "none"
    <3>1. NextDocker <= MaxDocker /\ dch'[NextDocker].state # "none"
      BY <2>3, DockerStates
    <3>2. /\ NextDocker \in 1 .. MaxDocker
          /\ {d \in DockerChannels : dch[d].state # "none"} = 1 .. NextDocker - 1
      BY <2>1, <3>1, FreshDocker DEF DockerChannels
    <3>3. PICK n \in 1 .. MaxDocker : n = NextDocker
      BY <3>2
    <3>4. {d \in DockerChannels : dch'[d].state # "none"}
            = {d \in DockerChannels : dch[d].state # "none"} \cup {n}
      BY <3>1, <3>3, DockerStates DEF DockerChannels
    <3>5. {d \in DockerChannels : dch'[d].state # "none"} = 1 .. n
      BY <3>2, <3>3, <3>4, Bounds
    <3> QED
      BY <3>5, Bounds
  <2> QED
    BY <2>2, <2>3
<1> QED
  BY <1>1, <1>2 DEF Numbered

LEMMA MappedStays == SessionInv /\ StepMoves => Mapped'
<1> SUFFICES ASSUME SessionInv, StepMoves PROVE Mapped'
  OBVIOUS
<1>1. ASSUME NEW h \in HackerChannels, hch'[h].linked PROVE hch'[h].state \in {"open", "closed"}
  <2>1. HackerMoves(h) /\ (hch[h].linked => hch[h].state \in {"open", "closed"})
    BY DEF StepMoves, HackersMove, SessionInv, Mapped
  <2> QED
    BY <1>1, <2>1 DEF HackerMoves
<1>2. ASSUME NEW d \in DockerChannels, dch'[d].state = "open" PROVE dch'[d].linked
  <2>1. DockerMoves(d) /\ (dch[d].state = "open" => dch[d].linked)
    BY DEF StepMoves, DockersMove, SessionInv, Mapped
  <2> QED
    BY <1>2, <2>1 DEF DockerMoves
<1> QED
  BY <1>1, <1>2 DEF Mapped

LEMMA LocalsStay == SessionInv /\ StepMoves => Locals'
<1> SUFFICES ASSUME SessionInv, StepMoves PROVE Locals'
  OBVIOUS
<1>1. /\ ht' = ht \/ ThreadMay(ht')
      /\ ht \in HackerThreads /\ ht' \in HackerThreads /\ Locals
  BY DEF StepMoves, ThreadMoves, SessionInv, Fields
<1>2. ht'.pc \in {"off", "read", "global", "dead"} => ht'.h = None /\ ht'.d = None
  BY <1>1 DEF ThreadMay, Locals
<1>3. ht'.pc \in {"off", "read", "dead"} => ht'.answer = "none"
  BY <1>1 DEF ThreadMay, Locals
<1>4. ht'.pc \in {"open", "pty", "shell", "env"} => ht'.h # None /\ ht'.d # None
  <2>1. NextDocker <= MaxDocker => NextDocker # None
    BY FreshDocker, NoneIsNoChannel DEF SessionInv
  <2> QED
    BY <1>1, <2>1, NoneIsNoChannel DEF ThreadMay, Locals
<1>5. ht'.pc = "put" => ht'.h # None /\ ht'.d = None
  BY <1>1 DEF ThreadMay, Locals
<1>6. ASSUME ht'.pc = "put" \/ (ht'.pc = "open" /\ ht'.wish = "direct")
      PROVE  hch'[ht'.h].state = "taken"
  <2>1. \/ ht'.h = ht.h /\ (ht.pc = "put" \/ (ht.pc = "open" /\ ht.wish = "direct"))
        \/ hch'[ht'.h].state = "taken"
    BY <1>1, <1>6 DEF ThreadMay
  <2>2. CASE ht'.h = ht.h /\ (ht.pc = "put" \/ (ht.pc = "open" /\ ht.wish = "direct"))
    <3>1. hch[ht.h].state = "taken" /\ ht.h \in HackerChannels
      BY <1>1, <2>2 DEF Locals, HackerThreads, HackerIds
    <3>2. HackerMoves(ht.h)
      BY <3>1 DEF StepMoves, HackersMove
    <3> QED
      BY <1>6, <2>2, <3>1, <3>2 DEF HackerMoves
  <2> QED
    BY <2>1, <2>2
<1> QED
  BY <1>2, <1>3, <1>4, <1>5, <1>6 DEF Locals

LEMMA LivesStay == SessionInv /\ StepMoves => Lives'
<1> SUFFICES ASSUME SessionInv, StepMoves PROVE Lives'
  OBVIOUS
<1>1. (ht' = ht \/ ThreadMay(ht')) /\ HandlerMay(handler') /\ DockerMay(dt') /\ Lives
  BY DEF StepMoves, ThreadMoves, HandlerMoves, DockerThreadMoves, SessionInv
<1>2. /\ ht \in HackerThreads /\ ht' \in HackerThreads /\ handler \in Handlers /\ handler' \in Handlers
      /\ dt \in DockerThreads /\ dt' \in DockerThreads
  BY DEF StepMoves, ThreadMoves, HandlerMoves, DockerThreadMoves, SessionInv, Fields
<1>3. /\ handler'.pc \in {"init", "serve"} => handler.pc \in {"init", "serve"}
      /\ handler'.pc = "init" => handler.pc = "init"
      /\ handler'.pc \in {"shutdown", "done"} =>
           handler.pc \in {"init", "serve", "join", "shutdown", "done"}
      /\ handler.pc = "join" /\ handler'.pc = "shutdown" =>
           dt.pc = "dead" /\ dt' = dt /\ dch' = UnlinkedAll(dch)
      /\ handler'.pc \in {"shutdown", "done"} /\ handler.pc = "join" => handler'.pc = "shutdown"
  BY <1>1, <1>2 DEF HandlerMay, Handlers
<1>4. ht.pc = "off" /\ handler'.pc # "accept" => ht'.pc = "off"
  BY <1>1 DEF ThreadMay
<1>5. handler'.pc \in {"init", "serve"} => ht'.pc = "off"
  BY <1>1, <1>3, <1>4 DEF Lives
<1>6. handler'.pc = "init" => dt'.pc = "off"
  <2>1. handler'.pc = "init" => dt.pc = "off" /\ handler'.pc # "serve"
    BY <1>1, <1>3 DEF Lives
  <2> QED
    BY <1>1, <2>1 DEF DockerMay
<1>7. dt'.active => dt'.pc = "read"
  BY <1>1 DEF DockerMay, Lives
<1>8. ASSUME handler'.pc \in {"shutdown", "done"}, ht'.pc # "off"
      PROVE  dt'.pc = "dead" /\ \A d \in DockerChannels : dch'[d].state # "open"
  <2>1. CASE handler.pc = "join"
    <3>1. dt'.pc = "dead" /\ dch' = UnlinkedAll(dch) /\ dch \in [DockerChannels -> ChannelStates]
      BY <1>3, <1>8, <2>1 DEF SessionInv, Fields
    <3> QED
      BY <3>1, UnlinkedAllIs
  <2>2. CASE handler.pc \in {"init", "serve"}
    BY <1>1, <1>4, <1>8, <2>2 DEF Lives
  <2>3. CASE handler.pc \in {"shutdown", "done"}
    <3>1. ht.pc # "off"
      BY <1>4, <1>8
    <3>2. dt.pc = "dead" /\ \A d \in DockerChannels : dch[d].state # "open"
      BY <1>1, <2>3, <3>1 DEF Lives
    <3>3. dt'.pc = "dead"
      BY <1>1, <2>3, <3>2 DEF DockerMay
    <3>4. ASSUME NEW d \in DockerChannels PROVE dch'[d].state # "open"
      <4>1. DockerMoves(d)
        BY DEF StepMoves, DockersMove
      <4> QED
        BY <3>2, <4>1 DEF DockerMoves, DockerReads
    <3> QED
      BY <3>3, <3>4
  <2> QED
    BY <1>3, <1>8, <2>1, <2>2, <2>3
<1> QED
  BY <1>5, <1>6, <1>7, <1>8 DEF Lives

LEMMA UnservedStays == SessionInv /\ StepMoves => Unserved'
<1> SUFFICES ASSUME SessionInv, StepMoves PROVE Unserved'
  OBVIOUS
<1>1. /\ ht' = ht \/ ThreadMay(ht')
      /\ ht \in HackerThreads /\ ht' \in HackerThreads /\ Unserved /\ Locals /\ Fields /\ Numbered
      /\ ChainMoves
  BY DEF StepMoves, ThreadMoves, SessionInv, Fields
<1>2. \A d \in DockerChannels : ServiceMoves(d) /\ DockerMoves(d)
  BY DEF StepMoves, ServicesMove, DockersMove
<1>3. /\ NextDocker <= MaxDocker => NextDocker \in DockerChannels /\ dch[NextDocker].state = "none"
      /\ NextDocker <= MaxDocker => NextDocker # None
  BY <1>1, FreshDocker, NoneIsNoChannel
<1>4. ASSUME NEW d \in DockerChannels, dch'[d].state = "none"
      PROVE  /\ service'[d].pc = "none" /\ ht'.d # d
             /\ \A h \in HackerChannels : chain'[h] # d
  <2>1. dch[d].state = "none"
    BY <1>4, DockerStates
  <2>2. /\ service[d].pc = "none" /\ ht.d # d
        /\ \A h \in HackerChannels : chain[h] # d
    BY <1>1, <2>1 DEF Unserved
  <2>3. service'[d].pc = "none"
    BY <1>2, <1>4, <2>2 DEF ServiceMoves, ServiceMay
  <2>4. ht'.d # d
    BY <1>1, <1>3, <1>4, <2>2, NoneIsNoChannel DEF ThreadMay
  <2>5. \A h \in HackerChannels : chain'[h] # d
    BY <1>1, <2>2 DEF ChainMoves, Fields
  <2> QED
    BY <2>3, <2>4, <2>5
<1>5. ASSUME NEW d \in DockerChannels, service'[d].pc = "none" PROVE service'[d].answer = "none"
  BY <1>1, <1>2, <1>5 DEF ServiceMoves, ServiceMay, Unserved
<1>6. ASSUME ht'.pc = "open" PROVE service'[ht'.d].pc = "none"
  <2>1. \/ ht.pc = "open" /\ ht'.d = ht.d
        \/ /\ ht'.d = NextDocker /\ NextDocker <= MaxDocker /\ service' = service
    BY <1>1, <1>6 DEF ThreadMay
  <2>2. CASE ht'.d = NextDocker /\ NextDocker <= MaxDocker /\ service' = service
    BY <1>1, <1>3, <2>2 DEF Unserved
  <2>3. CASE ht.pc = "open" /\ ht'.d = ht.d
    <3>1. ht.d \in DockerChannels /\ service[ht.d].pc = "none" /\ dch[ht.d].state # "none"
      BY <1>1, <2>3 DEF Locals, Unserved, HackerThreads, DockerIds
    <3> QED
      BY <1>2, <1>6, <2>3, <3>1 DEF ServiceMoves, ServiceMay
  <2> QED
    BY <2>1, <2>2, <2>3
<1>7. ASSUME ht'.pc \in {"open", "pty"}, NEW h \in HackerChannels PROVE chain'[h] # ht'.d
  <2>1. chain' = chain
    BY <1>1, <1>7 DEF ChainMoves
  <2>2. \/ ht.pc \in {"open", "pty"} /\ ht'.d = ht.d
        \/ ht'.d = NextDocker /\ NextDocker <= MaxDocker
    BY <1>1, <1>7 DEF ThreadMay
  <2> QED
    BY <1>1, <1>3, <2>1, <2>2 DEF Unserved
<1>8. ASSUME handler'.pc = "init", NEW h \in HackerChannels PROVE chain'[h] = None
  <2>1. handler.pc = "init"
    BY <1>8 DEF StepMoves, HandlerMoves, HandlerMay
  <2>2. ht.pc = "off" /\ chain[h] = None
    BY <1>1, <2>1 DEF SessionInv, Lives, Unserved
  <2> QED
    BY <1>1, <2>2 DEF ChainMoves
<1> QED
  BY <1>4, <1>5, <1>6, <1>7, <1>8 DEF Unserved

(* A channel that is not referred to is referred to again only by one who   *)
(* has it already.                                                          *)
LEMMA HeldStays ==
    ASSUME SessionInv, StepMoves, NEW h \in HackerChannels, h \in HackerHeld'
    PROVE  h \in HackerHeld \/ (h = NextHacker /\ hch[h].state = "none")
<1>1. h = NextHacker => hch[h].state = "none"
  BY FreshHacker, Bounds DEF SessionInv, HackerChannels
<1>2. \/ h \in {handler'.chann, ht'.chan, ht'.h}
      \/ \E i \in 1 .. Len(accepts') : h = accepts'[i]
      \/ \E d \in DockerChannels : service'[d].pc \notin {"none", "end"} /\ h = service'[d].h
  BY DEF HackerHeld, HeldWith, Serving
<1>3. /\ {handler.chann, ht.chan, ht.h} \subseteq HackerHeld
      /\ \A i \in 1 .. Len(accepts) : accepts[i] \in HackerHeld
      /\ \A d \in DockerChannels : service[d].pc \notin {"none", "end"} => service[d].h \in HackerHeld
  BY DEF HackerHeld, HeldWith, Serving
<1>4. accepts \in Seq(HackerChannels) /\ h # None /\ accepts' \in Seq(HackerChannels)
  BY NoneIsNoChannel, FieldsStay DEF SessionInv, Fields
<1>5. CASE h \in {ht'.chan, ht'.h}
  <2>1. h \in Reached
    BY <1>5 DEF StepMoves, ThreadMoves
  <2> QED
    BY <1>1, <1>4, <2>1 DEF Reached
<1>6. CASE h = handler'.chann
  <2>1. h = handler.chann \/ (accepts # <<>> /\ h = Head(accepts))
    BY <1>4, <1>6 DEF StepMoves, HandlerMoves, HandlerMay
  <2>2. accepts # <<>> => Head(accepts) = accepts[1] /\ 1 \in 1 .. Len(accepts)
    BY <1>4
  <2> QED
    BY <1>3, <2>1, <2>2
<1>7. ASSUME NEW i \in 1 .. Len(accepts'), h = accepts'[i] PROVE h \in HackerHeld \/ h = NextHacker
  <2>1. accepts' = accepts => h \in HackerHeld
    BY <1>3, <1>7
  <2>2. ASSUME NEW x, accepts' = Append(accepts, x) PROVE h \in HackerHeld \/ h = x
    BY <1>3, <1>4, <1>7, <2>2
  <2>3. ASSUME accepts # <<>>, accepts' = Tail(accepts) PROVE h \in HackerHeld
    <3>1. i + 1 \in 1 .. Len(accepts) /\ accepts'[i] = accepts[i + 1]
      BY <1>4, <1>7, <2>3
    <3> QED
      BY <1>3, <1>7, <3>1
  <2> QED
    BY <1>3, <2>1, <2>2, <2>3 DEF StepMoves, AcceptsMove
<1>8. ASSUME NEW d \in DockerChannels, service'[d].pc \notin {"none", "end"}, h = service'[d].h
      PROVE  h \in HackerHeld \/ h = NextHacker
  <2>1. ServiceMoves(d)
    BY DEF StepMoves, ServicesMove
  <2>2. \/ h \in {ht.h, None, NextHacker}
        \/ h = service[d].h /\ service[d].pc \notin {"none", "end"}
        \/ h = service[d].goal /\ GetHacker(h) # None
    BY <1>8, <2>1 DEF ServiceMoves, ServiceMay
  <2>3. GetHacker(h) # None => h \in HackerHeld
    BY DEF GetHacker
  <2> QED
    BY <1>3, <1>4, <2>2, <2>3
<1> QED
  BY <1>1, <1>2, <1>5, <1>6, <1>7, <1>8

LEMMA UnreachedStays == SessionInv /\ StepMoves => Unreached'
<1> SUFFICES ASSUME SessionInv, StepMoves PROVE Unreached'
  OBVIOUS
<1>1. /\ HandlerMay(handler') /\ Unreached
      /\ handler \in Handlers /\ handler' \in Handlers
  BY DEF StepMoves, HandlerMoves, SessionInv, Fields
<1>2. handler'.pc \in {"init", "serve", "accept"} => known' = {}
  BY <1>1 DEF HandlerMay, Unreached
<1>3. ASSUME handler'.pc \in {"close", "join"}, NEW h \in known'
      PROVE  /\ h \in HackerChannels /\ hch'[h].state \in {"open", "closed"}
             /\ h \in HackerHeld' => ~hch'[h].linked
  <2>1. CASE handler.pc \in {"close", "join"}
    <3>1. known' = known
      BY <1>1, <2>1 DEF HandlerMay
    <3>2. /\ h \in HackerChannels /\ hch[h].state \in {"open", "closed"}
          /\ h \in HackerHeld => ~hch[h].linked
      BY <1>1, <1>3, <2>1, <3>1 DEF Unreached
    <3>3. HackerMoves(h) /\ (ht.pc = "put" => hch[ht.h].state = "taken")
      BY <3>2 DEF StepMoves, HackersMove, SessionInv, Locals
    <3>4. hch'[h].state \in {"open", "closed"} /\ (hch'[h].linked => hch[h].linked)
      BY <3>2, <3>3 DEF HackerMoves
    <3>5. h \in HackerHeld' => h \in HackerHeld
      BY <3>2, HeldStays
    <3> QED
      BY <3>2, <3>4, <3>5
  <2>2. CASE handler.pc = "serve"
    BY <1>1, <1>3, <2>2 DEF HandlerMay, Unreached
  <2>3. CASE handler.pc = "accept"
    <3>1. /\ NoChannel(handler'.chann) /\ UNCHANGED <<ht, hch, service>>
          /\ known' = {c \in HackerChannels : hch[c].state \in {"open", "closed"}}
          /\ accepts' = IF accepts = <<>> THEN <<>> ELSE Tail(accepts)
      BY <1>1, <1>3, <2>3 DEF HandlerMay
    <3>2. h \in HackerChannels /\ hch[h].state \in {"open", "closed"} /\ hch' = hch
      BY <1>3, <3>1
    <3>3. ASSUME h \in HackerHeld' PROVE h \in HeldWith(handler'.chann)
      <4>1. accepts \in Seq(HackerChannels)
        BY DEF SessionInv, Fields
      <4>2. ASSUME NEW i \in 1 .. Len(accepts') PROVE \E j \in 1 .. Len(accepts) : accepts'[i] = accepts[j]
        <5>1. CASE accepts = <<>>
          BY <3>1, <4>2, <5>1
        <5>2. CASE accepts # <<>>
          BY <3>1, <4>1, <4>2, <5>2, i + 1 \in 1 .. Len(accepts)
        <5> QED
          BY <5>1, <5>2
      <4> QED
        BY <3>1, <3>3, <4>2 DEF HackerHeld, HeldWith, Serving
    <3>4. h \in HackerHeld' => ~hch[h].linked
      BY <3>1, <3>2, <3>3 DEF NoChannel
    <3> QED
      BY <3>2, <3>4
  <2> QED
    BY <1>1, <1>3, <2>1, <2>2, <2>3 DEF HandlerMay
<1>4. ASSUME NEW d \in DockerChannels, service'[d].pc = "seek" PROVE service'[d].goal # None
  <2>1. ServiceMoves(d) /\ (ht.pc = "open" => ht.h # None)
    BY DEF StepMoves, ServicesMove, SessionInv, Locals
  <2> QED
    BY <1>1, <1>4, <2>1 DEF ServiceMoves, ServiceMay, Unreached
<1> QED
  BY <1>2, <1>3, <1>4 DEF Unreached

(* A channel of the container is opened before it is served.                *)
LEMMA OpensUnserved ==
    ASSUME SessionInv, StepMoves, NEW d \in DockerChannels,
           dch'[d].state = "open", dch[d].state # "open"
    PROVE  /\ service[d].pc = "none" /\ service[d].answer = "none"
           /\ dch[d].state = "none" \/ (ht.pc = "open" /\ d = ht.d)
           /\ \A h \in HackerChannels : chain[h] # d
<1>1. DockerMoves(d) /\ Unserved
  BY DEF StepMoves, DockersMove, SessionInv
<1>2. dch[d].state = "none" \/ (ht.pc = "open" /\ d = ht.d)
  BY <1>1 DEF DockerMoves
<1>3. service[d].pc = "none"
  BY <1>1, <1>2 DEF Unserved
<1> QED
  BY <1>1, <1>2, <1>3 DEF Unserved

LEMMA ShutStays == SessionInv /\ StepMoves => Shut'
<1> SUFFICES ASSUME SessionInv, StepMoves PROVE Shut'
  OBVIOUS
<1>1. /\ ht' = ht \/ ThreadMay(ht')
      /\ ht \in HackerThreads /\ ht' \in HackerThreads /\ Shut /\ Locals /\ Unserved
  BY DEF StepMoves, ThreadMoves, SessionInv, Fields
<1>2. ASSUME NEW d \in DockerChannels, service'[d].pc = "end" \/ service'[d].answer = "no"
      PROVE  dch'[d].state # "open"
  <2>1. ServiceMoves(d)
    BY DEF StepMoves, ServicesMove
  <2>2. \/ dch'[d].state # "open"
        \/ /\ service[d].pc = "end" \/ service[d].answer = "no"
           /\ service'[d] = service[d] \/ service[d].pc # "none"
    BY <1>2, <2>1 DEF ServiceMoves, ServiceMay
  <2> QED
    BY <1>1, <1>2, <2>2, OpensUnserved DEF Shut
<1>3. ASSUME ht'.pc \in {"pty", "shell", "env"}, ht'.answer = "no"
      PROVE  dch'[ht'.d].state # "open"
  <2>1. \/ ht' = ht
        \/ dch'[ht'.d].state # "open"
        \/ ht.pc = "read" /\ ht.answer = "no"
    BY <1>1, <1>3 DEF ThreadMay
  <2>2. CASE ht' = ht
    <3>1. ht.d \in DockerChannels /\ dch[ht.d].state # "open" /\ dch[ht.d].state # "none"
      BY <1>1, <1>3, <2>2 DEF Locals, Unserved, Shut, HackerThreads, DockerIds
    <3> QED
      BY <1>3, <2>2, <3>1, OpensUnserved
  <2> QED
    BY <1>1, <2>1, <2>2 DEF Locals
<1> QED
  BY <1>2, <1>3 DEF Shut

RememberedNext(d) ==
    service'[d].pc = "none" /\ dch'[d].state = "open" /\ dt'.active =>
        d = dt'.chan \/ d \in overtaken'

(* A container's channel that waits for its shell is remembered still.      *)
LEMMA RememberedStays ==
    ASSUME SessionInv, StepMoves, NEW d \in DockerChannels, Remembered(d),
           dch[d].state # "none", ~(ht.pc = "open" /\ d = ht.d), handler.pc # "init"
    PROVE  RememberedNext(d)
<1> SUFFICES ASSUME service'[d].pc = "none", dch'[d].state = "open", dt'.active
             PROVE  d = dt'.chan \/ d \in overtaken'
  BY DEF RememberedNext
<1>1. ServiceMoves(d) /\ DockerMay(dt') /\ RemembersStill(d) /\ Lives
  BY DEF StepMoves, ServicesMove, DockerThreadMoves, SessionInv
<1>2. service[d].pc = "none"
  BY <1>1 DEF ServiceMoves, ServiceMay
<1>3. dch[d].state = "open"
  BY OpensUnserved
<1>4. dt.active
  BY <1>1 DEF DockerMay
<1> QED
  BY <1>1, <1>2, <1>3, <1>4 DEF Remembered, RemembersStill

LEMMA KeptStays == SessionInv /\ StepMoves => Kept'
<1> SUFFICES ASSUME SessionInv, StepMoves PROVE Kept'
  OBVIOUS
<1>1. /\ ht' = ht \/ ThreadMay(ht')
      /\ ht \in HackerThreads /\ ht' \in HackerThreads /\ Shut /\ Locals /\ Unserved /\ Kept
      /\ ChainMoves /\ Lives /\ chain \in [HackerChannels -> DockerIds]
  BY DEF StepMoves, ThreadMoves, SessionInv, Fields
<1>2. ht.pc \in {"open", "pty", "shell", "env"} =>
        ht.d \in DockerChannels /\ dch[ht.d].state # "none" /\ handler.pc # "init"
  BY <1>1 DEF Locals, Unserved, HackerThreads, DockerIds, Lives
<1>3. ASSUME ht.pc \in {"pty", "shell", "env"}, ht.answer = "yes"
      PROVE  RememberedNext(ht.d)
  BY <1>1, <1>2, <1>3, RememberedStays DEF Kept
<1>4. ASSUME NEW d \in DockerChannels, dch'[d].state # "open" \/ service'[d].pc # "none" \/ ~dt'.active
      PROVE  RememberedNext(d)
  BY <1>4 DEF RememberedNext
<1>5. ASSUME NEW h \in HackerChannels, chain'[h] # None
      PROVE  ht'.d = chain'[h] \/ RememberedNext(chain'[h])
  <2>1. CASE chain'[h] = chain[h]
    <3>1. /\ chain[h] \in DockerChannels /\ dch[chain[h]].state # "none" /\ handler.pc # "init"
          /\ ht.pc = "open" => chain[h] # ht.d
      BY <1>1, <1>5, <2>1 DEF Unserved, DockerIds
    <3>2. CASE Remembered(chain[h])
      BY <2>1, <3>1, <3>2, RememberedStays
    <3>3. CASE ht.d = chain[h] /\ ht'.d # ht.d
      <4>1. /\ ht.pc \in {"shell", "env"} /\ (ht.answer # "none" \/ ~dt.active)
        <5>1. ht.d # None
          BY <1>5, <2>1, <3>3
        <5>2. ht.pc \in {"shell", "env"}
          BY <1>1, <3>1, <3>3, <5>1 DEF Locals, Unserved, HackerThreads
        <5> QED
          BY <1>1, <3>3, <5>2 DEF ThreadMay
      <4>2. CASE ht.answer = "yes"
        BY <1>3, <2>1, <3>3, <4>1, <4>2
      <4>3. CASE ht.answer = "no" \/ ~dt.active
        <5>1. dch[ht.d].state # "open" \/ ~dt.active
          BY <1>1, <4>1, <4>3 DEF Shut
        <5>2. Remembered(chain[h])
          BY <3>3, <5>1 DEF Remembered
        <5> QED
          BY <2>1, <3>1, <5>2, RememberedStays
      <4> QED
        BY <1>1, <4>1, <4>2, <4>3 DEF HackerThreads
    <3> QED
      BY <1>1, <1>5, <2>1, <3>2, <3>3 DEF Kept
  <2>2. CASE chain'[h] # chain[h]
    <3>1. chain'[h] = ht.d
      BY <1>1, <2>2 DEF ChainMoves
    <3>2. CASE ht.pc = "open" /\ service'[ht.d].pc # "none"
      BY <1>2, <1>4, <3>1, <3>2
    <3>3. CASE ht.pc = "pty" /\ ht.answer = "yes"
      BY <1>3, <3>1, <3>3
    <3> QED
      BY <1>1, <2>2, <3>2, <3>3 DEF ChainMoves
  <2> QED
    BY <2>1, <2>2
<1>6. ASSUME ht'.pc \in {"pty", "shell", "env"}, ht'.answer = "yes" PROVE RememberedNext(ht'.d)
  <2>1. \/ ht' = ht
        \/ ht.pc \in {"pty", "shell", "env"} /\ ht'.d = ht.d /\ dt'.chan = ht.d
    BY <1>1, <1>6 DEF ThreadMay, Locals
  <2>2. CASE ht' = ht
    BY <1>3, <1>6, <2>2
  <2>3. CASE ht'.d = ht.d /\ dt'.chan = ht.d
    BY <2>3 DEF RememberedNext
  <2> QED
    BY <2>1, <2>2, <2>3
<1> QED
  BY <1>5, <1>6 DEF Kept, Remembered, RememberedNext

(****************************************************************************)
(* The theorems.                                                            *)
(****************************************************************************)
LEMMA SessionInvInit == SessionInit => SessionInv
<1> SUFFICES ASSUME SessionInit PROVE SessionInv
  OBVIOUS
<1> USE DEF SessionInit
<1>1. /\ handler \in Handlers /\ handler.pc = "init"
      /\ ht \in HackerThreads /\ ht.pc = "off" /\ ht.h = None /\ ht.d = None /\ ht.answer = "none"
      /\ dt \in DockerThreads /\ dt.pc = "off" /\ ~dt.active
  BY DEF Handlers, HackerThreads, DockerThreads, HackerIds, DockerIds
<1>2. Absent \in ChannelStates /\ Absent.state = "none" /\ ~Absent.linked
  BY DEF ChannelStates, Absent
<1>3. NoService \in ServiceStates /\ NoService.pc = "none" /\ NoService.answer = "none"
  BY DEF ServiceStates, NoService, HackerIds
<1>4. /\ \A h \in HackerChannels : hch[h] = Absent /\ chain[h] = None
      /\ \A d \in DockerChannels : dch[d] = Absent /\ service[d] = NoService
  OBVIOUS
<1>5. Fields
  BY <1>1, <1>2, <1>3 DEF Fields, DockerIds
<1>6. Numbered
  <2>1. {h \in HackerChannels : hch[h].state # "none"} = {}
    BY <1>2, <1>4
  <2>2. {d \in DockerChannels : dch[d].state # "none"} = {}
    BY <1>2, <1>4
  <2>3. 1 .. 0 = {} /\ 0 \in 0 .. MaxHacker /\ 0 \in 0 .. MaxDocker
    BY Bounds
  <2> QED
    BY <2>1, <2>2, <2>3, Zenon DEF Numbered
<1>7. Mapped /\ Locals /\ Lives
  BY <1>1, <1>2, <1>4 DEF Mapped, Locals, Lives
<1>8. Unserved /\ Unreached /\ Shut
  BY <1>1, <1>2, <1>3, <1>4, NoneIsNoChannel DEF Unserved, Unreached, Shut
<1>9. Kept
  BY <1>1, <1>4 DEF Kept
<1> QED
  BY <1>5, <1>6, <1>7, <1>8, <1>9 DEF SessionInv

LEMMA SessionInvStutter == SessionInv /\ UNCHANGED sessionVars => SessionInv'
<1> SUFFICES ASSUME SessionInv, UNCHANGED sessionVars PROVE SessionInv'
  OBVIOUS
<1>1. /\ UNCHANGED handler /\ UNCHANGED ht /\ UNCHANGED dt /\ UNCHANGED hch /\ UNCHANGED dch
      /\ UNCHANGED accepts /\ UNCHANGED chain /\ UNCHANGED service /\ UNCHANGED known
      /\ UNCHANGED overtaken
  BY DEF sessionVars, hackers, dockers, history
<1>2. (Fields /\ Numbered /\ Mapped /\ Locals /\ Lives)'
  BY <1>1 DEF SessionInv, Fields, Numbered, Mapped, Locals, Lives
<1>3. (Unserved /\ Shut /\ Kept)'
  BY <1>1 DEF SessionInv, Unserved, Shut, Kept, Remembered
<1>4. Unreached'
  BY <1>1 DEF SessionInv, Unreached, HackerHeld, HeldWith, Serving
<1> QED
  BY <1>2, <1>3, <1>4 DEF SessionInv

(* The inductive invariant of a session: the container's channels are        *)
(* numbered, asked for, served and forgotten in that order, and what the      *)
(* handler saw at its last look is out of reach.                              *)
THEOREM SessionInvariant == SessionSpec => []SessionInv
<1>1. SessionInv /\ SessionNext => SessionInv'
  BY AllMove, FieldsStay, NumberedStays, MappedStays, LocalsStay, LivesStay, UnservedStays,
     UnreachedStays, ShutStays, KeptStays DEF SessionInv
<1> QED
  BY <1>1, SessionInvInit, SessionInvStutter, PTL DEF SessionSpec

LEMMA InvIsTidy == SessionInv => ContainerTidy
<1> SUFFICES ASSUME SessionInv PROVE ContainerTidy
  OBVIOUS
<1>1. SessionTypeOK
  <2>1. HackerIds = 0 .. MaxHacker /\ DockerIds = 0 .. MaxDocker
    BY Bounds DEF HackerIds, DockerIds, HackerChannels, DockerChannels, None
  <2>2. /\ handler.chann \in HackerIds /\ ht.chan \in HackerIds
        /\ ht.h \in HackerIds /\ ht.d \in DockerIds /\ dt.chan \in DockerIds
        /\ handler.pc \in {"init", "serve", "accept", "close", "join", "shutdown", "done"}
        /\ chain \in [HackerChannels -> DockerIds]
    BY DEF SessionInv, Fields, Handlers, HackerThreads, DockerThreads
  <2>3. ht.pc \in {"off", "read", "dead"} => {ht.h, ht.d} = {None} /\ ht.answer = "none"
    BY DEF SessionInv, Locals
  <2>4. \A h \in HackerChannels : hch[h].state \in {"none", "taken", "open", "closed"}
    BY DEF SessionInv, Fields, ChannelStates
  <2>5. \A d \in DockerChannels :
           /\ dch[d].state \in {"none", "asked", "open", "closed"}
           /\ service[d].pc \in {"none", "exec", "seek", "ask", "relay", "end"}
    BY DEF SessionInv, Fields, ChannelStates, ServiceStates
  <2> QED
    BY <2>1, <2>2, <2>3, <2>4, <2>5 DEF SessionTypeOK
<1>2. ClosedOnlyIdle
  BY NoneIsNoChannel DEF ClosedOnlyIdle, HackerOpen, GetHacker, SessionInv, Unreached
<1>3. ContainerGoesFirst
  BY DEF ContainerGoesFirst, DockerOpen, SessionInv, Lives
<1>4. NothingLeftOpen
  BY DEF NothingLeftOpen, DockerOpen, SessionInv, Shut
<1> QED
  BY <1>1, <1>2, <1>3, <1>4 DEF ContainerTidy

(* The container's side of a session is closed with its service, and, when   *)
(* the handler is through, with the hacker's last channel, in every session.  *)
THEOREM SessionIsTidy == SessionSpec => []ContainerTidy
BY SessionInvariant, InvIsTidy, PTL

LEMMA InvKeepsPty == SessionInv => PtyKept
<1> SUFFICES ASSUME SessionInv, NEW h \in HackerChannels, NEW d, d = chain[h],
                    d # None, service[d].pc = "none", dch[d].state = "open", dt.active
             PROVE  GetDocker(d) = d \/ d \in overtaken
  BY Zenon DEF PtyKept
<1>1. d \in DockerChannels /\ dch[d].linked
  BY DEF SessionInv, Fields, Mapped, DockerIds
<1>2. d = ht.d \/ d = dt.chan \/ d \in overtaken
  BY DEF SessionInv, Kept, Remembered
<1> QED
  BY <1>1, <1>2 DEF GetDocker, DockerHeld, LastChannel

(* The channel of a pty is there for the shell request unless another of the *)
(* container's channels had a message meanwhile.                              *)
THEOREM SessionKeepsPty == SessionSpec => []PtyKept
BY SessionInvariant, InvKeepsPty, PTL
=============================================================================
