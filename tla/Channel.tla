------------------------------ MODULE Channel -------------------------------

(****************************************************************************)
(* One SSH channel as paramiko.Channel runs it, seen from both of its ends: *)
(* flow-control windows, end-of-file, closing.  Every end has a user thread *)
(* (a relay service of wetland) and a transport thread that handles the     *)
(* peer's messages.  What a method does while it holds Channel.lock is one  *)
(* step; the messages it built are sent after the lock is released, each in *)
(* a step of its own, so the two threads of an end race for the wire.       *)
(****************************************************************************)
EXTENDS Integers, Sequences, FiniteSets

Ends == {"near", "far"}
Other(e) == IF e = "near" THEN "far" ELSE "near"

CONSTANTS
    Window,      \* in_window_size of both ends (Channel._set_window)
    MaxChunk,    \* out_max_packet_size - 64
    ReadSizes,   \* the nbytes recv is called with
    Amount,      \* bytes the user of each end wants to send
    Junk,        \* bytes of unknown extended data the user of each end sends
    Shutdowns    \* the halves, "read" and "write", that users shut down

ASSUME WindowAssumption == Window \in Nat \ {0}
ASSUME ChunkAssumption  == MaxChunk \in Nat \ {0}
ASSUME ReadAssumption   == ReadSizes \subseteq Nat \ {0}
ASSUME AmountAssumption == Amount \in [Ends -> Nat] /\ Junk \in [Ends -> Nat]

Threshold == Window \div 10    \* in_window_threshold

VARIABLES
    toSend,       \* bytes the user has not handed to sendall yet
    inSend,       \* bytes of the running sendall that are not sent
    toJunk,       \* bytes of unknown extended data still to be sent
    outWindow,    \* out_window_size
    sofar,        \* in_window_sofar
    buffered,     \* bytes in in_buffer
    bufClosed,    \* in_buffer._closed
    got,          \* bytes recv has read and _check_add_window has not seen
    closed,       \* Channel.closed
    eofSent,      \* Channel.eof_sent
    eofReceived,  \* Channel.eof_received
    unlinked,     \* the transport has forgotten the channel
    userOut,      \* messages the user thread is about to send
    transOut,     \* messages the transport thread is about to send
    wire,         \* messages on their way to the other end
    flight,       \* history: data bytes reserved and not yet handled
    credit,       \* history: window bytes granted and not yet handled
    lost,         \* history: bytes whose window is never given back
    sent,         \* history: data bytes send has accepted
    reads,        \* history: bytes the user has read
    sawEof,       \* history: recv returned an empty string
    userClosed    \* history: the user called close

window  == <<outWindow, sofar, flight, credit, lost, sent>>
reading == <<buffered, got, reads, sawEof>>
flags   == <<bufClosed, closed, eofSent, eofReceived, unlinked, userClosed>>
sending == <<toSend, inSend, toJunk>>
outs    == <<userOut, transOut, wire>>
vars == <<window, reading, flags, sending, outs>>

Message == [kind : {"data", "junk", "adjust", "eof", "close"}, n : Nat]

Data(n)   == [kind |-> "data", n |-> n]
JunkOf(n) == [kind |-> "junk", n |-> n]   \* extended data with a code other than 1
Adjust(n) == [kind |-> "adjust", n |-> n]
Eof       == [kind |-> "eof", n |-> 0]
CloseMsg  == [kind |-> "close", n |-> 0]

Least(S) == CHOOSE x \in S : \A y \in S : x <= y

Init ==
    /\ toSend = Amount
    /\ inSend = [e \in Ends |-> 0]
    /\ toJunk = Junk
    /\ outWindow = [e \in Ends |-> Window]
    /\ sofar = [e \in Ends |-> 0]
    /\ buffered = [e \in Ends |-> 0]
    /\ bufClosed = [e \in Ends |-> FALSE]
    /\ got = [e \in Ends |-> 0]
    /\ closed = [e \in Ends |-> FALSE]
    /\ eofSent = [e \in Ends |-> FALSE]
    /\ eofReceived = [e \in Ends |-> FALSE]
    /\ unlinked = [e \in Ends |-> FALSE]
    /\ userOut = [e \in Ends |-> <<>>]
    /\ transOut = [e \in Ends |-> <<>>]
    /\ wire = [e \in Ends |-> <<>>]
    /\ flight = [e \in Ends |-> 0]
    /\ credit = [e \in Ends |-> 0]
    /\ lost = [e \in Ends |-> 0]
    /\ sent = [e \in Ends |-> 0]
    /\ reads = [e \in Ends |-> 0]
    /\ sawEof = [e \in Ends |-> FALSE]
    /\ userClosed = [e \in Ends |-> FALSE]

UserIdle(e) == userOut[e] = <<>> /\ got[e] = 0 /\ inSend[e] = 0

(******************************************************************************)
(* sendall keeps calling send, and the thread does nothing else until all is  *)
(* sent or an error is raised.  send: _wait_for_send_window reserves window   *)
(* under the lock and blocks while it is 0; the message leaves after the lock *)
(* is released.                                                               *)
(******************************************************************************)
Sendall(e) ==
    /\ UserIdle(e) /\ toSend[e] > 0
    /\ inSend' = [inSend EXCEPT ![e] = toSend[e]]
    /\ toSend' = [toSend EXCEPT ![e] = 0]
    /\ UNCHANGED <<window, reading, flags, toJunk, outs>>

Reserve(e, n, m) ==
    /\ outWindow' = [outWindow EXCEPT ![e] = @ - n]
    /\ flight' = [flight EXCEPT ![e] = @ + n]
    /\ userOut' = [userOut EXCEPT ![e] = <<m>>]

Send(e) ==
    /\ userOut[e] = <<>> /\ inSend[e] > 0
    /\ ~closed[e] /\ ~eofSent[e] /\ outWindow[e] > 0
    /\ LET n == Least({inSend[e], outWindow[e], MaxChunk}) IN
         /\ Reserve(e, n, Data(n))
         /\ inSend' = [inSend EXCEPT ![e] = @ - n]
         /\ sent' = [sent EXCEPT ![e] = @ + n]
    /\ UNCHANGED <<sofar, credit, lost, reading, flags, toSend, toJunk, transOut, wire>>

\* `socket.error: Socket is closed` ends the sendall.
SendRaises(e) ==
    /\ userOut[e] = <<>> /\ inSend[e] > 0 /\ closed[e]
    /\ inSend' = [inSend EXCEPT ![e] = 0]
    /\ UNCHANGED <<window, reading, flags, toSend, toJunk, outs>>

SendJunk(e) ==
    /\ UserIdle(e) /\ toJunk[e] > 0
    /\ ~closed[e] /\ ~eofSent[e] /\ outWindow[e] > 0
    /\ LET n == Least({toJunk[e], outWindow[e], MaxChunk}) IN
         /\ Reserve(e, n, JunkOf(n))
         /\ toJunk' = [toJunk EXCEPT ![e] = @ - n]
    /\ UNCHANGED <<sofar, credit, lost, sent, reading, flags, toSend, inSend, transOut, wire>>

(****************************************************************************)
(* recv: in_buffer.read, then _check_add_window, then perhaps an adjust.    *)
(****************************************************************************)
Recv(e, nbytes) ==
    /\ UserIdle(e) /\ buffered[e] > 0
    /\ LET n == Least({nbytes, buffered[e]}) IN
         /\ buffered' = [buffered EXCEPT ![e] = @ - n]
         /\ got' = [got EXCEPT ![e] = n]
         /\ reads' = [reads EXCEPT ![e] = @ + n]
    /\ UNCHANGED <<window, sawEof, flags, sending, outs>>

\* Mutant: a closed buffer reads as empty at once.
RecvEofEarly(e) ==
    /\ UserIdle(e) /\ bufClosed[e]
    /\ sawEof' = [sawEof EXCEPT ![e] = TRUE]
    /\ UNCHANGED <<window, buffered, got, reads, flags, sending, outs>>

RecvEof(e) ==
    /\ UserIdle(e) /\ buffered[e] = 0 /\ bufClosed[e]
    /\ sawEof' = [sawEof EXCEPT ![e] = TRUE]
    /\ UNCHANGED <<window, buffered, got, reads, flags, sending, outs>>

\* Mutant: in_window_sofar is not reset.
CheckAddWindowKeeping(e) ==
    /\ got[e] > 0 /\ ~closed[e]
    /\ got' = [got EXCEPT ![e] = 0]
    /\ sofar' = [sofar EXCEPT ![e] = @ + got[e]]
    /\ IF sofar[e] + got[e] <= Threshold
       THEN UNCHANGED <<credit, userOut>>
       ELSE /\ credit' = [credit EXCEPT ![e] = @ + sofar[e] + got[e]]
            /\ userOut' = [userOut EXCEPT ![e] = <<Adjust(sofar[e] + got[e])>>]
    /\ UNCHANGED <<outWindow, flight, sent, lost, buffered, reads, sawEof, flags, sending,
                   transOut, wire>>

\* Mutant: the update is not sent before the whole window was read.
CheckAddWindowLate(e) ==
    /\ got[e] > 0
    /\ got' = [got EXCEPT ![e] = 0]
    /\ sofar' = [sofar EXCEPT ![e] = @ + got[e]]
    /\ sofar[e] + got[e] <= Window
    /\ UNCHANGED <<outWindow, flight, credit, sent, lost, buffered, reads, sawEof, flags,
                   sending, outs>>

CheckAddWindow(e) ==
    /\ got[e] > 0
    /\ got' = [got EXCEPT ![e] = 0]
    /\ LET sum == sofar[e] + got[e] IN
         \/ /\ closed[e] \/ eofReceived[e]
            /\ lost' = [lost EXCEPT ![e] = @ + got[e]]
            /\ UNCHANGED <<sofar, credit, userOut>>
         \/ /\ ~closed[e] /\ ~eofReceived[e] /\ sum <= Threshold
            /\ sofar' = [sofar EXCEPT ![e] = sum]
            /\ UNCHANGED <<lost, credit, userOut>>
         \/ /\ ~closed[e] /\ ~eofReceived[e] /\ sum > Threshold
            /\ sofar' = [sofar EXCEPT ![e] = 0]
            /\ credit' = [credit EXCEPT ![e] = @ + sum]
            /\ userOut' = [userOut EXCEPT ![e] = <<Adjust(sum)>>]
            /\ UNCHANGED lost
    /\ UNCHANGED <<outWindow, flight, sent, buffered, reads, sawEof, flags, sending,
                   transOut, wire>>

(*****************************************************************************)
(* shutdown and close.  _close_internal sends EOF unless it was sent before, *)
(* then CLOSE, once; _set_closed closes the buffers.                         *)
(*****************************************************************************)
\* Mutant: CLOSE overtakes EOF.
ClosingMessagesSwapped(e) == <<CloseMsg>> \o (IF eofSent[e] THEN <<>> ELSE <<Eof>>)

ClosingMessages(e) == (IF eofSent[e] THEN <<>> ELSE <<Eof>>) \o <<CloseMsg>>

CloseInternal(e) ==
    /\ eofSent' = [eofSent EXCEPT ![e] = TRUE]
    /\ closed' = [closed EXCEPT ![e] = TRUE]
    /\ bufClosed' = [bufClosed EXCEPT ![e] = TRUE]

ShutdownWrite(e) ==
    /\ "write" \in Shutdowns /\ UserIdle(e) /\ ~eofSent[e]
    /\ eofSent' = [eofSent EXCEPT ![e] = TRUE]
    /\ userOut' = [userOut EXCEPT ![e] = <<Eof>>]
    /\ UNCHANGED <<window, reading, bufClosed, closed, eofReceived, unlinked, userClosed,
                   sending, transOut, wire>>

\* `feign "read" shutdown`
ShutdownRead(e) ==
    /\ "read" \in Shutdowns /\ UserIdle(e)
    /\ eofReceived' = [eofReceived EXCEPT ![e] = TRUE]
    /\ UNCHANGED <<window, reading, bufClosed, closed, eofSent, unlinked,
                   userClosed, sending, outs>>

Close(e) ==
    /\ UserIdle(e) /\ ~closed[e]
    /\ CloseInternal(e)
    /\ userClosed' = [userClosed EXCEPT ![e] = TRUE]
    /\ userOut' = [userOut EXCEPT ![e] = ClosingMessages(e)]
    /\ UNCHANGED <<window, reading, eofReceived, unlinked, sending, transOut, wire>>

(****************************************************************************)
(* _send_user_message, from either thread of an end.                        *)
(****************************************************************************)
\* Mutant: a message is sent again.
UserTransmitsTwice(e) ==
    /\ userOut[e] # <<>>
    /\ wire' = [wire EXCEPT ![e] = @ \o <<Head(userOut[e]), Head(userOut[e])>>]
    /\ userOut' = [userOut EXCEPT ![e] = Tail(@)]
    /\ UNCHANGED <<window, reading, flags, sending, transOut>>

UserTransmits(e) ==
    /\ userOut[e] # <<>>
    /\ wire' = [wire EXCEPT ![e] = Append(@, Head(userOut[e]))]
    /\ userOut' = [userOut EXCEPT ![e] = Tail(@)]
    /\ UNCHANGED <<window, reading, flags, sending, transOut>>

TransportTransmits(e) ==
    /\ transOut[e] # <<>>
    /\ wire' = [wire EXCEPT ![e] = Append(@, Head(transOut[e]))]
    /\ transOut' = [transOut EXCEPT ![e] = Tail(@)]
    /\ UNCHANGED <<window, reading, flags, sending, userOut>>

(****************************************************************************)
(* The handlers of the transport thread of end e.  Once CLOSE was handled   *)
(* the channel is unlinked and the transport ignores what still arrives.    *)
(****************************************************************************)
Arrives(e, kinds) ==
    /\ transOut[e] = <<>>
    /\ wire[Other(e)] # <<>>
    /\ Head(wire[Other(e)]).kind \in kinds
    /\ wire' = [wire EXCEPT ![Other(e)] = Tail(@)]

Arrived(e) == Head(wire[Other(e)]).n

Feed(e) ==
    /\ Arrives(e, {"data"}) /\ ~unlinked[e]
    /\ flight' = [flight EXCEPT ![Other(e)] = @ - Arrived(e)]
    /\ buffered' = [buffered EXCEPT ![e] = @ + Arrived(e)]
    /\ UNCHANGED <<outWindow, sofar, credit, lost, sent, got, reads, sawEof, flags, sending,
                   userOut, transOut>>

\* _feed_extended discards the data of an unknown code, and its window with it.
FeedExtended(e) ==
    /\ Arrives(e, {"junk"}) /\ ~unlinked[e]
    /\ flight' = [flight EXCEPT ![Other(e)] = @ - Arrived(e)]
    /\ lost' = [lost EXCEPT ![e] = @ + Arrived(e)]
    /\ UNCHANGED <<outWindow, sofar, credit, sent, reading, flags, sending, userOut, transOut>>

WindowAdjust(e) ==
    /\ Arrives(e, {"adjust"}) /\ ~unlinked[e]
    /\ credit' = [credit EXCEPT ![Other(e)] = @ - Arrived(e)]
    /\ outWindow' = [outWindow EXCEPT ![e] = @ + Arrived(e)]
    /\ UNCHANGED <<sofar, flight, lost, sent, reading, flags, sending, userOut, transOut>>

\* Mutant: the buffers are closed only at an end that has closed the channel.
HandleEofLate(e) ==
    /\ Arrives(e, {"eof"}) /\ ~unlinked[e]
    /\ eofReceived' = [eofReceived EXCEPT ![e] = @ \/ closed[e]]
    /\ bufClosed' = [bufClosed EXCEPT ![e] = @ \/ closed[e]]
    /\ UNCHANGED <<window, reading, closed, eofSent, unlinked, userClosed,
                   sending, userOut, transOut>>

\* The buffers are closed only the first time.
HandleEof(e) ==
    /\ Arrives(e, {"eof"}) /\ ~unlinked[e]
    /\ eofReceived' = [eofReceived EXCEPT ![e] = TRUE]
    /\ bufClosed' = [bufClosed EXCEPT ![e] = @ \/ ~eofReceived[e]]
    /\ UNCHANGED <<window, reading, closed, eofSent, unlinked, userClosed,
                   sending, userOut, transOut>>

\* Mutant: CLOSE is answered whether or not this end has closed.
HandleCloseAgain(e) ==
    /\ Arrives(e, {"close"}) /\ ~unlinked[e]
    /\ unlinked' = [unlinked EXCEPT ![e] = TRUE]
    /\ CloseInternal(e)
    /\ transOut' = [transOut EXCEPT ![e] = ClosingMessages(e)]
    /\ UNCHANGED <<window, reading, eofReceived, userClosed, sending, userOut>>

\* Mutant: CLOSE is not answered.
HandleCloseSilent(e) ==
    /\ Arrives(e, {"close"}) /\ ~unlinked[e]
    /\ unlinked' = [unlinked EXCEPT ![e] = TRUE]
    /\ CloseInternal(e)
    /\ UNCHANGED <<window, reading, eofReceived, userClosed, sending, userOut, transOut>>

HandleClose(e) ==
    /\ Arrives(e, {"close"}) /\ ~unlinked[e]
    /\ unlinked' = [unlinked EXCEPT ![e] = TRUE]
    /\ IF closed[e]
       THEN UNCHANGED <<closed, eofSent, bufClosed, transOut>>
       ELSE /\ CloseInternal(e)
            /\ transOut' = [transOut EXCEPT ![e] = ClosingMessages(e)]
    /\ UNCHANGED <<window, reading, eofReceived, userClosed, sending, userOut>>

\* Transport.run: "Ignoring message for dead channel".
IgnoreDead(e) ==
    /\ Arrives(e, {"data", "junk", "adjust", "eof", "close"}) /\ unlinked[e]
    /\ UNCHANGED <<window, reading, flags, sending, userOut, transOut>>

UserSteps(e) ==
    \/ Sendall(e) \/ Send(e) \/ SendRaises(e) \/ SendJunk(e) \/ RecvEof(e) \/ CheckAddWindow(e) \/ UserTransmits(e)
    \/ \E n \in ReadSizes : Recv(e, n)

UserEnds(e) == ShutdownWrite(e) \/ ShutdownRead(e) \/ Close(e)

TransportSteps(e) ==
    \/ TransportTransmits(e)
    \/ Feed(e) \/ FeedExtended(e) \/ WindowAdjust(e)
    \/ HandleEof(e) \/ HandleClose(e) \/ IgnoreDead(e)

Next == \E e \in Ends : UserSteps(e) \/ UserEnds(e) \/ TransportSteps(e)

Spec == Init /\ [][Next]_vars

\* The transport thread always runs; the user reads whatever arrives and sends
\* while it may, but need not shut down or close.
Fairness ==
    \A e \in Ends :
        /\ WF_vars(TransportSteps(e))
        /\ WF_vars(UserTransmits(e))
        /\ WF_vars(CheckAddWindow(e) \/ RecvEof(e) \/ \E n \in ReadSizes : Recv(e, n))
        /\ WF_vars(Sendall(e) \/ Send(e) \/ SendRaises(e))

FairSpec == Spec /\ Fairness
-----------------------------------------------------------------------------
NumbersOK ==
    /\ toSend \in [Ends -> Nat] /\ inSend \in [Ends -> Nat] /\ toJunk \in [Ends -> Nat]
    /\ outWindow \in [Ends -> Nat] /\ sofar \in [Ends -> 0 .. Threshold]
    /\ flight \in [Ends -> Int] /\ credit \in [Ends -> Int]
    /\ lost \in [Ends -> Nat] /\ sent \in [Ends -> Nat]
    /\ buffered \in [Ends -> Nat] /\ got \in [Ends -> Nat] /\ reads \in [Ends -> Nat]

FlagsOK ==
    /\ sawEof \in [Ends -> BOOLEAN]
    /\ bufClosed \in [Ends -> BOOLEAN] /\ closed \in [Ends -> BOOLEAN]
    /\ eofSent \in [Ends -> BOOLEAN] /\ eofReceived \in [Ends -> BOOLEAN]
    /\ unlinked \in [Ends -> BOOLEAN]
    /\ userClosed \in [Ends -> BOOLEAN]

QueuesOK ==
    /\ userOut \in [Ends -> Seq(Message)] /\ transOut \in [Ends -> Seq(Message)]
    /\ wire \in [Ends -> Seq(Message)]

(* Type correctness of a channel; the window never goes below 0 and           *)
(* in_window_sofar never passes in_window_threshold, whatever the two threads *)
(* of an end interleave to.                                                   *)
TypeOK == NumbersOK /\ FlagsOK /\ QueuesOK

(* The window of a direction is conserved: what the sender may send, what is *)
(* on its way, what waits in in_buffer, what was read and not acknowledged,  *)
(* the adjusts on their way back and what is never given back make up        *)
(* in_window_size, whatever send, recv and the handlers interleave to.       *)
WindowConserved ==
    \A e \in Ends : LET p == Other(e) IN
        outWindow[e] + flight[e] + buffered[p] + got[p] + sofar[p] + credit[p] + lost[p] = Window

(* An end of file is not seen before every byte that was sent: when recv    *)
(* returns an empty string at an end whose user did not close it, that user *)
(* has read all the data the peer's send calls accepted.                    *)
EofMeansAll ==
    \A e \in Ends : sawEof[e] /\ ~userClosed[e] => reads[e] = sent[Other(e)]

(* An end sends CLOSE once, and while the peer has not closed the channel   *)
(* itself nothing follows it, though the transport thread sends the CLOSE   *)
(* that _handle_close answers while the user thread may be holding data or  *)
(* an adjust it has already built.                                          *)
Closes(s) == {i \in 1 .. Len(s) : s[i].kind = "close"}
Stream(e) == wire[e] \o transOut[e] \o userOut[e]
CloseIsLast ==
    \A e \in Ends : ~closed[Other(e)] =>
        \A i \in Closes(Stream(e)) : i = Len(Stream(e))

CloseOnce ==
    \A e \in Ends : \A i, j \in Closes(Stream(e)) : i = j /\ ~unlinked[Other(e)]

(* The window of a direction is conserved by the messages themselves, from   *)
(* the bytes that are on the wire or about to be sent in both directions, as *)
(* long as both transports know the channel.                                 *)
Carried(s, kinds) == UNION {{i} \X (1 .. s[i].n) : i \in {j \in 1 .. Len(s) : s[j].kind \in kinds}}
Bytes(s, kinds) == Cardinality(Carried(s, kinds))
WireConserved ==
    \A e \in Ends : LET p == Other(e) IN
        ~unlinked[e] /\ ~unlinked[p] =>
            outWindow[e] + Bytes(Stream(e), {"data", "junk"}) + buffered[p] + got[p]
              + sofar[p] + Bytes(Stream(p), {"adjust"}) + lost[p] = Window

(* The messages of one direction: they add up to the window, end of file comes *)
(* after all data, and CLOSE comes once and last.                              *)
WireSound == WireConserved /\ EofMeansAll /\ CloseIsLast /\ CloseOnce

(* A running sendall ends: the reader gives window back often enough            *)
(* (in_window_threshold), or the channel is closed and send raises.  The        *)
(* exceptions are a sendall after shutdown_write, at either end: send returns 0 *)
(* for ever; and a peer that has thrown away extended data of another code.     *)
Spinning(e) == inSend[e] > 0 /\ eofSent[e] /\ ~closed[e]

Stuck(e) == Spinning(e) \/ Spinning(Other(e)) \/ lost[Other(e)] > 0

SendallProgress == \A e \in Ends : inSend[e] > 0 ~> inSend[e] = 0 \/ Stuck(e)

(* When one end closes or shuts down writing, the reader of the other end is *)
(* not left waiting, unless it has called shutdown_read: then the EOF that   *)
(* comes is taken for one that has been handled and wakes nobody.            *)
Deaf(e) == eofReceived[e] /\ ~bufClosed[e]

ReaderReleased ==
    \A e \in Ends : LET p == Other(e) IN eofSent[e] ~> sawEof[p] \/ Stuck(p) \/ Deaf(p)

(* A close reaches both ends, and both transports forget the channel.       *)
CloseSpreads == \A e \in Ends : closed[e] ~> \A d \in Ends : closed[d] /\ unlinked[d]

(* What one end ends, the other end notices: its readers and its channel.      *)
EndsSpread == ReaderReleased /\ CloseSpreads
=============================================================================
