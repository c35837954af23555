-------------------------------- MODULE Pipe ---------------------------------

(*******************************************************************************)
(* How a relay service is woken: the pipe behind Channel.fileno.  A Channel    *)
(* has two BufferedPipes, "in" and "err", each with a lock and, once fileno    *)
(* was called, an event: one of the two OrPipes over a single PosixPipe.  The  *)
(* transport thread feeds and closes the buffers, the reader (a relay          *)
(* service's loop) polls the descriptor, reads the buffers until they are      *)
(* empty and closes the channel at end of file.  The OrPipes and the PosixPipe *)
(* have no lock of their own, so their statements are single steps.            *)
(*******************************************************************************)
EXTENDS Integers

Streams == {"in", "err"}
Partner(s) == IF s = "in" THEN "err" ELSE "in"
Threads == {"transport", "reader"}

CONSTANTS
    Uses,      \* how a service may use its channel: `feeds` says how often the
               \* peer sends data of each stream, `early` whether data may come
               \* before fileno was called; exec_service calls it before
               \* exec_command, shell_service after invoke_shell
    OtherEof   \* the other channel of the relay may end first

ASSUME UsesAssumption == Uses \subseteq [feeds : [Streams -> Nat], early : BOOLEAN]
ASSUME SwitchAssumption == OtherEof \in BOOLEAN

VARIABLES
    use,          \* the one of Uses at hand
    toFeed,       \* data messages of each stream still to come
    data,         \* length of BufferedPipe._buffer
    bufClosed,    \* BufferedPipe._closed
    event,        \* BufferedPipe._event is not None
    bufLock,      \* the thread that holds BufferedPipe._lock, or "free"
    orSet,        \* OrPipe._set
    pipeSet,      \* PosixPipe._set
    forever,      \* PosixPipe._forever
    pipeClosed,   \* PosixPipe._closed, and the os.pipe is
    bytes,        \* bytes in the os.pipe
    piped,        \* Channel._pipe is not None
    chanLock,     \* the thread that holds Channel.lock, or "free"
    eofReceived,  \* Channel.eof_received
    closed,       \* Channel.closed
    unlinked,     \* CLOSE was handled: no more messages
    pc,           \* what each thread does next
    stream,       \* the buffer each thread is at
    ret           \* where each thread goes when set() or clear() returns

buffers == <<data, bufClosed, event, bufLock>>
pipe    == <<orSet, pipeSet, forever, pipeClosed, bytes>>
chan    == <<piped, chanLock, eofReceived, closed, unlinked>>
threads == <<pc, stream, ret>>
vars == <<use, toFeed, buffers, pipe, chan, threads>>

Init ==
    /\ use \in Uses
    /\ toFeed = use.feeds
    /\ data = [s \in Streams |-> 0]
    /\ bufClosed = [s \in Streams |-> FALSE]
    /\ event = [s \in Streams |-> FALSE]
    /\ bufLock = [s \in Streams |-> "free"]
    /\ orSet = [s \in Streams |-> FALSE]
    /\ pipeSet = FALSE /\ forever = FALSE /\ pipeClosed = FALSE
    /\ bytes = 0
    /\ piped = FALSE /\ chanLock = "free"
    /\ eofReceived = FALSE /\ closed = FALSE /\ unlinked = FALSE
    /\ pc = [t \in Threads |-> IF t = "reader" THEN "fileno" ELSE "idle"]
    /\ stream = [t \in Threads |-> "in"]
    /\ ret = [t \in Threads |-> "idle"]

Goto(t, to) == pc' = [pc EXCEPT ![t] = to] /\ UNCHANGED <<stream, ret>>
GotoAt(t, to, s) ==
    pc' = [pc EXCEPT ![t] = to] /\ stream' = [stream EXCEPT ![t] = s] /\ UNCHANGED ret
Call(t, to, s, back) ==
    /\ pc' = [pc EXCEPT ![t] = to]
    /\ stream' = [stream EXCEPT ![t] = s]
    /\ ret' = [ret EXCEPT ![t] = back]

Lock(t, s) == bufLock[s] = "free" /\ bufLock' = [bufLock EXCEPT ![s] = t]
Unlock(s) == bufLock' = [bufLock EXCEPT ![s] = "free"]

(****************************************************************************)
(* OrPipe.set and PosixPipe.set, OrPipe.clear and PosixPipe.clear.          *)
(****************************************************************************)
OrPipeSet(t) ==
    /\ pc[t] = "or_set"
    /\ orSet' = [orSet EXCEPT ![stream[t]] = TRUE]
    /\ Goto(t, "or_set_partner")
    /\ UNCHANGED <<toFeed, buffers, pipeSet, forever, pipeClosed, bytes, chan>>

OrPipeSetPartner(t) ==
    /\ pc[t] = "or_set_partner"
    /\ Goto(t, IF orSet[Partner(stream[t])] THEN ret[t] ELSE "pipe_set")
    /\ UNCHANGED <<toFeed, buffers, pipe, chan>>

\* Mutant: _set is not looked at.
PipeSetAlways(t) ==
    /\ pc[t] = "pipe_set"
    /\ Goto(t, IF pipeClosed THEN ret[t] ELSE "pipe_mark")
    /\ UNCHANGED <<toFeed, buffers, pipe, chan>>

PipeSet(t) ==
    /\ pc[t] = "pipe_set"
    /\ Goto(t, IF pipeSet \/ pipeClosed THEN ret[t] ELSE "pipe_mark")
    /\ UNCHANGED <<toFeed, buffers, pipe, chan>>

PipeMark(t) ==
    /\ pc[t] = "pipe_mark"
    /\ pipeSet' = TRUE
    /\ Goto(t, "pipe_write")
    /\ UNCHANGED <<toFeed, buffers, orSet, forever, pipeClosed, bytes, chan>>

PipeWrite(t) ==
    /\ pc[t] = "pipe_write" /\ ~pipeClosed
    /\ bytes' = bytes + 1
    /\ Goto(t, ret[t])
    /\ UNCHANGED <<toFeed, buffers, orSet, pipeSet, forever, pipeClosed, chan>>

\* os.write raises: feed releases its lock and the transport thread dies.
PipeWriteFails(t) ==
    /\ pc[t] = "pipe_write" /\ pipeClosed
    /\ Unlock(stream[t])
    /\ Goto(t, "dead")
    /\ UNCHANGED <<toFeed, data, bufClosed, event, pipe, chan>>

OrPipeClear(t) ==
    /\ pc[t] = "or_clear"
    /\ orSet' = [orSet EXCEPT ![stream[t]] = FALSE]
    /\ Goto(t, "or_clear_partner")
    /\ UNCHANGED <<toFeed, buffers, pipeSet, forever, pipeClosed, bytes, chan>>

OrPipeClearPartner(t) ==
    /\ pc[t] = "or_clear_partner"
    /\ Goto(t, IF orSet[Partner(stream[t])] THEN ret[t] ELSE "pipe_clear")
    /\ UNCHANGED <<toFeed, buffers, pipe, chan>>

\* Mutant: _set is not looked at.
PipeClearAlways(t) ==
    /\ pc[t] = "pipe_clear"
    /\ Goto(t, IF forever THEN ret[t] ELSE "os_read")
    /\ UNCHANGED <<toFeed, buffers, pipe, chan>>

PipeClear(t) ==
    /\ pc[t] = "pipe_clear"
    /\ Goto(t, IF ~pipeSet \/ forever THEN ret[t] ELSE "os_read")
    /\ UNCHANGED <<toFeed, buffers, pipe, chan>>

OsRead(t) ==
    /\ pc[t] = "os_read" /\ bytes > 0
    /\ bytes' = bytes - 1
    /\ Goto(t, "pipe_unmark")
    /\ UNCHANGED <<toFeed, buffers, orSet, pipeSet, forever, pipeClosed, chan>>

PipeUnmark(t) ==
    /\ pc[t] = "pipe_unmark"
    /\ pipeSet' = FALSE
    /\ Goto(t, ret[t])
    /\ UNCHANGED <<toFeed, buffers, orSet, forever, pipeClosed, bytes, chan>>

(****************************************************************************)
(* BufferedPipe.feed, in the transport thread.                              *)
(****************************************************************************)
FilenoDone == event["err"] /\ ret["reader"] # "event_set"

Feed(s) ==
    /\ pc["transport"] = "idle" /\ ~unlinked /\ toFeed[s] > 0
    /\ use.early \/ FilenoDone
    /\ toFeed' = [toFeed EXCEPT ![s] = @ - 1]
    /\ Lock("transport", s)
    /\ Call("transport", IF event[s] THEN "or_set" ELSE "append", s, "append")
    /\ UNCHANGED <<data, bufClosed, event, pipe, chan>>

FeedAppend ==
    /\ pc["transport"] = "append"
    /\ data' = [data EXCEPT ![stream["transport"]] = @ + 1]
    /\ Unlock(stream["transport"])
    /\ Goto("transport", "idle")
    /\ UNCHANGED <<toFeed, bufClosed, event, pipe, chan>>

(****************************************************************************)
(* Channel._handle_eof, _handle_close, _unlink and _set_closed: the buffers *)
(* are closed one after the other, then the pipe is set for ever, all under *)
(* the channel's lock.                                                      *)
(****************************************************************************)
HandleEof ==
    /\ pc["transport"] = "idle" /\ ~unlinked /\ chanLock = "free" /\ ~eofReceived
    /\ eofReceived' = TRUE
    /\ chanLock' = "transport"
    /\ GotoAt("transport", "close_buffer", "in")
    /\ UNCHANGED <<toFeed, buffers, pipe, piped, closed, unlinked>>

HandleClose ==
    /\ pc["transport"] = "idle" /\ ~unlinked /\ chanLock = "free"
    /\ unlinked' = TRUE
    /\ IF closed
       THEN UNCHANGED <<chanLock, closed, threads>>
       ELSE /\ closed' = TRUE
            /\ chanLock' = "transport"
            /\ GotoAt("transport", "close_buffer", "in")
    /\ UNCHANGED <<toFeed, buffers, pipe, piped, eofReceived>>

CloseBuffer(t) ==
    /\ pc[t] = "close_buffer"
    /\ LET s == stream[t] IN
         /\ Lock(t, s)
         /\ bufClosed' = [bufClosed EXCEPT ![s] = TRUE]
         /\ Call(t, IF event[s] THEN "or_set" ELSE "buffer_closed", s, "buffer_closed")
    /\ UNCHANGED <<toFeed, data, event, pipe, chan>>

BufferClosed(t) ==
    /\ pc[t] = "buffer_closed"
    /\ Unlock(stream[t])
    /\ IF stream[t] = "in"
       THEN GotoAt(t, "close_buffer", "err")
       ELSE Goto(t, "set_forever")
    /\ UNCHANGED <<toFeed, data, bufClosed, event, pipe, chan>>

\* Mutant: set_forever does not set.
SetForeverOnly(t) ==
    /\ pc[t] = "set_forever"
    /\ forever' = (forever \/ piped)
    /\ Goto(t, "chan_unlock")
    /\ UNCHANGED <<toFeed, buffers, orSet, pipeSet, pipeClosed, bytes, chan>>

SetForever(t) ==
    /\ pc[t] = "set_forever"
    /\ forever' = (forever \/ piped)
    /\ Call(t, IF piped THEN "pipe_set" ELSE "chan_unlock", stream[t], "chan_unlock")
    /\ UNCHANGED <<toFeed, buffers, orSet, pipeSet, pipeClosed, bytes, chan>>

ChanUnlock(t) ==
    /\ pc[t] = "chan_unlock"
    /\ chanLock' = "free"
    /\ Goto(t, IF t = "reader" THEN "done" ELSE "idle")
    /\ UNCHANGED <<toFeed, buffers, pipe, piped, eofReceived, closed, unlinked>>

(****************************************************************************)
(* The reader: Channel.fileno and BufferedPipe.set_event.                   *)
(****************************************************************************)
Fileno ==
    /\ pc["reader"] = "fileno" /\ chanLock = "free"
    /\ chanLock' = "reader"
    /\ piped' = TRUE
    /\ GotoAt("reader", "set_event", "in")
    /\ UNCHANGED <<toFeed, buffers, pipe, eofReceived, closed, unlinked>>

\* Mutant: a closed buffer with nothing in it starts cleared.
SetEventByData ==
    /\ pc["reader"] = "set_event"
    /\ LET s == stream["reader"] IN
         /\ Lock("reader", s)
         /\ event' = [event EXCEPT ![s] = TRUE]
         /\ Call("reader", IF data[s] > 0 THEN "or_set" ELSE "or_clear", s, "event_set")
    /\ UNCHANGED <<toFeed, data, bufClosed, pipe, chan>>

SetEvent ==
    /\ pc["reader"] = "set_event"
    /\ LET s == stream["reader"] IN
         /\ Lock("reader", s)
         /\ event' = [event EXCEPT ![s] = TRUE]
         /\ Call("reader", IF bufClosed[s] \/ data[s] > 0 THEN "or_set" ELSE "or_clear",
                 s, "event_set")
    /\ UNCHANGED <<toFeed, data, bufClosed, pipe, chan>>

EventSet ==
    /\ pc["reader"] = "event_set"
    /\ Unlock(stream["reader"])
    /\ IF stream["reader"] = "in"
       THEN GotoAt("reader", "set_event", "err") /\ UNCHANGED chanLock
       ELSE Call("reader", "poll", "in", "poll") /\ chanLock' = "free"
    /\ UNCHANGED <<toFeed, data, bufClosed, event, pipe, piped, eofReceived, closed, unlinked>>

(****************************************************************************)
(* The loop of a relay service: poll, recv if recv_ready, recv_stderr if    *)
(* recv_stderr_ready, then leave if eof_received.                           *)
(****************************************************************************)
Poll ==
    /\ pc["reader"] = "poll" /\ bytes > 0
    /\ GotoAt("reader", "recv", "in")
    /\ UNCHANGED <<toFeed, buffers, pipe, chan>>

NotReady ==
    /\ pc["reader"] = "recv" /\ bufLock[stream["reader"]] = "free" /\ data[stream["reader"]] = 0
    /\ IF stream["reader"] = "in" THEN GotoAt("reader", "recv", "err") ELSE Goto("reader", "leave")
    /\ UNCHANGED <<toFeed, buffers, pipe, chan>>

\* Mutant: a read that empties the buffer leaves the event set.
ReadKeepsEvent(n) ==
    /\ pc["reader"] = "recv"
    /\ LET s == stream["reader"] IN
         /\ n \in 1 .. data[s]
         /\ Lock("reader", s)
         /\ data' = [data EXCEPT ![s] = @ - n]
         /\ Call("reader", "received", s, "received")
    /\ UNCHANGED <<toFeed, bufClosed, event, pipe, chan>>

\* Mutant: the event is cleared by every read.
ReadClearsAlways(n) ==
    /\ pc["reader"] = "recv"
    /\ LET s == stream["reader"] IN
         /\ n \in 1 .. data[s]
         /\ Lock("reader", s)
         /\ data' = [data EXCEPT ![s] = @ - n]
         /\ Call("reader", IF ~bufClosed[s] THEN "or_clear" ELSE "received", s, "received")
    /\ UNCHANGED <<toFeed, bufClosed, event, pipe, chan>>

Read(n) ==
    /\ pc["reader"] = "recv"
    /\ LET s == stream["reader"] IN
         /\ n \in 1 .. data[s]
         /\ Lock("reader", s)
         /\ data' = [data EXCEPT ![s] = @ - n]
         /\ Call("reader", IF n = data[s] /\ ~bufClosed[s] THEN "or_clear" ELSE "received",
                 s, "received")
    /\ UNCHANGED <<toFeed, bufClosed, event, pipe, chan>>

Received ==
    /\ pc["reader"] = "received"
    /\ Unlock(stream["reader"])
    /\ IF stream["reader"] = "in" THEN GotoAt("reader", "recv", "err") ELSE Goto("reader", "leave")
    /\ UNCHANGED <<toFeed, data, bufClosed, event, pipe, chan>>

Leave ==
    /\ pc["reader"] = "leave"
    /\ Goto("reader", IF eofReceived THEN "close" ELSE "poll")
    /\ UNCHANGED <<toFeed, buffers, pipe, chan>>

\* The loop is left at the end of file of the other channel of the relay.
LeaveForOther ==
    /\ OtherEof /\ pc["reader"] = "poll"
    /\ Goto("reader", "close")
    /\ UNCHANGED <<toFeed, buffers, pipe, chan>>

(****************************************************************************)
(* Channel.close by the reader: PosixPipe.close first, then _set_closed if  *)
(* the channel is open.  The events keep the closed pipe.                   *)
(****************************************************************************)
Close ==
    /\ pc["reader"] = "close" /\ chanLock = "free"
    /\ chanLock' = "reader"
    /\ Goto("reader", "close_pipe")
    /\ UNCHANGED <<toFeed, buffers, pipe, piped, eofReceived, closed, unlinked>>

ClosePipe ==
    /\ pc["reader"] = "close_pipe"
    /\ pipeClosed' = TRUE /\ piped' = FALSE
    /\ closed' = TRUE
    /\ IF closed THEN Goto("reader", "chan_unlock") ELSE GotoAt("reader", "close_buffer", "in")
    /\ UNCHANGED <<toFeed, buffers, orSet, pipeSet, forever, bytes, chanLock, eofReceived,
                   unlinked>>

Working(t) ==
    \/ OrPipeSet(t) \/ OrPipeSetPartner(t)
    \/ PipeSet(t) \/ PipeMark(t) \/ PipeWrite(t) \/ PipeWriteFails(t)
    \/ CloseBuffer(t) \/ BufferClosed(t) \/ SetForever(t) \/ ChanUnlock(t)

TransportWorks == Working("transport") \/ FeedAppend
Arrivals == (\E s \in Streams : Feed(s)) \/ HandleEof \/ HandleClose \/ LeaveForOther

ReaderWorks ==
    \/ Working("reader")
    \/ OrPipeClear("reader") \/ OrPipeClearPartner("reader")
    \/ PipeClear("reader") \/ OsRead("reader") \/ PipeUnmark("reader")
    \/ Fileno \/ SetEvent \/ EventSet
    \/ Poll \/ NotReady \/ Received \/ Leave
    \/ (\E n \in 1 .. data[stream["reader"]] : Read(n))
    \/ Close \/ ClosePipe

Next == (TransportWorks \/ Arrivals \/ ReaderWorks) /\ UNCHANGED use

Spec == Init /\ [][Next]_vars

\* Both threads keep running; nothing has to arrive.
FairSpec ==
    Spec /\ WF_vars(TransportWorks /\ UNCHANGED use) /\ WF_vars(ReaderWorks /\ UNCHANGED use)
-----------------------------------------------------------------------------
Unlocked == \A s \in Streams : bufLock[s] = "free"

FlagsOK ==
    /\ pipeSet \in BOOLEAN /\ forever \in BOOLEAN /\ pipeClosed \in BOOLEAN
    /\ piped \in BOOLEAN /\ eofReceived \in BOOLEAN /\ closed \in BOOLEAN /\ unlinked \in BOOLEAN

StreamFlagsOK ==
    /\ bufClosed \in [Streams -> BOOLEAN] /\ event \in [Streams -> BOOLEAN]
    /\ orSet \in [Streams -> BOOLEAN]

PlacesOK ==
    /\ use \in Uses /\ toFeed \in [Streams -> Nat] /\ data \in [Streams -> Nat]
    /\ bufLock \in [Streams -> Threads \cup {"free"}] /\ chanLock \in Threads \cup {"free"}
    /\ bytes \in 0 .. 1
    /\ stream \in [Threads -> Streams]

TypeOK == FlagsOK /\ StreamFlagsOK /\ PlacesOK

(* Once end of file or a close has been handled, the descriptor a reader polls *)
(* is readable and no clear of the reader takes that back, however the closing *)
(* of the two buffers, set_forever, fileno and a running read interleave.      *)
EofWakes == piped /\ chanLock = "free" /\ (eofReceived \/ closed) => bytes > 0

(* The os.read of PosixPipe.clear, called under a buffer's lock, never waits *)
(* for a byte that nobody is about to write.                                 *)
ClearNeverStuck == pc["reader"] = "os_read" => bytes > 0 \/ pc["transport"] = "pipe_write"

(* "When no data is ready, the event will be cleared" (buffered_pipe.py:69): *)
(* when nothing is running in a buffer and the descriptor is readable, some  *)
(* buffer has data or is closed.                                             *)
ReadableHasReason ==
    Unlocked /\ chanLock = "free" /\ piped /\ bytes > 0 =>
        \E s \in Streams : data[s] > 0 \/ bufClosed[s]

\* One stream only, and nothing arrives before fileno.
InOnly == use.feeds["err"] = 0 /\ ~use.early

(* With data in one stream only that arrives after fileno, what is buffered is *)
(* readable: the reader is not put to sleep over data.  (In general it is: see *)
(* EitherSets.)                                                                *)
DataIsReadable ==
    InOnly /\ Unlocked /\ chanLock = "free" /\ piped /\ (\E s \in Streams : data[s] > 0) => bytes > 0

(* After end of file the reader gets to the end of its loop and closes, so no *)
(* lock is waited for in a circle and no wake-up is lost for ever.            *)
ReaderEnds == eofReceived ~> pc["reader"] = "done"

(* With data in one stream only that arrives after fileno, all of it is read. *)
DataIsRead ==
    \A s \in Streams : InOnly /\ data[s] > 0 ~> data[s] = 0 \/ pc["reader"] = "done"

(* make_or_pipe: "if either returned pipe is set, the wrapped pipe is set"  *)
(* (pipe.py:140).                                                           *)
EitherSets ==
    Unlocked /\ chanLock = "free" /\ piped /\ (orSet["in"] \/ orSet["err"]) => bytes > 0

(* The descriptor is readable when there is something to read or the channel   *)
(* has ended, and only then (set_event, Channel.fileno).                       *)
ReadableRight == TypeOK /\ EofWakes /\ ReadableHasReason /\ DataIsReadable

(* The loop of a service gets on: it reads what arrives, and ends.             *)
ReaderGetsOn == ReaderEnds /\ DataIsRead
=============================================================================
