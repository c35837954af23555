----------------------------- MODULE PipeProofs -----------------------------

(******************************************************************************)
(* That the descriptor of a channel is readable when it should be, and only   *)
(* then, and that the os.read of a clear never waits for nothing, for any     *)
(* number of messages and any use of the two streams.                         *)
(******************************************************************************)
EXTENDS Pipe, TLAPS

SetPcs   == {"or_set", "or_set_partner", "pipe_set", "pipe_mark", "pipe_write"}
ClearPcs == {"or_clear", "or_clear_partner", "pipe_clear", "os_read", "pipe_unmark"}
ClosePcs == {"close_buffer", "buffer_closed", "set_forever", "chan_unlock"}

TransportPcs == SetPcs \cup ClosePcs \cup {"idle", "append", "dead"}
ReaderPcs ==
    SetPcs \cup ClearPcs \cup ClosePcs
        \cup {"fileno", "set_event", "event_set", "poll", "recv", "received", "leave", "close",
              "close_pipe", "done"}
Returns == {"idle", "append", "buffer_closed", "chan_unlock", "event_set", "received", "poll"}

\* t is inside OrPipe.set or clear, and goes on at `back`.
Setting(t, back) == pc[t] \in SetPcs /\ ret[t] = back
Clearing == pc["reader"] \in ClearPcs

\* t has set its OrPipe.
HasSet(t) == pc[t] \in SetPcs \ {"or_set"} /\ ret[t] # "chan_unlock"

\* t is past the look at the partner's OrPipe.
InPipe(t) == pc[t] \in {"pipe_set", "pipe_mark", "pipe_write"}

Control ==
    /\ pc \in [Threads -> TransportPcs \cup ReaderPcs] /\ ret \in [Threads -> Returns]
    /\ pc["transport"] \in TransportPcs /\ pc["reader"] \in ReaderPcs
    /\ pc["transport"] \in SetPcs =>
         ret["transport"] \in {"append", "buffer_closed", "chan_unlock"}
    /\ pc["reader"] \in SetPcs => ret["reader"] \in {"event_set", "buffer_closed"}
    /\ Clearing => ret["reader"] \in {"event_set", "received"}

(****************************************************************************)
(* The locks.                                                               *)
(****************************************************************************)
HoldsBuffer(t) ==
    \/ pc[t] \in {"append", "buffer_closed", "event_set", "received"}
    \/ pc[t] \in SetPcs \cup ClearPcs /\ ret[t] # "chan_unlock"

HoldsChannel(t) ==
    \/ pc[t] \in {"set_event", "event_set", "close_pipe"} \cup ClosePcs
    \/ pc[t] \in SetPcs \cup ClearPcs /\ ret[t] \in {"event_set", "buffer_closed", "chan_unlock"}

Locks ==
    /\ \A s \in Streams, t \in Threads : bufLock[s] = t <=> stream[t] = s /\ HoldsBuffer(t)
    /\ \A t \in Threads : chanLock = t <=> HoldsChannel(t)

(****************************************************************************)
(* The life of the pipe: fileno, the loop, close.                           *)
(****************************************************************************)
SettingEvent ==
    pc["reader"] \in SetPcs \cup ClearPcs \cup {"event_set"} /\ ret["reader"] = "event_set"
InFileno == pc["reader"] = "set_event" \/ SettingEvent
Closing == pc["reader"] \in ClosePcs \cup {"done"} \/ Setting("reader", "buffer_closed")

Life ==
    /\ pipeClosed <=> Closing
    /\ piped <=> pc["reader"] # "fileno" /\ ~pipeClosed
    /\ pipeClosed => closed
    /\ Setting("reader", "buffer_closed") => pc["reader"] \notin {"pipe_mark", "pipe_write"}
    /\ ret["reader"] = "event_set" => InFileno
    /\ pc["reader"] = "event_set" => ret["reader"] = "event_set"
    /\ event["in"] <=> \/ pc["reader"] # "fileno" /\ ~InFileno
                       \/ SettingEvent
                       \/ pc["reader"] = "set_event" /\ stream["reader"] = "err"
    /\ event["err"] <=> \/ pc["reader"] # "fileno" /\ ~InFileno
                        \/ SettingEvent /\ stream["reader"] = "err"
    /\ \A s \in Streams : orSet[s] => event[s]
    /\ \A t \in Threads : pc[t] \in SetPcs /\ ret[t] # "chan_unlock" => event[stream[t]]

(****************************************************************************)
(* The end of the channel.                                                  *)
(****************************************************************************)
Ended == eofReceived \/ closed
BothClosed == bufClosed["in"] /\ bufClosed["err"]

End ==
    /\ Ended /\ chanLock # "transport" /\ ~pipeClosed => BothClosed
    /\ pc["transport"] = "close_buffer" /\ stream["transport"] = "err" => bufClosed["in"]
    /\ pc["transport"] = "buffer_closed" \/ Setting("transport", "buffer_closed") =>
         /\ bufClosed[stream["transport"]]
         /\ stream["transport"] = "err" => bufClosed["in"]
    /\ pc["transport"] \in {"set_forever", "chan_unlock"} => BothClosed
    /\ Setting("transport", "buffer_closed") /\ pc["transport"] \in {"pipe_mark", "pipe_write"} =>
         ~pipeClosed
    /\ Setting("transport", "chan_unlock") => forever /\ piped /\ InPipe("transport")
    /\ forever => BothClosed
    /\ Clearing => ~bufClosed[stream["reader"]] /\ data[stream["reader"]] = 0

(****************************************************************************)
(* PosixPipe: its flag and its byte.                                        *)
(****************************************************************************)
Full == pipeSet /\ bytes = 1

FlagAndByte ==
    /\ \A t \in Threads : HasSet(t) => orSet[stream[t]]
    /\ ~(InPipe("transport") /\ InPipe("reader") /\ ret["reader"] = "event_set")
    /\ \A t \in Threads : pc[t] = "pipe_mark" => ~pipeSet
    /\ ~pipeSet => bytes = 0 /\ pc["reader"] \notin {"os_read", "pipe_unmark"}
    /\ pipeSet /\ ~pipeClosed =>
                  \/ bytes = 1
                  \/ pc["reader"] = "pipe_unmark"
                  \/ \E t \in Threads : pc[t] = "pipe_write"
    /\ \A t \in Threads : pc[t] = "pipe_write" => pipeSet /\ bytes = 0 /\ pc["reader"] # "pipe_unmark"
    /\ pc["reader"] = "pipe_unmark" => bytes = 0
    /\ pc["reader"] \in {"or_clear_partner", "pipe_clear", "os_read", "pipe_unmark"} =>
         ~orSet[stream["reader"]]

\* Once the end has been handled the byte is there to stay.
EndIsSet ==
    /\ Ended /\ piped /\ chanLock = "free" => Full
    /\ pc["transport"] = "chan_unlock" /\ piped => Full
    /\ Ended /\ InFileno /\ (pc["reader"] = "event_set" \/ stream["reader"] = "err") => Full

(****************************************************************************)
(* Why a flag is set.                                                       *)
(****************************************************************************)
Reasons ==
    /\ \A s \in Streams :
         ~pipeClosed /\ orSet[s] =>
            \/ data[s] > 0 \/ bufClosed[s]
            \/ stream["transport"] = s /\ (pc["transport"] = "append" \/ Setting("transport", "append"))
            \/ stream["reader"] = s /\ pc["reader"] = "or_clear"
    /\ Setting("reader", "event_set") => data[stream["reader"]] > 0 \/ bufClosed[stream["reader"]]
    /\ pipeSet => \/ orSet["in"] \/ orSet["err"] \/ forever
                  \/ pc["reader"] \in {"or_clear_partner", "pipe_clear", "os_read", "pipe_unmark"}

(****************************************************************************)
(* One stream whose data comes after fileno.                                *)
(****************************************************************************)
Feeding == pc["transport"] = "append" \/ Setting("transport", "append")

OneStream ==
    InOnly =>
        /\ toFeed["err"] = 0 /\ data["err"] = 0
        /\ Feeding => stream["transport"] = "in"
        /\ Feeding \/ data["in"] > 0 => FilenoDone
        /\ Clearing /\ ret["reader"] = "received" => stream["reader"] = "in"
        /\ ~pipeClosed =>
             \A s \in Streams :
                 orSet[s] /\ (\A t \in Threads : HasSet(t) => stream[t] # s) => Full
        /\ pc["reader"] \in {"pipe_clear", "os_read", "pipe_unmark"} => ~orSet["in"] /\ ~orSet["err"]

DataSets ==
    \A s \in Streams :
        /\ event[s] /\ data[s] > 0 /\ ~(pc["reader"] = "or_set" /\ stream["reader"] = s) => orSet[s]
        /\ event[s] /\ pc["transport"] = "append" /\ stream["transport"] = s => orSet[s]

PipeInv ==
    /\ TypeOK /\ Control /\ Locks /\ Life /\ End
    /\ FlagAndByte /\ EndIsSet /\ Reasons /\ OneStream /\ DataSets

USE DEF Streams, Threads, Partner, Lock, Unlock, Goto, GotoAt, Call, buffers, pipe, chan, threads,
        InOnly, FilenoDone, SetPcs, ClearPcs, ClosePcs, TransportPcs, ReaderPcs, Returns,
        Setting, Clearing, HasSet, InPipe, HoldsBuffer, HoldsChannel, SettingEvent, InFileno,
        Closing, Ended, BothClosed, Full, Feeding, PipeInv

-----------------------------------------------------------------------------
LEMMA InitHolds == Init => PipeInv
<1> SUFFICES ASSUME Init PROVE PipeInv
  OBVIOUS
<1>1. TypeOK
  <2>1. FlagsOK
    BY DEF Init, FlagsOK
  <2>2. StreamFlagsOK
    BY DEF Init, StreamFlagsOK
  <2>3. PlacesOK
    BY UsesAssumption DEF Init, PlacesOK
  <2> QED
    BY <2>1, <2>2, <2>3 DEF TypeOK
<1>2. Control
  BY UsesAssumption DEF Init, Control
<1>3. Locks
  BY UsesAssumption DEF Init, Locks
<1>4. Life
  BY UsesAssumption DEF Init, Life
<1>5. End
  BY UsesAssumption DEF Init, End
<1>6. FlagAndByte
  BY UsesAssumption DEF Init, FlagAndByte
<1>7. EndIsSet
  BY UsesAssumption DEF Init, EndIsSet
<1>8. Reasons
  BY UsesAssumption DEF Init, Reasons
<1>9. OneStream
  BY UsesAssumption DEF Init, OneStream
<1>10. DataSets
  BY UsesAssumption DEF Init, DataSets
<1> QED
  BY <1>1, <1>2, <1>3, <1>4, <1>5, <1>6, <1>7, <1>8, <1>9, <1>10

\* The transport thread in OrPipe.set and PosixPipe.set.
LEMMA TransportSets ==
    ASSUME PipeInv, UNCHANGED use,
           OrPipeSet("transport") \/ OrPipeSetPartner("transport") \/ PipeSet("transport") \/
           PipeMark("transport") \/ PipeWrite("transport")
    PROVE  PipeInv'
<1>1. FlagsOK'
  BY Zenon DEF TypeOK, FlagsOK, OrPipeSet, OrPipeSetPartner, PipeSet, PipeMark, PipeWrite
<1>2. StreamFlagsOK'
  BY DEF TypeOK, StreamFlagsOK, OrPipeSet, OrPipeSetPartner, PipeSet, PipeMark, PipeWrite
<1>3. PlacesOK'
  BY DEF TypeOK, PlacesOK, Control, FlagAndByte, OrPipeSet, OrPipeSetPartner, PipeSet, PipeMark,
         PipeWrite
<1>4. Control'
  BY DEF Control, OrPipeSet, OrPipeSetPartner, PipeSet, PipeMark, PipeWrite
<1>5. Locks'
  BY DEF Control, Locks, OrPipeSet, OrPipeSetPartner, PipeSet, PipeMark, PipeWrite
<1>6. Life'
  BY DEF TypeOK, FlagsOK, StreamFlagsOK, PlacesOK, Control, Life, End, OrPipeSet,
         OrPipeSetPartner, PipeSet, PipeMark, PipeWrite
<1>7. End'
  BY DEF Control, End, OrPipeSet, OrPipeSetPartner, PipeSet, PipeMark, PipeWrite
<1>8. FlagAndByte'
  BY DEF TypeOK, FlagsOK, StreamFlagsOK, PlacesOK, Control, Locks, Life, End, FlagAndByte,
         OrPipeSet, OrPipeSetPartner, PipeSet, PipeMark, PipeWrite
<1>9. EndIsSet'
  BY DEF TypeOK, FlagsOK, StreamFlagsOK, PlacesOK, Control, Life, End, FlagAndByte, EndIsSet,
         OrPipeSet, OrPipeSetPartner, PipeSet, PipeMark, PipeWrite
<1>10. Reasons'
  BY DEF TypeOK, FlagsOK, StreamFlagsOK, PlacesOK, Control, End, FlagAndByte, Reasons, OrPipeSet,
         OrPipeSetPartner, PipeSet, PipeMark, PipeWrite
<1>11. OneStream'
  BY DEF TypeOK, FlagsOK, StreamFlagsOK, PlacesOK, Control, Locks, Life, End, FlagAndByte,
         OneStream, OrPipeSet, OrPipeSetPartner, PipeSet, PipeMark, PipeWrite
<1>12. DataSets'
  BY DEF TypeOK, FlagsOK, StreamFlagsOK, PlacesOK, Control, FlagAndByte, DataSets, OrPipeSet,
         OrPipeSetPartner, PipeSet, PipeMark, PipeWrite
<1> QED
  BY <1>1, <1>2, <1>3, <1>4, <1>5, <1>6, <1>7, <1>8, <1>9, <1>10, <1>11, <1>12 DEF TypeOK

\* The reader in them.
LEMMA ReaderSets ==
    ASSUME PipeInv, UNCHANGED use,
           OrPipeSet("reader") \/ OrPipeSetPartner("reader") \/ PipeSet("reader") \/
           PipeMark("reader") \/ PipeWrite("reader")
    PROVE  PipeInv'
<1>1. FlagsOK'
  BY Zenon DEF TypeOK, FlagsOK, OrPipeSet, OrPipeSetPartner, PipeSet, PipeMark, PipeWrite
<1>2. StreamFlagsOK'
  BY DEF TypeOK, StreamFlagsOK, OrPipeSet, OrPipeSetPartner, PipeSet, PipeMark, PipeWrite
<1>3. PlacesOK'
  BY DEF TypeOK, PlacesOK, Control, FlagAndByte, OrPipeSet, OrPipeSetPartner, PipeSet, PipeMark,
         PipeWrite
<1>4. Control'
  BY DEF Control, OrPipeSet, OrPipeSetPartner, PipeSet, PipeMark, PipeWrite
<1>5. Locks'
  BY DEF Control, Locks, OrPipeSet, OrPipeSetPartner, PipeSet, PipeMark, PipeWrite
<1>6. Life'
  BY DEF TypeOK, FlagsOK, StreamFlagsOK, PlacesOK, Control, Life, OrPipeSet, OrPipeSetPartner,
         PipeSet, PipeMark, PipeWrite
<1>7. End'
  BY DEF Control, End, OrPipeSet, OrPipeSetPartner, PipeSet, PipeMark, PipeWrite
<1>8. FlagAndByte'
  BY DEF TypeOK, FlagsOK, StreamFlagsOK, PlacesOK, Control, Locks, Life, FlagAndByte, OrPipeSet,
         OrPipeSetPartner, PipeSet, PipeMark, PipeWrite
<1>9. EndIsSet'
  BY DEF TypeOK, FlagsOK, StreamFlagsOK, PlacesOK, Control, Life, FlagAndByte, EndIsSet,
         OrPipeSet, OrPipeSetPartner, PipeSet, PipeMark, PipeWrite
<1>10. Reasons'
  BY DEF TypeOK, FlagsOK, StreamFlagsOK, PlacesOK, Control, Life, FlagAndByte, Reasons, OrPipeSet,
         OrPipeSetPartner, PipeSet, PipeMark, PipeWrite
<1>11. OneStream'
  BY DEF TypeOK, FlagsOK, StreamFlagsOK, PlacesOK, Control, Locks, Life, FlagAndByte, OneStream,
         OrPipeSet, OrPipeSetPartner, PipeSet, PipeMark, PipeWrite
<1>12. DataSets'
  BY DEF TypeOK, FlagsOK, StreamFlagsOK, PlacesOK, Control, DataSets, OrPipeSet, OrPipeSetPartner,
         PipeSet, PipeMark, PipeWrite
<1> QED
  BY <1>1, <1>2, <1>3, <1>4, <1>5, <1>6, <1>7, <1>8, <1>9, <1>10, <1>11, <1>12 DEF TypeOK

\* The reader in OrPipe.clear and PosixPipe.clear.
LEMMA ReaderClears ==
    ASSUME PipeInv, UNCHANGED use,
           OrPipeClear("reader") \/ OrPipeClearPartner("reader") \/ PipeClear("reader") \/
           OsRead("reader") \/ PipeUnmark("reader")
    PROVE  PipeInv'
<1>1. FlagsOK'
  BY Zenon DEF TypeOK, FlagsOK, OrPipeClear, OrPipeClearPartner, PipeClear, OsRead, PipeUnmark
<1>2. StreamFlagsOK'
  BY DEF TypeOK, StreamFlagsOK, OrPipeClear, OrPipeClearPartner, PipeClear, OsRead, PipeUnmark
<1>3. PlacesOK'
  BY DEF TypeOK, PlacesOK, Control, FlagAndByte, OrPipeClear, OrPipeClearPartner, PipeClear,
         OsRead, PipeUnmark
<1>4. Control'
  BY DEF Control, OrPipeClear, OrPipeClearPartner, PipeClear, OsRead, PipeUnmark
<1>5. Locks'
  BY DEF Control, Locks, OrPipeClear, OrPipeClearPartner, PipeClear, OsRead, PipeUnmark
<1>6. Life'
  BY DEF TypeOK, FlagsOK, StreamFlagsOK, PlacesOK, Control, Life, OrPipeClear, OrPipeClearPartner,
         PipeClear, OsRead, PipeUnmark
<1>7. End'
  BY DEF Control, End, OrPipeClear, OrPipeClearPartner, PipeClear, OsRead, PipeUnmark
<1>8. FlagAndByte'
  BY DEF TypeOK, FlagsOK, StreamFlagsOK, PlacesOK, Control, Locks, FlagAndByte, OrPipeClear,
         OrPipeClearPartner, PipeClear, OsRead, PipeUnmark
<1>9. EndIsSet'
  BY DEF TypeOK, FlagsOK, StreamFlagsOK, PlacesOK, Control, Locks, Life, End, EndIsSet,
         OrPipeClear, OrPipeClearPartner, PipeClear, OsRead, PipeUnmark
<1>10. Reasons'
  BY DEF TypeOK, FlagsOK, StreamFlagsOK, PlacesOK, Control, Reasons, OrPipeClear,
         OrPipeClearPartner, PipeClear, OsRead, PipeUnmark
<1>11. OneStream'
  BY DEF TypeOK, FlagsOK, StreamFlagsOK, PlacesOK, Control, FlagAndByte, OneStream, OrPipeClear,
         OrPipeClearPartner, PipeClear, OsRead, PipeUnmark
<1>12. DataSets'
  BY DEF TypeOK, FlagsOK, StreamFlagsOK, PlacesOK, Control, Locks, End, DataSets, OrPipeClear,
         OrPipeClearPartner, PipeClear, OsRead, PipeUnmark
<1> QED
  BY <1>1, <1>2, <1>3, <1>4, <1>5, <1>6, <1>7, <1>8, <1>9, <1>10, <1>11, <1>12 DEF TypeOK

\* The transport thread closes the buffers and sets the pipe for ever.
LEMMA TransportCloses ==
    ASSUME PipeInv, UNCHANGED use,
           CloseBuffer("transport") \/ BufferClosed("transport") \/ SetForever("transport") \/
           ChanUnlock("transport")
    PROVE  PipeInv'
<1>1. FlagsOK'
  BY Zenon DEF TypeOK, FlagsOK, CloseBuffer, BufferClosed, SetForever, ChanUnlock
<1>2. StreamFlagsOK'
  BY DEF TypeOK, StreamFlagsOK, CloseBuffer, BufferClosed, SetForever, ChanUnlock
<1>3. PlacesOK'
  BY DEF TypeOK, PlacesOK, Control, FlagAndByte, CloseBuffer, BufferClosed, SetForever, ChanUnlock
<1>4. Control'
  BY DEF Control, CloseBuffer, BufferClosed, SetForever, ChanUnlock
<1>5. Locks'
  BY DEF TypeOK, FlagsOK, StreamFlagsOK, PlacesOK, Control, Locks, CloseBuffer, BufferClosed,
         SetForever, ChanUnlock
<1>6. Life'
  BY DEF TypeOK, FlagsOK, StreamFlagsOK, PlacesOK, Control, Life, CloseBuffer, BufferClosed,
         SetForever, ChanUnlock
<1>7. End'
  BY DEF TypeOK, FlagsOK, StreamFlagsOK, PlacesOK, Control, Locks, End, CloseBuffer, BufferClosed,
         SetForever, ChanUnlock
<1>8. FlagAndByte'
  BY DEF TypeOK, FlagsOK, StreamFlagsOK, PlacesOK, Control, Locks, FlagAndByte, CloseBuffer,
         BufferClosed, SetForever, ChanUnlock
<1>9. EndIsSet'
  BY DEF TypeOK, FlagsOK, StreamFlagsOK, PlacesOK, Control, EndIsSet, CloseBuffer, BufferClosed,
         SetForever, ChanUnlock
<1>10. Reasons'
  BY DEF TypeOK, FlagsOK, StreamFlagsOK, PlacesOK, Control, Reasons, CloseBuffer, BufferClosed,
         SetForever, ChanUnlock
<1>11. OneStream'
  BY DEF TypeOK, FlagsOK, StreamFlagsOK, PlacesOK, Control, OneStream, CloseBuffer, BufferClosed,
         SetForever, ChanUnlock
<1>12. DataSets'
  BY DEF TypeOK, FlagsOK, StreamFlagsOK, PlacesOK, Control, DataSets, CloseBuffer, BufferClosed,
         SetForever, ChanUnlock
<1> QED
  BY <1>1, <1>2, <1>3, <1>4, <1>5, <1>6, <1>7, <1>8, <1>9, <1>10, <1>11, <1>12 DEF TypeOK

\* The reader closes the buffers, when the pipe is gone.
LEMMA ReaderCloses ==
    ASSUME PipeInv, UNCHANGED use,
           CloseBuffer("reader") \/ BufferClosed("reader") \/ SetForever("reader") \/
           ChanUnlock("reader")
    PROVE  PipeInv'
<1>1. FlagsOK'
  BY Zenon DEF TypeOK, FlagsOK, CloseBuffer, BufferClosed, SetForever, ChanUnlock
<1>2. StreamFlagsOK'
  BY DEF TypeOK, StreamFlagsOK, CloseBuffer, BufferClosed, SetForever, ChanUnlock
<1>3. PlacesOK'
  BY DEF TypeOK, PlacesOK, Control, FlagAndByte, CloseBuffer, BufferClosed, SetForever, ChanUnlock
<1>4. Control'
  BY DEF Control, Life, CloseBuffer, BufferClosed, SetForever, ChanUnlock
<1>5. Locks'
  BY DEF TypeOK, FlagsOK, StreamFlagsOK, PlacesOK, Control, Locks, CloseBuffer, BufferClosed,
         SetForever, ChanUnlock
<1>6. Life'
  BY DEF TypeOK, FlagsOK, StreamFlagsOK, PlacesOK, Control, Life, CloseBuffer, BufferClosed,
         SetForever, ChanUnlock
<1>7. End'
  BY DEF TypeOK, FlagsOK, StreamFlagsOK, PlacesOK, Control, Life, End, CloseBuffer, BufferClosed,
         SetForever, ChanUnlock
<1>8. FlagAndByte'
  BY DEF TypeOK, FlagsOK, StreamFlagsOK, PlacesOK, Control, FlagAndByte, CloseBuffer,
         BufferClosed, SetForever, ChanUnlock
<1>9. EndIsSet'
  BY DEF Control, Life, EndIsSet, CloseBuffer, BufferClosed, SetForever, ChanUnlock
<1>10. Reasons'
  BY DEF TypeOK, FlagsOK, StreamFlagsOK, PlacesOK, Control, Reasons, CloseBuffer, BufferClosed,
         SetForever, ChanUnlock
<1>11. OneStream'
  BY DEF TypeOK, FlagsOK, StreamFlagsOK, PlacesOK, Control, OneStream, CloseBuffer, BufferClosed,
         SetForever, ChanUnlock
<1>12. DataSets'
  BY DEF TypeOK, FlagsOK, StreamFlagsOK, PlacesOK, Control, DataSets, CloseBuffer, BufferClosed,
         SetForever, ChanUnlock
<1> QED
  BY <1>1, <1>2, <1>3, <1>4, <1>5, <1>6, <1>7, <1>8, <1>9, <1>10, <1>11, <1>12 DEF TypeOK

\* BufferedPipe.feed.
LEMMA Feeds ==
    ASSUME PipeInv, UNCHANGED use,
           (\E s \in Streams : Feed(s)) \/ FeedAppend
    PROVE  PipeInv'
<1>1. FlagsOK'
  BY Zenon DEF TypeOK, FlagsOK, Feed, FeedAppend
<1>2. StreamFlagsOK'
  BY DEF TypeOK, StreamFlagsOK, Feed, FeedAppend
<1>3. PlacesOK'
  BY DEF TypeOK, PlacesOK, Control, FlagAndByte, Feed, FeedAppend
<1>4. Control'
  BY DEF Control, Feed, FeedAppend
<1>5. Locks'
  BY DEF TypeOK, FlagsOK, StreamFlagsOK, PlacesOK, Control, Locks, Feed, FeedAppend
<1>6. Life'
  BY DEF TypeOK, FlagsOK, StreamFlagsOK, PlacesOK, Control, Life, Feed, FeedAppend
<1>7. End'
  BY DEF TypeOK, FlagsOK, StreamFlagsOK, PlacesOK, Control, Locks, End, Feed, FeedAppend
<1>8. FlagAndByte'
  BY DEF TypeOK, FlagsOK, StreamFlagsOK, PlacesOK, Control, FlagAndByte, Feed, FeedAppend
<1>9. EndIsSet'
  BY DEF TypeOK, FlagsOK, StreamFlagsOK, PlacesOK, Control, EndIsSet, Feed, FeedAppend
<1>10. Reasons'
  BY DEF TypeOK, FlagsOK, StreamFlagsOK, PlacesOK, Control, Reasons, Feed, FeedAppend
<1>11. OneStream'
  BY DEF TypeOK, FlagsOK, StreamFlagsOK, PlacesOK, Control, OneStream, Feed, FeedAppend
<1>12. DataSets'
  BY DEF TypeOK, FlagsOK, StreamFlagsOK, PlacesOK, Control, DataSets, Feed, FeedAppend
<1> QED
  BY <1>1, <1>2, <1>3, <1>4, <1>5, <1>6, <1>7, <1>8, <1>9, <1>10, <1>11, <1>12 DEF TypeOK

\* Channel.fileno and BufferedPipe.set_event.
LEMMA GivesEvents ==
    ASSUME PipeInv, UNCHANGED use,
           Fileno \/ SetEvent \/ EventSet
    PROVE  PipeInv'
<1>1. FlagsOK'
  BY Zenon DEF TypeOK, FlagsOK, Fileno, SetEvent, EventSet
<1>2. StreamFlagsOK'
  BY DEF TypeOK, StreamFlagsOK, Fileno, SetEvent, EventSet
<1>3. PlacesOK'
  BY DEF TypeOK, PlacesOK, Control, FlagAndByte, Fileno, SetEvent, EventSet
<1>4. Control'
  BY DEF Control, Fileno, SetEvent, EventSet
<1>5. Locks'
  BY DEF TypeOK, FlagsOK, StreamFlagsOK, PlacesOK, Control, Locks, Fileno, SetEvent, EventSet
<1>6. Life'
  BY DEF TypeOK, FlagsOK, StreamFlagsOK, PlacesOK, Control, Life, Fileno, SetEvent, EventSet
<1>7. End'
  BY DEF TypeOK, FlagsOK, StreamFlagsOK, PlacesOK, Control, Locks, End, Fileno, SetEvent, EventSet
<1>8. FlagAndByte'
  BY DEF TypeOK, FlagsOK, StreamFlagsOK, PlacesOK, Control, FlagAndByte, Fileno, SetEvent,
         EventSet
<1>9. EndIsSet'
  BY DEF TypeOK, FlagsOK, StreamFlagsOK, PlacesOK, Control, Locks, Life, EndIsSet, Fileno,
         SetEvent, EventSet
<1>10. Reasons'
  BY DEF TypeOK, FlagsOK, StreamFlagsOK, PlacesOK, Control, Reasons, Fileno, SetEvent, EventSet
<1>11. OneStream'
  BY DEF TypeOK, FlagsOK, StreamFlagsOK, PlacesOK, Control, Life, OneStream, Fileno, SetEvent,
         EventSet
<1>12. DataSets'
  BY DEF TypeOK, FlagsOK, StreamFlagsOK, PlacesOK, Control, Locks, DataSets, Fileno, SetEvent,
         EventSet
<1> QED
  BY <1>1, <1>2, <1>3, <1>4, <1>5, <1>6, <1>7, <1>8, <1>9, <1>10, <1>11, <1>12 DEF TypeOK

\* The loop of the service.
LEMMA Loops ==
    ASSUME PipeInv, UNCHANGED use,
           Poll \/ NotReady \/ Received \/ Leave \/ LeaveForOther
    PROVE  PipeInv'
<1>1. FlagsOK'
  BY Zenon DEF TypeOK, FlagsOK, Poll, NotReady, Received, Leave, LeaveForOther
<1>2. StreamFlagsOK'
  BY DEF TypeOK, StreamFlagsOK, Poll, NotReady, Received, Leave, LeaveForOther
<1>3. PlacesOK'
  BY DEF TypeOK, PlacesOK, Control, FlagAndByte, Poll, NotReady, Received, Leave, LeaveForOther
<1>4. Control'
  BY DEF Control, Poll, NotReady, Received, Leave, LeaveForOther
<1>5. Locks'
  BY DEF TypeOK, FlagsOK, StreamFlagsOK, PlacesOK, Control, Locks, Poll, NotReady, Received,
         Leave, LeaveForOther
<1>6. Life'
  BY DEF TypeOK, FlagsOK, StreamFlagsOK, PlacesOK, Control, Life, Poll, NotReady, Received, Leave,
         LeaveForOther
<1>7. End'
  BY DEF TypeOK, FlagsOK, StreamFlagsOK, PlacesOK, Control, End, Poll, NotReady, Received, Leave,
         LeaveForOther
<1>8. FlagAndByte'
  BY DEF TypeOK, FlagsOK, StreamFlagsOK, PlacesOK, Control, FlagAndByte, Poll, NotReady, Received,
         Leave, LeaveForOther
<1>9. EndIsSet'
  BY DEF Control, EndIsSet, Poll, NotReady, Received, Leave, LeaveForOther
<1>10. Reasons'
  BY DEF TypeOK, FlagsOK, StreamFlagsOK, PlacesOK, Control, Reasons, Poll, NotReady, Received,
         Leave, LeaveForOther
<1>11. OneStream'
  BY DEF TypeOK, FlagsOK, StreamFlagsOK, PlacesOK, Control, OneStream, Poll, NotReady, Received,
         Leave, LeaveForOther
<1>12. DataSets'
  BY DEF TypeOK, FlagsOK, StreamFlagsOK, PlacesOK, Control, DataSets, Poll, NotReady, Received,
         Leave, LeaveForOther
<1> QED
  BY <1>1, <1>2, <1>3, <1>4, <1>5, <1>6, <1>7, <1>8, <1>9, <1>10, <1>11, <1>12 DEF TypeOK

\* BufferedPipe.read.
LEMMA Reads ==
    ASSUME PipeInv, UNCHANGED use,
           NEW n \in Nat, Read(n)
    PROVE  PipeInv'
<1>1. FlagsOK'
  BY Zenon DEF TypeOK, FlagsOK, Read
<1>2. StreamFlagsOK'
  BY DEF TypeOK, StreamFlagsOK, Read
<1>3. PlacesOK'
  BY DEF TypeOK, PlacesOK, Control, FlagAndByte, Read
<1>4. Control'
  BY DEF Control, Read
<1>5. Locks'
  BY DEF TypeOK, FlagsOK, StreamFlagsOK, PlacesOK, Control, Locks, Read
<1>6. Life'
  BY DEF Life, Read
<1>7. End'
  BY DEF TypeOK, FlagsOK, StreamFlagsOK, PlacesOK, End, Read
<1>8. FlagAndByte'
  BY DEF FlagAndByte, Read
<1>9. EndIsSet'
  BY DEF Control, EndIsSet, Read
<1>10. Reasons'
  BY DEF TypeOK, FlagsOK, StreamFlagsOK, PlacesOK, Control, Reasons, Read
<1>11. OneStream'
  BY DEF TypeOK, FlagsOK, StreamFlagsOK, PlacesOK, OneStream, Read
<1>12. DataSets'
  BY DEF TypeOK, FlagsOK, StreamFlagsOK, PlacesOK, DataSets, Read
<1> QED
  BY <1>1, <1>2, <1>3, <1>4, <1>5, <1>6, <1>7, <1>8, <1>9, <1>10, <1>11, <1>12 DEF TypeOK

\* An end of file, a CLOSE, or the end of the loop arrives.
LEMMA Ends ==
    ASSUME PipeInv, UNCHANGED use,
           HandleEof \/ HandleClose \/ Close \/ ClosePipe
    PROVE  PipeInv'
<1>1. FlagsOK'
  BY Zenon DEF TypeOK, FlagsOK, HandleEof, HandleClose, Close, ClosePipe
<1>2. StreamFlagsOK'
  BY DEF TypeOK, StreamFlagsOK, HandleEof, HandleClose, Close, ClosePipe
<1>3. PlacesOK'
  BY DEF TypeOK, PlacesOK, Control, FlagAndByte, HandleEof, HandleClose, Close, ClosePipe
<1>4. Control'
  BY DEF Control, HandleEof, HandleClose, Close, ClosePipe
<1>5. Locks'
  BY DEF TypeOK, FlagsOK, StreamFlagsOK, PlacesOK, Control, Locks, HandleEof, HandleClose, Close,
         ClosePipe
<1>6. Life'
  BY DEF TypeOK, FlagsOK, StreamFlagsOK, PlacesOK, Control, Life, HandleEof, HandleClose, Close,
         ClosePipe
<1>7. End'
  BY DEF TypeOK, FlagsOK, StreamFlagsOK, PlacesOK, Control, Locks, End, HandleEof, HandleClose,
         Close, ClosePipe
<1>8. FlagAndByte'
  BY DEF TypeOK, FlagsOK, StreamFlagsOK, PlacesOK, Control, FlagAndByte, HandleEof, HandleClose,
         Close, ClosePipe
<1>9. EndIsSet'
  BY DEF Control, Locks, EndIsSet, HandleEof, HandleClose, Close, ClosePipe
<1>10. Reasons'
  BY DEF TypeOK, FlagsOK, StreamFlagsOK, PlacesOK, Control, Reasons, HandleEof, HandleClose,
         Close, ClosePipe
<1>11. OneStream'
  BY DEF TypeOK, FlagsOK, StreamFlagsOK, PlacesOK, Control, OneStream, HandleEof, HandleClose,
         Close, ClosePipe
<1>12. DataSets'
  BY DEF TypeOK, FlagsOK, StreamFlagsOK, PlacesOK, Control, DataSets, HandleEof, HandleClose,
         Close, ClosePipe
<1> QED
  BY <1>1, <1>2, <1>3, <1>4, <1>5, <1>6, <1>7, <1>8, <1>9, <1>10, <1>11, <1>12 DEF TypeOK

\* os.write raises in the transport thread only, and in a feed or a closing buffer.
LEMMA WriteFails ==
    ASSUME PipeInv, UNCHANGED use, NEW t \in Threads, PipeWriteFails(t)
    PROVE  PipeInv'
<1>1. t = "transport" /\ ret["transport"] \in {"append", "buffer_closed"}
  BY DEF PipeWriteFails, Control, Life, End, TypeOK, FlagsOK, StreamFlagsOK, PlacesOK
<1>2. pipeClosed /\ bufLock' = [bufLock EXCEPT ![stream["transport"]] = "free"]
        /\ pc' = [pc EXCEPT !["transport"] = "dead"]
        /\ UNCHANGED <<stream, ret, use, toFeed, data, bufClosed, event, pipe, chan>>
  BY <1>1 DEF PipeWriteFails
<1>3. pc["transport"] = "pipe_write"
  BY <1>1 DEF PipeWriteFails
<1>4. TypeOK'
  BY <1>2 DEF TypeOK, FlagsOK, StreamFlagsOK, PlacesOK
<1>5. Control'
  BY <1>2 DEF Control
<1>6. Locks'
  BY <1>1, <1>2, <1>3 DEF Locks, Control, Life, End, TypeOK, StreamFlagsOK, PlacesOK
<1>7. Life'
  BY <1>1, <1>2, <1>3 DEF Life, Control
<1>8. End'
  BY <1>1, <1>2, <1>3 DEF End, Control
<1>9. FlagAndByte'
  BY <1>1, <1>2, <1>3 DEF FlagAndByte, Control, TypeOK, StreamFlagsOK, PlacesOK
<1>10. EndIsSet'
  BY <1>1, <1>2, <1>3 DEF EndIsSet, Control
<1>11. Reasons'
  BY <1>1, <1>2, <1>3 DEF Reasons, Control, TypeOK, StreamFlagsOK, PlacesOK
<1>12. OneStream'
  BY <1>1, <1>2, <1>3 DEF OneStream, Control
<1>13. DataSets'
  BY <1>1, <1>2, <1>3 DEF DataSets, Control
<1> QED
  BY <1>4, <1>5, <1>6, <1>7, <1>8, <1>9, <1>10, <1>11, <1>12, <1>13

-----------------------------------------------------------------------------
LEMMA InvStays ==
    ASSUME PipeInv, [Next]_vars
    PROVE  PipeInv'
<1>1. CASE UNCHANGED vars
  BY <1>1
     DEF vars, TypeOK, FlagsOK, StreamFlagsOK, PlacesOK, Control, Locks, Life, End, FlagAndByte,
         EndIsSet, Reasons, OneStream, DataSets
<1>2. CASE TransportWorks /\ UNCHANGED use
  BY <1>2, TransportSets, TransportCloses, Feeds, WriteFails DEF TransportWorks, Working
<1>3. CASE Arrivals /\ UNCHANGED use
  BY <1>3, Feeds, Ends, Loops DEF Arrivals
<1>4. CASE ReaderWorks /\ UNCHANGED use
  BY <1>4, ReaderSets, ReaderClears, ReaderCloses, GivesEvents, Loops, Reads, Ends, WriteFails
     DEF ReaderWorks, Working, TypeOK
<1> QED
  BY <1>1, <1>2, <1>3, <1>4 DEF Next

-----------------------------------------------------------------------------
LEMMA InvSuffices ==
    ASSUME PipeInv
    PROVE  ReadableRight /\ ClearNeverStuck
<1>1. EofWakes
  BY DEF EofWakes, EndIsSet
<1>2. ReadableHasReason
  BY DEF ReadableHasReason, Unlocked, Locks, Control, Life, End, FlagAndByte, Reasons, TypeOK,
         FlagsOK, StreamFlagsOK, PlacesOK
<1>3. DataIsReadable
  BY DEF DataIsReadable, Unlocked, Locks, Control, Life, FlagAndByte, OneStream, DataSets, TypeOK,
         FlagsOK, StreamFlagsOK, PlacesOK
<1>4. ClearNeverStuck
  BY DEF ClearNeverStuck, Control, Life, FlagAndByte
<1> QED
  BY <1>1, <1>2, <1>3, <1>4 DEF ReadableRight

(* The descriptor a service polls is readable when its channel has data or has *)
(* ended, and has a reason when it is: however feeds, the closing of the       *)
(* buffers, fileno, reads and close interleave (OrPipe, PosixPipe, Channel).   *)
THEOREM DescriptorIsRight == Spec => []ReadableRight
<1> QED
  BY InitHolds, InvStays, InvSuffices, PTL DEF Spec

(* The os.read of PosixPipe.clear always finds the byte it is after, or the *)
(* transport thread is just writing it.                                     *)
THEOREM ClearFindsByte == Spec => []ClearNeverStuck
<1> QED
  BY InitHolds, InvStays, InvSuffices, PTL DEF Spec
=============================================================================
