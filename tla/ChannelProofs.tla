--------------------------- MODULE ChannelProofs ----------------------------

(****************************************************************************)
(* Proofs about Channel, for any window, packet size and amount of data:    *)
(* its types, the account of the window, and the order and the number of    *)
(* the messages of each direction (WireInv, half way down).                 *)
(****************************************************************************)
EXTENDS Channel, SequenceTheorems, FiniteSetTheorems, TLAPS

LEMMA ThresholdType == Threshold \in Nat
BY WindowAssumption DEF Threshold

LEMMA EndsFacts ==
    /\ \A e \in Ends : Other(e) \in Ends /\ Other(e) # e /\ Other(Other(e)) = e
    /\ \A e, d \in Ends : d # e => d = Other(e)
BY DEF Ends, Other

(* Least of two or three numbers is one of them and at most each of them.   *)
LEMMA LeastOfTwo ==
    ASSUME NEW a \in Int, NEW b \in Int
    PROVE  /\ Least({a, b}) \in {a, b}
           /\ Least({a, b}) <= a /\ Least({a, b}) <= b
<1>1. \E x \in {a, b} : \A y \in {a, b} : x <= y
  <2>1. CASE a <= b
    BY <2>1
  <2>2. CASE b <= a
    BY <2>2
  <2> QED
    BY <2>1, <2>2
<1> QED
  BY <1>1 DEF Least

LEMMA LeastOfThree ==
    ASSUME NEW a \in Int, NEW b \in Int, NEW c \in Int
    PROVE  /\ Least({a, b, c}) \in {a, b, c}
           /\ Least({a, b, c}) <= a /\ Least({a, b, c}) <= b /\ Least({a, b, c}) <= c
<1>1. \E x \in {a, b, c} : \A y \in {a, b, c} : x <= y
  <2>1. CASE a <= b /\ a <= c
    BY <2>1
  <2>2. CASE b <= a /\ b <= c
    BY <2>2
  <2>3. CASE c <= a /\ c <= b
    BY <2>3
  <2> QED
    BY <2>1, <2>2, <2>3
<1> QED
  BY <1>1 DEF Least

LEMMA LeastNatural ==
    /\ \A a, b \in Nat : LET n == Least({a, b}) IN n \in Nat /\ n <= a /\ n <= b
    /\ \A a, b, c \in Nat : LET n == Least({a, b, c}) IN n \in Nat /\ n <= a /\ n <= b
<1>1. ASSUME NEW a \in Nat, NEW b \in Nat
      PROVE  Least({a, b}) \in Nat /\ Least({a, b}) <= a /\ Least({a, b}) <= b
  <2>1. a \in Int /\ b \in Int
    OBVIOUS
  <2> QED
    BY <2>1, LeastOfTwo
<1>2. ASSUME NEW a \in Nat, NEW b \in Nat, NEW c \in Nat
      PROVE  Least({a, b, c}) \in Nat /\ Least({a, b, c}) <= a /\ Least({a, b, c}) <= b
  <2>1. a \in Int /\ b \in Int /\ c \in Int
    OBVIOUS
  <2> QED
    BY <2>1, LeastOfThree
<1> QED
  BY <1>1, <1>2

(* A message that arrives is a message.                                     *)
LEMMA ArrivedType ==
    ASSUME QueuesOK, NEW e \in Ends, NEW kinds, Arrives(e, kinds)
    PROVE  Arrived(e) \in Nat /\ wire' \in [Ends -> Seq(Message)]
<1>1. Other(e) \in Ends /\ wire[Other(e)] \in Seq(Message) /\ wire[Other(e)] # <<>>
  BY EndsFacts DEF Arrives, QueuesOK
<1>2. Head(wire[Other(e)]) \in Message
  BY <1>1
<1>3. wire' \in [Ends -> Seq(Message)]
  BY <1>1 DEF Arrives, QueuesOK
<1> QED
  BY <1>2, <1>3 DEF Arrived, Message

(* The messages an end builds are messages.                                 *)
LEMMA MessageTypes ==
    /\ \A n \in Nat : /\ <<Data(n)>> \in Seq(Message)
                      /\ <<JunkOf(n)>> \in Seq(Message)
                      /\ <<Adjust(n)>> \in Seq(Message)
    /\ <<Eof>> \in Seq(Message)
    /\ \A e \in Ends : ClosingMessages(e) \in Seq(Message)
<1>1. /\ \A n \in Nat : Data(n) \in Message /\ JunkOf(n) \in Message /\ Adjust(n) \in Message
      /\ Eof \in Message /\ CloseMsg \in Message
  BY DEF Data, JunkOf, Adjust, Eof, CloseMsg, Message
<1>2. \A e \in Ends : ClosingMessages(e) \in Seq(Message)
  <2> TAKE e \in Ends
  <2>1. CASE eofSent[e]
    BY <1>1, <2>1 DEF ClosingMessages
  <2>2. CASE ~eofSent[e]
    BY <1>1, <2>2 DEF ClosingMessages
  <2> QED
    BY <2>1, <2>2
<1> QED
  BY <1>1, <1>2

LEMMA TypeInit == Init => TypeOK
<1> SUFFICES ASSUME Init PROVE TypeOK
  OBVIOUS
<1>1. NumbersOK
  BY ThresholdType, WindowAssumption, AmountAssumption DEF Init, NumbersOK
<1>2. FlagsOK
  BY DEF Init, FlagsOK
<1>3. QueuesOK
  BY DEF Init, QueuesOK
<1> QED
  BY <1>1, <1>2, <1>3 DEF TypeOK

(* The steps, one by one.                                                   *)
StepOf(e) ==
    \/ Sendall(e) \/ Send(e) \/ SendRaises(e) \/ SendJunk(e)
    \/ (\E nbytes \in ReadSizes : Recv(e, nbytes)) \/ RecvEof(e) \/ CheckAddWindow(e)
    \/ UserTransmits(e) \/ ShutdownWrite(e) \/ ShutdownRead(e) \/ Close(e)
    \/ TransportTransmits(e) \/ Feed(e) \/ FeedExtended(e) \/ WindowAdjust(e)
    \/ HandleEof(e) \/ HandleClose(e) \/ IgnoreDead(e)

LEMMA NextIsStep == Next => \E e \in Ends : StepOf(e)
BY DEF Next, UserSteps, UserEnds, TransportSteps, StepOf

(* What a step that touches numbers does to them.                           *)
LEMMA SendNumbers ==
    ASSUME NumbersOK, NEW e \in Ends, Send(e)
    PROVE  \E n \in Nat :
             /\ n <= inSend[e] /\ n <= outWindow[e]
             /\ outWindow' = [outWindow EXCEPT ![e] = @ - n]
             /\ flight' = [flight EXCEPT ![e] = @ + n]
             /\ inSend' = [inSend EXCEPT ![e] = @ - n]
             /\ sent' = [sent EXCEPT ![e] = @ + n]
             /\ userOut' = [userOut EXCEPT ![e] = <<Data(n)>>]
<1> DEFINE n == Least({inSend[e], outWindow[e], MaxChunk})
<1>0. inSend[e] \in Nat /\ outWindow[e] \in Nat /\ MaxChunk \in Nat
  BY ChunkAssumption DEF NumbersOK
<1>1. n \in Nat /\ n <= inSend[e] /\ n <= outWindow[e]
  BY <1>0, LeastNatural
<1> HIDE DEF n
<1>2. /\ Reserve(e, n, Data(n))
      /\ inSend' = [inSend EXCEPT ![e] = @ - n]
      /\ sent' = [sent EXCEPT ![e] = @ + n]
  BY DEF Send, n
<1>3. /\ outWindow' = [outWindow EXCEPT ![e] = @ - n]
      /\ flight' = [flight EXCEPT ![e] = @ + n]
      /\ userOut' = [userOut EXCEPT ![e] = <<Data(n)>>]
  BY <1>2 DEF Reserve
<1> USE <1>1
<1> WITNESS n \in Nat
<1> QED
  BY <1>2, <1>3

LEMMA SendJunkNumbers ==
    ASSUME NumbersOK, NEW e \in Ends, SendJunk(e)
    PROVE  \E n \in Nat :
             /\ n <= toJunk[e] /\ n <= outWindow[e]
             /\ outWindow' = [outWindow EXCEPT ![e] = @ - n]
             /\ flight' = [flight EXCEPT ![e] = @ + n]
             /\ toJunk' = [toJunk EXCEPT ![e] = @ - n]
             /\ userOut' = [userOut EXCEPT ![e] = <<JunkOf(n)>>]
<1> DEFINE n == Least({toJunk[e], outWindow[e], MaxChunk})
<1>0. toJunk[e] \in Nat /\ outWindow[e] \in Nat /\ MaxChunk \in Nat
  BY ChunkAssumption DEF NumbersOK
<1>1. n \in Nat /\ n <= toJunk[e] /\ n <= outWindow[e]
  BY <1>0, LeastNatural
<1> HIDE DEF n
<1>2. Reserve(e, n, JunkOf(n)) /\ toJunk' = [toJunk EXCEPT ![e] = @ - n]
  BY DEF SendJunk, n
<1>3. /\ outWindow' = [outWindow EXCEPT ![e] = @ - n]
      /\ flight' = [flight EXCEPT ![e] = @ + n]
      /\ userOut' = [userOut EXCEPT ![e] = <<JunkOf(n)>>]
  BY <1>2 DEF Reserve
<1> USE <1>1
<1> WITNESS n \in Nat
<1> QED
  BY <1>2, <1>3

LEMMA RecvNumbers ==
    ASSUME NumbersOK, NEW e \in Ends, NEW nbytes \in ReadSizes, Recv(e, nbytes)
    PROVE  /\ got[e] = 0
           /\ \E n \in Nat :
                /\ n <= buffered[e]
                /\ buffered' = [buffered EXCEPT ![e] = @ - n]
                /\ got' = [got EXCEPT ![e] = n]
                /\ reads' = [reads EXCEPT ![e] = @ + n]
<1> DEFINE n == Least({nbytes, buffered[e]})
<1>0. nbytes \in Nat /\ buffered[e] \in Nat
  BY ReadAssumption DEF NumbersOK
<1>1. n \in Nat /\ n <= buffered[e]
  BY <1>0, LeastNatural
<1> HIDE DEF n
<1>2. /\ got[e] = 0
      /\ buffered' = [buffered EXCEPT ![e] = @ - n]
      /\ got' = [got EXCEPT ![e] = n]
      /\ reads' = [reads EXCEPT ![e] = @ + n]
  BY DEF Recv, UserIdle, n
<1>3. \E m \in Nat :
        /\ m <= buffered[e]
        /\ buffered' = [buffered EXCEPT ![e] = @ - m]
        /\ got' = [got EXCEPT ![e] = m]
        /\ reads' = [reads EXCEPT ![e] = @ + m]
  <2> USE <1>1
  <2> WITNESS n \in Nat
  <2> QED
    BY <1>2
<1> QED
  BY <1>2, <1>3

LEMMA CheckAddWindowNumbers ==
    ASSUME NumbersOK, NEW e \in Ends, CheckAddWindow(e)
    PROVE  /\ got' = [got EXCEPT ![e] = 0]
           /\ UNCHANGED <<outWindow, flight, sent, buffered, reads, sending>>
           /\ \/ lost' = [lost EXCEPT ![e] = @ + got[e]] /\ UNCHANGED <<sofar, credit, userOut>>
              \/ /\ sofar[e] + got[e] <= Threshold
                 /\ sofar' = [sofar EXCEPT ![e] = sofar[e] + got[e]]
                 /\ UNCHANGED <<lost, credit, userOut>>
              \/ /\ sofar' = [sofar EXCEPT ![e] = 0]
                 /\ credit' = [credit EXCEPT ![e] = @ + (sofar[e] + got[e])]
                 /\ userOut' = [userOut EXCEPT ![e] = <<Adjust(sofar[e] + got[e])>>]
                 /\ UNCHANGED lost
BY DEF CheckAddWindow, flags, sending

LEMMA NumbersStep == TypeOK /\ [Next]_vars => NumbersOK'
<1> SUFFICES ASSUME TypeOK, [Next]_vars PROVE NumbersOK'
  OBVIOUS
<1> USE DEF TypeOK, NumbersOK, window, reading, flags, sending, outs
<1>1. ASSUME NEW e \in Ends, StepOf(e) PROVE NumbersOK'
  <2>1. CASE Sendall(e)
    BY <2>1 DEF Sendall
  <2>2. CASE Send(e)
    <3>1. PICK n \in Nat : /\ n <= inSend[e] /\ n <= outWindow[e]
                          /\ outWindow' = [outWindow EXCEPT ![e] = @ - n]
                          /\ flight' = [flight EXCEPT ![e] = @ + n]
                          /\ inSend' = [inSend EXCEPT ![e] = @ - n]
                          /\ sent' = [sent EXCEPT ![e] = @ + n]
      BY <2>2, SendNumbers
    <3>2. UNCHANGED <<sofar, credit, lost, reading, toSend, toJunk>>
      BY <2>2 DEF Send
    <3> QED
      BY <3>1, <3>2
  <2>3. CASE SendRaises(e)
    BY <2>3 DEF SendRaises
  <2>4. CASE SendJunk(e)
    <3>1. PICK n \in Nat : /\ n <= toJunk[e] /\ n <= outWindow[e]
                          /\ outWindow' = [outWindow EXCEPT ![e] = @ - n]
                          /\ flight' = [flight EXCEPT ![e] = @ + n]
                          /\ toJunk' = [toJunk EXCEPT ![e] = @ - n]
      BY <2>4, SendJunkNumbers
    <3>2. UNCHANGED <<sofar, credit, lost, sent, reading, toSend, inSend>>
      BY <2>4 DEF SendJunk
    <3> QED
      BY <3>1, <3>2
  <2>5. ASSUME NEW nbytes \in ReadSizes, Recv(e, nbytes) PROVE NumbersOK'
    <3>1. PICK n \in Nat : /\ n <= buffered[e]
                          /\ buffered' = [buffered EXCEPT ![e] = @ - n]
                          /\ got' = [got EXCEPT ![e] = n]
                          /\ reads' = [reads EXCEPT ![e] = @ + n]
      BY <2>5, RecvNumbers
    <3>2. UNCHANGED <<window, sending>>
      BY <2>5 DEF Recv
    <3> QED
      BY <3>1, <3>2
  <2>6. CASE RecvEof(e)
    BY <2>6 DEF RecvEof
  <2>7. CASE CheckAddWindow(e)
    BY <2>7, CheckAddWindowNumbers, ThresholdType
  <2>8. CASE UserTransmits(e)
    BY <2>8 DEF UserTransmits
  <2>9. CASE ShutdownWrite(e)
    BY <2>9 DEF ShutdownWrite
  <2>10. CASE ShutdownRead(e)
    BY <2>10 DEF ShutdownRead
  <2>11. CASE Close(e)
    BY <2>11 DEF Close
  <2>12. CASE TransportTransmits(e)
    BY <2>12 DEF TransportTransmits
  <2>13. CASE Feed(e)
    <3>1. Arrived(e) \in Nat /\ Other(e) \in Ends
      BY <2>13, ArrivedType, EndsFacts DEF Feed
    <3> QED
      BY <2>13, <3>1 DEF Feed
  <2>14. CASE FeedExtended(e)
    <3>1. Arrived(e) \in Nat /\ Other(e) \in Ends
      BY <2>14, ArrivedType, EndsFacts DEF FeedExtended
    <3> QED
      BY <2>14, <3>1 DEF FeedExtended
  <2>15. CASE WindowAdjust(e)
    <3>1. Arrived(e) \in Nat /\ Other(e) \in Ends
      BY <2>15, ArrivedType, EndsFacts DEF WindowAdjust
    <3> QED
      BY <2>15, <3>1 DEF WindowAdjust
  <2>16. CASE HandleEof(e)
    BY <2>16 DEF HandleEof
  <2>17. CASE HandleClose(e)
    BY <2>17 DEF HandleClose
  <2>18. CASE IgnoreDead(e)
    BY <2>18 DEF IgnoreDead
  <2> QED
    BY <1>1, <2>1, <2>2, <2>3, <2>4, <2>5, <2>6, <2>7, <2>8, <2>9, <2>10, <2>11, <2>12,
       <2>13, <2>14, <2>15, <2>16, <2>17, <2>18 DEF StepOf
<1>2. CASE UNCHANGED vars
  BY <1>2 DEF vars
<1> QED
  BY <1>1, <1>2, NextIsStep

LEMMA FlagsStep == TypeOK /\ [Next]_vars => FlagsOK'
<1> SUFFICES ASSUME TypeOK, [Next]_vars PROVE FlagsOK'
  OBVIOUS
<1> USE DEF TypeOK, FlagsOK, window, reading, flags, sending, outs
<1>1. ASSUME NEW e \in Ends, StepOf(e) PROVE FlagsOK'
  <2>1. CASE Sendall(e)
    BY <2>1 DEF Sendall
  <2>2. CASE Send(e)
    BY <2>2 DEF Send
  <2>3. CASE SendRaises(e)
    BY <2>3 DEF SendRaises
  <2>4. CASE SendJunk(e)
    BY <2>4 DEF SendJunk
  <2>5. ASSUME NEW nbytes \in ReadSizes, Recv(e, nbytes) PROVE FlagsOK'
    BY <2>5 DEF Recv
  <2>6. CASE RecvEof(e)
    BY <2>6 DEF RecvEof
  <2>7. CASE CheckAddWindow(e)
    BY <2>7 DEF CheckAddWindow
  <2>8. CASE UserTransmits(e)
    BY <2>8 DEF UserTransmits
  <2>9. CASE ShutdownWrite(e)
    BY <2>9 DEF ShutdownWrite
  <2>10. CASE ShutdownRead(e)
    BY <2>10 DEF ShutdownRead
  <2>11. CASE Close(e)
    BY <2>11 DEF Close, CloseInternal
  <2>12. CASE TransportTransmits(e)
    BY <2>12 DEF TransportTransmits
  <2>13. CASE Feed(e)
    BY <2>13 DEF Feed
  <2>14. CASE FeedExtended(e)
    BY <2>14 DEF FeedExtended
  <2>15. CASE WindowAdjust(e)
    BY <2>15 DEF WindowAdjust
  <2>16. CASE HandleEof(e)
    BY <2>16 DEF HandleEof
  <2>17. CASE HandleClose(e)
    BY <2>17 DEF HandleClose, CloseInternal
  <2>18. CASE IgnoreDead(e)
    BY <2>18 DEF IgnoreDead
  <2> QED
    BY <1>1, <2>1, <2>2, <2>3, <2>4, <2>5, <2>6, <2>7, <2>8, <2>9, <2>10, <2>11, <2>12,
       <2>13, <2>14, <2>15, <2>16, <2>17, <2>18 DEF StepOf
<1>2. CASE UNCHANGED vars
  BY <1>2 DEF vars
<1> QED
  BY <1>1, <1>2, NextIsStep

LEMMA QueuesStep == TypeOK /\ [Next]_vars => QueuesOK'
<1> SUFFICES ASSUME TypeOK, [Next]_vars PROVE QueuesOK'
  OBVIOUS
<1> USE DEF TypeOK, QueuesOK, window, reading, flags, sending, outs
<1>1. ASSUME NEW e \in Ends, StepOf(e) PROVE QueuesOK'
  <2>1. CASE Sendall(e)
    BY <2>1 DEF Sendall
  <2>2. CASE Send(e)
    <3>1. PICK n \in Nat : userOut' = [userOut EXCEPT ![e] = <<Data(n)>>]
      BY <2>2, SendNumbers
    <3>2. UNCHANGED <<transOut, wire>>
      BY <2>2 DEF Send
    <3> QED
      BY <3>1, <3>2, MessageTypes
  <2>3. CASE SendRaises(e)
    BY <2>3 DEF SendRaises
  <2>4. CASE SendJunk(e)
    <3>1. PICK n \in Nat : userOut' = [userOut EXCEPT ![e] = <<JunkOf(n)>>]
      BY <2>4, SendJunkNumbers
    <3>2. UNCHANGED <<transOut, wire>>
      BY <2>4 DEF SendJunk
    <3> QED
      BY <3>1, <3>2, MessageTypes
  <2>5. ASSUME NEW nbytes \in ReadSizes, Recv(e, nbytes) PROVE QueuesOK'
    BY <2>5 DEF Recv
  <2>6. CASE RecvEof(e)
    BY <2>6 DEF RecvEof
  <2>7. CASE CheckAddWindow(e)
    <3>1. sofar[e] + got[e] \in Nat
      BY DEF NumbersOK
    <3>2. <<Adjust(sofar[e] + got[e])>> \in Seq(Message)
      BY <3>1, MessageTypes
    <3>3. UNCHANGED <<transOut, wire>>
      BY <2>7 DEF CheckAddWindow
    <3> QED
      BY <2>7, <3>2, <3>3, CheckAddWindowNumbers
  <2>8. CASE UserTransmits(e)
    BY <2>8 DEF UserTransmits
  <2>9. CASE ShutdownWrite(e)
    BY <2>9, MessageTypes DEF ShutdownWrite
  <2>10. CASE ShutdownRead(e)
    BY <2>10 DEF ShutdownRead
  <2>11. CASE Close(e)
    BY <2>11, MessageTypes DEF Close
  <2>12. CASE TransportTransmits(e)
    BY <2>12 DEF TransportTransmits
  <2>13. CASE Feed(e)
    BY <2>13, ArrivedType DEF Feed
  <2>14. CASE FeedExtended(e)
    BY <2>14, ArrivedType DEF FeedExtended
  <2>15. CASE WindowAdjust(e)
    BY <2>15, ArrivedType DEF WindowAdjust
  <2>16. CASE HandleEof(e)
    BY <2>16, ArrivedType DEF HandleEof
  <2>17. CASE HandleClose(e)
    BY <2>17, ArrivedType, MessageTypes DEF HandleClose
  <2>18. CASE IgnoreDead(e)
    BY <2>18, ArrivedType DEF IgnoreDead
  <2> QED
    BY <1>1, <2>1, <2>2, <2>3, <2>4, <2>5, <2>6, <2>7, <2>8, <2>9, <2>10, <2>11, <2>12,
       <2>13, <2>14, <2>15, <2>16, <2>17, <2>18 DEF StepOf
<1>2. CASE UNCHANGED vars
  BY <1>2 DEF vars
<1> QED
  BY <1>1, <1>2, NextIsStep

(* Type correctness of a channel, for every window, packet size and amount. *)
THEOREM TypeCorrect == Spec => []TypeOK
<1>1. TypeOK /\ [Next]_vars => TypeOK'
  BY NumbersStep, FlagsStep, QueuesStep DEF TypeOK
<1> QED
  BY <1>1, TypeInit, PTL DEF Spec

-----------------------------------------------------------------------------

(* The window.  Account(d) is what the window of the direction from d to its *)
(* peer is made of; every step only moves bytes between its parts.           *)
Account(d) ==
    outWindow[d] + flight[d] + buffered[Other(d)] + got[Other(d)] + sofar[Other(d)]
      + credit[Other(d)] + lost[Other(d)]

LEMMA ConservedIsAccount == WindowConserved <=> \A d \in Ends : Account(d) = Window
BY DEF WindowConserved, Account

\* A step of end e changes the account of e as a sender and of Other(e), whose
\* receiver it is; these are all.
LEMMA TwoAccounts ==
    ASSUME NEW e \in Ends, Account(e)' = Account(e), Account(Other(e))' = Account(Other(e))
    PROVE  \A d \in Ends : Account(d)' = Account(d)
BY EndsFacts

LEMMA AccountUnchanged ==
    ASSUME UNCHANGED <<window, buffered, got>>
    PROVE  \A d \in Ends : Account(d)' = Account(d)
BY DEF Account, window

LEMMA AccountStep ==
    ASSUME TypeOK, NEW e \in Ends, StepOf(e)
    PROVE  \A d \in Ends : Account(d)' = Account(d)
<1> USE DEF TypeOK, NumbersOK, window, reading
<1> DEFINE p == Other(e)
<1>0. p \in Ends /\ p # e /\ Other(p) = e /\ Other(e) = p
  BY EndsFacts
<1> HIDE DEF p
<1>1. CASE Sendall(e)
  BY <1>1, AccountUnchanged DEF Sendall
<1>2. CASE Send(e)
  <2>1. PICK n \in Nat : /\ outWindow' = [outWindow EXCEPT ![e] = @ - n]
                        /\ flight' = [flight EXCEPT ![e] = @ + n]
    BY <1>2, SendNumbers
  <2>2. UNCHANGED <<sofar, credit, lost, reading>>
    BY <1>2 DEF Send
  <2>3. Account(e)' = Account(e) /\ Account(p)' = Account(p)
    BY <1>0, <2>1, <2>2 DEF Account
  <2> QED
    BY <1>0, <2>3, TwoAccounts
<1>3. CASE SendRaises(e)
  BY <1>3, AccountUnchanged DEF SendRaises
<1>4. CASE SendJunk(e)
  <2>1. PICK n \in Nat : /\ outWindow' = [outWindow EXCEPT ![e] = @ - n]
                        /\ flight' = [flight EXCEPT ![e] = @ + n]
    BY <1>4, SendJunkNumbers
  <2>2. UNCHANGED <<sofar, credit, lost, reading>>
    BY <1>4 DEF SendJunk
  <2>3. Account(e)' = Account(e) /\ Account(p)' = Account(p)
    BY <1>0, <2>1, <2>2 DEF Account
  <2> QED
    BY <1>0, <2>3, TwoAccounts
<1>5. ASSUME NEW nbytes \in ReadSizes, Recv(e, nbytes)
      PROVE  \A d \in Ends : Account(d)' = Account(d)
  <2>1. got[e] = 0
    BY <1>5, RecvNumbers
  <2>2. PICK n \in Nat : /\ buffered' = [buffered EXCEPT ![e] = @ - n]
                        /\ got' = [got EXCEPT ![e] = n]
    BY <1>5, RecvNumbers
  <2>3. UNCHANGED window
    BY <1>5 DEF Recv
  <2>4. Account(e)' = Account(e) /\ Account(p)' = Account(p)
    BY <1>0, <2>1, <2>2, <2>3 DEF Account
  <2> QED
    BY <1>0, <2>4, TwoAccounts
<1>6. CASE RecvEof(e)
  BY <1>6, AccountUnchanged DEF RecvEof
<1>7. CASE CheckAddWindow(e)
  <2>1. Account(e)' = Account(e) /\ Account(p)' = Account(p)
    BY <1>0, <1>7, CheckAddWindowNumbers, ThresholdType DEF Account
  <2> QED
    BY <1>0, <2>1, TwoAccounts
<1>8. CASE UserTransmits(e)
  BY <1>8, AccountUnchanged DEF UserTransmits
<1>9. CASE ShutdownWrite(e)
  BY <1>9, AccountUnchanged DEF ShutdownWrite
<1>10. CASE ShutdownRead(e)
  BY <1>10, AccountUnchanged DEF ShutdownRead
<1>11. CASE Close(e)
  BY <1>11, AccountUnchanged DEF Close
<1>12. CASE TransportTransmits(e)
  BY <1>12, AccountUnchanged DEF TransportTransmits
<1>13. CASE Feed(e)
  <2>1. Arrived(e) \in Nat
    BY <1>13, ArrivedType DEF Feed
  <2>2. /\ flight' = [flight EXCEPT ![p] = @ - Arrived(e)]
        /\ buffered' = [buffered EXCEPT ![e] = @ + Arrived(e)]
        /\ UNCHANGED <<outWindow, sofar, credit, lost, got>>
    BY <1>0, <1>13 DEF Feed
  <2>3. Account(e)' = Account(e) /\ Account(p)' = Account(p)
    BY <1>0, <2>1, <2>2 DEF Account
  <2> QED
    BY <1>0, <2>3, TwoAccounts
<1>14. CASE FeedExtended(e)
  <2>1. Arrived(e) \in Nat
    BY <1>14, ArrivedType DEF FeedExtended
  <2>2. /\ flight' = [flight EXCEPT ![p] = @ - Arrived(e)]
        /\ lost' = [lost EXCEPT ![e] = @ + Arrived(e)]
        /\ UNCHANGED <<outWindow, sofar, credit, reading>>
    BY <1>0, <1>14 DEF FeedExtended
  <2>3. Account(e)' = Account(e) /\ Account(p)' = Account(p)
    BY <1>0, <2>1, <2>2 DEF Account
  <2> QED
    BY <1>0, <2>3, TwoAccounts
<1>15. CASE WindowAdjust(e)
  <2>1. Arrived(e) \in Nat
    BY <1>15, ArrivedType DEF WindowAdjust
  <2>2. /\ credit' = [credit EXCEPT ![p] = @ - Arrived(e)]
        /\ outWindow' = [outWindow EXCEPT ![e] = @ + Arrived(e)]
        /\ UNCHANGED <<sofar, flight, lost, reading>>
    BY <1>0, <1>15 DEF WindowAdjust
  <2>3. Account(e)' = Account(e) /\ Account(p)' = Account(p)
    BY <1>0, <2>1, <2>2 DEF Account
  <2> QED
    BY <1>0, <2>3, TwoAccounts
<1>16. CASE HandleEof(e)
  BY <1>16, AccountUnchanged DEF HandleEof
<1>17. CASE HandleClose(e)
  BY <1>17, AccountUnchanged DEF HandleClose
<1>18. CASE IgnoreDead(e)
  BY <1>18, AccountUnchanged DEF IgnoreDead
<1> QED
  BY <1>1, <1>2, <1>3, <1>4, <1>5, <1>6, <1>7, <1>8, <1>9, <1>10, <1>11, <1>12, <1>13, <1>14,
     <1>15, <1>16, <1>17, <1>18 DEF StepOf

(* The window of each direction is conserved whatever the four threads      *)
(* interleave to, for every window, packet size and amount of data.         *)
THEOREM WindowIsConserved == Spec => []WindowConserved
<1>1. Init => WindowConserved
  <2> SUFFICES ASSUME Init, NEW e \in Ends PROVE Account(e) = Window
    BY DEF WindowConserved, Account
  <2>1. Other(e) \in Ends
    BY EndsFacts
  <2>2. /\ outWindow[e] = Window /\ flight[e] = 0
        /\ buffered[Other(e)] = 0 /\ got[Other(e)] = 0 /\ sofar[Other(e)] = 0
        /\ credit[Other(e)] = 0 /\ lost[Other(e)] = 0
    BY <2>1 DEF Init
  <2> QED
    BY <2>2, WindowAssumption DEF Account
<1>2. TypeOK /\ WindowConserved /\ [Next]_vars => WindowConserved'
  <2> SUFFICES ASSUME TypeOK, WindowConserved, [Next]_vars PROVE WindowConserved'
    OBVIOUS
  <2>1. \A d \in Ends : Account(d)' = Account(d)
    <3>1. CASE Next
      BY <3>1, NextIsStep, AccountStep
    <3>2. CASE UNCHANGED vars
      <4>1. UNCHANGED <<window, buffered, got>>
        BY <3>2 DEF vars, reading
      <4> QED
        BY <4>1, AccountUnchanged
    <3> QED
      BY <3>1, <3>2
  <2>2. \A d \in Ends : Account(d)' = Window
    BY <2>1, ConservedIsAccount
  <2> QED
    <3> SUFFICES ASSUME NEW d \in Ends PROVE Account(d)' = Window
      BY DEF WindowConserved, Account
    <3> QED
      BY <2>2
<1> QED
  BY <1>1, <1>2, TypeCorrect, PTL DEF Spec
(****************************************************************************)
(* Sequences of messages: which kinds are among them and how many bytes     *)
(* they carry.                                                              *)
(****************************************************************************)
SomeOf(s, kinds) == \E i \in 1 .. Len(s) : s[i].kind \in kinds

Messages == Seq(Message)

LEMMA HeadFirst ==
    ASSUME NEW s \in Messages, s # <<>>
    PROVE  /\ Head(s) \in Message /\ Tail(s) \in Messages /\ <<Head(s)>> \in Messages
           /\ s = <<Head(s)>> \o Tail(s)
<1>1. Head(s) \in Message /\ Tail(s) \in Seq(Message)
  BY DEF Messages
<1>2. <<Head(s)>> \o Tail(s) \in Seq(Message) /\ s \in Seq(Message)
  BY <1>1 DEF Messages
<1>3. Len(s) = Len(<<Head(s)>> \o Tail(s))
  BY <1>1 DEF Messages
<1>4. \A i \in 1 .. Len(s) : s[i] = (<<Head(s)>> \o Tail(s))[i]
  BY <1>1 DEF Messages
<1>5. s = <<Head(s)>> \o Tail(s)
  BY <1>2, <1>3, <1>4, SeqEqual
<1> QED
  BY <1>1, <1>5 DEF Messages

LEMMA Appended ==
    ASSUME NEW s \in Messages, NEW m \in Message
    PROVE  Append(s, m) = s \o <<m>> /\ <<m>> \in Messages /\ Append(s, m) \in Messages
<1>1. s \o <<m>> \in Seq(Message) /\ Append(s, m) \in Seq(Message)
  BY DEF Messages
<1>2. Len(s \o <<m>>) = Len(Append(s, m))
  BY DEF Messages
<1>3. \A i \in 1 .. Len(s \o <<m>>) : (s \o <<m>>)[i] = Append(s, m)[i]
  BY DEF Messages
<1>4. Append(s, m) = s \o <<m>>
  BY <1>1, <1>2, <1>3, SeqEqual
<1> QED
  BY <1>1, <1>4 DEF Messages

LEMMA Joined ==
    ASSUME NEW s \in Messages, NEW t \in Messages
    PROVE  /\ s \o t \in Messages /\ Len(s) \in Nat /\ Len(t) \in Nat
           /\ Len(s \o t) = Len(s) + Len(t)
           /\ \A i \in 1 .. Len(s) : (s \o t)[i] = s[i] /\ i \in 1 .. Len(s \o t)
           /\ \A i \in 1 .. Len(t) :
                  (s \o t)[Len(s) + i] = t[i] /\ Len(s) + i \in 1 .. Len(s \o t)
           /\ \A i \in 1 .. Len(s \o t) :
                  i \in 1 .. Len(s) \/ \E j \in 1 .. Len(t) : i = Len(s) + j
           /\ s \o <<>> = s /\ <<>> \o s = s
<1>1. /\ s \o t \in Seq(Message) /\ Len(s \o t) = Len(s) + Len(t)
      /\ Len(s) \in Nat /\ Len(t) \in Nat
      /\ \A i \in 1 .. Len(s) + Len(t) :
             (s \o t)[i] = IF i <= Len(s) THEN s[i] ELSE t[i - Len(s)]
  BY ConcatProperties DEF Messages
<1>2. \A i \in 1 .. Len(s) : (s \o t)[i] = s[i] /\ i \in 1 .. Len(s \o t)
  BY <1>1
<1>3. \A i \in 1 .. Len(t) : (s \o t)[Len(s) + i] = t[i] /\ Len(s) + i \in 1 .. Len(s \o t)
  BY <1>1
<1>4. ASSUME NEW i \in 1 .. Len(s \o t), i \notin 1 .. Len(s)
      PROVE  \E j \in 1 .. Len(t) : i = Len(s) + j
  <2>1. i - Len(s) \in 1 .. Len(t) /\ i = Len(s) + (i - Len(s))
    BY <1>1, <1>4
  <2> QED
    BY <2>1
<1>5. s \o <<>> = s /\ <<>> \o s = s
  BY ConcatEmptySeq DEF Messages
<1> QED
  BY <1>1, <1>2, <1>3, <1>4, <1>5 DEF Messages

LEMMA SomeJoined ==
    ASSUME NEW s \in Messages, NEW t \in Messages, NEW K
    PROVE  SomeOf(s \o t, K) <=> SomeOf(s, K) \/ SomeOf(t, K)
<1>1. ASSUME NEW i \in 1 .. Len(s \o t), (s \o t)[i].kind \in K
      PROVE  SomeOf(s, K) \/ SomeOf(t, K)
  <2>1. CASE i \in 1 .. Len(s)
    <3>1. (s \o t)[i] = s[i]
      BY <2>1, Joined
    <3> QED
      BY <1>1, <2>1, <3>1 DEF SomeOf
  <2>2. CASE \E j \in 1 .. Len(t) : i = Len(s) + j
    <3>1. PICK j \in 1 .. Len(t) : i = Len(s) + j
      BY <2>2
    <3>2. (s \o t)[i] = t[j]
      BY <3>1, Joined
    <3> QED
      BY <1>1, <3>1, <3>2 DEF SomeOf
  <2> QED
    BY <2>1, <2>2, Joined
<1>2. ASSUME NEW i \in 1 .. Len(s), s[i].kind \in K PROVE SomeOf(s \o t, K)
  <2>1. (s \o t)[i] = s[i] /\ i \in 1 .. Len(s \o t)
    BY Joined
  <2> QED
    BY <1>2, <2>1 DEF SomeOf
<1>3. ASSUME NEW i \in 1 .. Len(t), t[i].kind \in K PROVE SomeOf(s \o t, K)
  <2>1. (s \o t)[Len(s) + i] = t[i] /\ Len(s) + i \in 1 .. Len(s \o t)
    BY Joined
  <2> QED
    BY <1>3, <2>1 DEF SomeOf
<1> QED
  BY <1>1, <1>2, <1>3 DEF SomeOf

LEMMA SomeSingle ==
    ASSUME NEW m, NEW K
    PROVE  ~SomeOf(<<>>, K) /\ (SomeOf(<<m>>, K) <=> m.kind \in K)
BY DEF SomeOf

LEMMA SomeAppend ==
    ASSUME NEW s \in Messages, NEW m \in Message, NEW K
    PROVE  SomeOf(Append(s, m), K) <=> SomeOf(s, K) \/ m.kind \in K
<1>1. SomeOf(s \o <<m>>, K) <=> SomeOf(s, K) \/ SomeOf(<<m>>, K)
  BY Appended, SomeJoined
<1> QED
  BY <1>1, Appended, SomeSingle

LEMMA SomeSplit ==
    ASSUME NEW s \in Messages, s # <<>>, NEW K
    PROVE  SomeOf(s, K) <=> Head(s).kind \in K \/ SomeOf(Tail(s), K)
<1>1. SomeOf(<<Head(s)>> \o Tail(s), K) <=> SomeOf(<<Head(s)>>, K) \/ SomeOf(Tail(s), K)
  BY HeadFirst, SomeJoined
<1> QED
  BY <1>1, HeadFirst, SomeSingle

-----------------------------------------------------------------------------
LEMMA InCarried ==
    ASSUME NEW s \in Messages, NEW K, NEW x
    PROVE  x \in Carried(s, K) <=>
             \E i \in 1 .. Len(s) : s[i].kind \in K /\ \E k \in 1 .. s[i].n : x = <<i, k>>
BY DEF Carried

LEMMA CarriedFinite ==
    ASSUME NEW s \in Messages, NEW K
    PROVE  IsFiniteSet(Carried(s, K)) /\ Bytes(s, K) \in Nat
<1> DEFINE I == {j \in 1 .. Len(s) : s[j].kind \in K}
           F(i) == {i} \X (1 .. s[i].n)
           T == {F(i) : i \in I}
           f == [i \in I |-> F(i)]
<1>1. Len(s) \in Nat
  BY DEF Messages
<1>2. IsFiniteSet(1 .. Len(s))
  BY <1>1, FS_Interval
<1>3. IsFiniteSet(I)
  BY <1>2, FS_Subset
<1>4. f \in Surjection(I, T)
  BY DEF Surjection
<1> HIDE DEF f
<1>5. IsFiniteSet(T)
  BY <1>3, <1>4, FS_Surjection
<1>6. ASSUME NEW i \in I PROVE IsFiniteSet(F(i))
  <2>0. s[i] \in Message
    BY ElementOfSeq DEF Messages
  <2>1. s[i].n \in Int
    BY <2>0 DEF Message
  <2>2. 1 \in Int
    OBVIOUS
  <2>3. IsFiniteSet(1 .. s[i].n)
    BY <2>1, <2>2, FS_Interval, Zenon
  <2> QED
    BY <2>3, FS_Singleton, FS_Product
<1>7. IsFiniteSet(UNION T)
  BY <1>5, <1>6, FS_UNION
<1> QED
  BY <1>7, FS_CardinalityType DEF Carried, Bytes

LEMMA BytesJoined ==
    ASSUME NEW s \in Messages, NEW t \in Messages, NEW K
    PROVE  Bytes(s \o t, K) = Bytes(s, K) + Bytes(t, K)
<1> DEFINE l == Len(s)
           A == Carried(s, K)
           B == Carried(t, K)
           D == {<<x[1] + l, x[2]>> : x \in B}
           f == [x \in B |-> <<x[1] + l, x[2]>>]
<1>1. l \in Nat
  BY DEF Messages
<1>2. \A x \in B : x = <<x[1], x[2]>> /\ x[1] \in 1 .. Len(t)
  BY InCarried
<1>3. f \in Bijection(B, D)
  <2>1. f \in Surjection(B, D)
    BY DEF Surjection
  <2>2. \A x, y \in B : f[x] = f[y] => x = y
    BY <1>1, <1>2
  <2> QED
    BY <2>1, <2>2 DEF Bijection, Injection, IsInjective, Surjection
<1>4. IsFiniteSet(A) /\ IsFiniteSet(B)
  BY CarriedFinite
<1>5. IsFiniteSet(D) /\ Cardinality(D) = Cardinality(B)
  BY <1>3, <1>4, FS_Bijection DEF ExistsBijection
<1>6. Carried(s \o t, K) = A \cup D
  <2>1. ASSUME NEW x \in Carried(s \o t, K) PROVE x \in A \cup D
    <3>0. s \o t \in Messages
      BY Joined
    <3>1. PICK i \in 1 .. Len(s \o t) : /\ (s \o t)[i].kind \in K
                                       /\ \E k \in 1 .. (s \o t)[i].n : x = <<i, k>>
      <4>1. \A u \in Messages :
              x \in Carried(u, K) =>
                  \E i \in 1 .. Len(u) : u[i].kind \in K /\ \E k \in 1 .. u[i].n : x = <<i, k>>
        BY InCarried
      <4> QED
        BY <2>1, <3>0, <4>1, Zenon
    <3>2. PICK k \in 1 .. (s \o t)[i].n : x = <<i, k>>
      BY <3>1
    <3>3. CASE i \in 1 .. Len(s)
      <4>1. (s \o t)[i] = s[i]
        BY <3>3, Joined
      <4>2. x \in A
        BY <3>1, <3>2, <3>3, <4>1, InCarried
      <4> QED
        BY <4>2
    <3>4. CASE \E j \in 1 .. Len(t) : i = Len(s) + j
      <4>1. PICK j \in 1 .. Len(t) : i = Len(s) + j
        BY <3>4
      <4>2. (s \o t)[i] = t[j]
        BY <4>1, Joined
      <4>3. <<j, k>> \in B
        BY <3>1, <3>2, <4>2, InCarried
      <4>4. x = <<<<j, k>>[1] + l, <<j, k>>[2]>>
        BY <3>2, <4>1, <1>1
      <4> QED
        BY <4>3, <4>4
    <3> QED
      BY <3>3, <3>4, Joined
  <2>2. ASSUME NEW x \in A PROVE x \in Carried(s \o t, K)
    <3>1. PICK i \in 1 .. Len(s) : s[i].kind \in K /\ \E k \in 1 .. s[i].n : x = <<i, k>>
      BY <2>2, InCarried
    <3>2. (s \o t)[i] = s[i] /\ i \in 1 .. Len(s \o t) /\ s \o t \in Messages
      BY Joined
    <3> QED
      BY <3>1, <3>2, InCarried
  <2>3. ASSUME NEW x \in D PROVE x \in Carried(s \o t, K)
    <3>1. PICK y \in B : x = <<y[1] + l, y[2]>>
      BY <2>3
    <3>2. PICK j \in 1 .. Len(t) : t[j].kind \in K /\ \E k \in 1 .. t[j].n : y = <<j, k>>
      BY <3>1, InCarried
    <3>3. PICK k \in 1 .. t[j].n : y = <<j, k>>
      BY <3>2
    <3>4. x = <<l + j, k>>
      BY <3>1, <3>3, <1>1
    <3>5. (s \o t)[l + j] = t[j] /\ l + j \in 1 .. Len(s \o t)
      BY Joined
    <3> QED
      BY <3>2, <3>4, <3>5, Joined, InCarried
  <2> QED
    BY <2>1, <2>2, <2>3
<1>7. A \cap D = {}
  <2> SUFFICES ASSUME NEW x \in A, x \in D PROVE FALSE
    OBVIOUS
  <2>1. \E i \in 1 .. Len(s) : \E k : x = <<i, k>>
    BY InCarried
  <2>2. PICK y \in B : x = <<y[1] + l, y[2]>>
    OBVIOUS
  <2>3. \E i \in 1 .. Len(s) : i = y[1] + l /\ y[1] \in 1 .. Len(t)
    BY <2>1, <2>2, <1>2
  <2> QED
    BY <2>3, <1>1
<1>8. Cardinality(A \cup D) = Cardinality(A) + Cardinality(D)
  <2>1. Cardinality(A \cup D) = Cardinality(A) + Cardinality(D) - Cardinality(A \cap D)
    BY <1>4, <1>5, FS_Union
  <2>2. Cardinality(A) \in Nat /\ Cardinality(D) \in Nat
    BY <1>4, <1>5, FS_CardinalityType
  <2> HIDE DEF A, D
  <2> QED
    BY <2>1, <2>2, <1>7, FS_EmptySet
<1> QED
  BY <1>5, <1>6, <1>8 DEF Bytes

Weight(m, K) == IF m.kind \in K THEN m.n ELSE 0

LEMMA BytesSingle ==
    ASSUME NEW m \in Message, NEW K
    PROVE  Bytes(<<>>, K) = 0 /\ Bytes(<<m>>, K) = Weight(m, K) /\ Weight(m, K) \in Nat
<1>1. m.n \in Nat
  BY DEF Message
<1>2. <<>> \in Messages /\ <<m>> \in Messages
  BY DEF Messages
<1>3. Carried(<<>>, K) = {}
  BY DEF Carried
<1>4. CASE m.kind \in K
  <2> DEFINE f == [k \in 1 .. m.n |-> <<1, k>>]
  <2>1. \A x : x \in Carried(<<m>>, K) <=> \E k \in 1 .. m.n : x = <<1, k>>
    BY <1>2, <1>4, InCarried
  <2>2. f \in Bijection(1 .. m.n, Carried(<<m>>, K))
    BY <2>1 DEF Bijection, Injection, IsInjective, Surjection
  <2>3. IsFiniteSet(1 .. m.n) /\ Cardinality(1 .. m.n) = m.n
    <3>1. 1 \in Int /\ m.n \in Int
      BY <1>1
    <3>2. Cardinality(1 .. m.n) = IF 1 > m.n THEN 0 ELSE m.n - 1 + 1
      BY <3>1, FS_Interval
    <3>3. IsFiniteSet(1 .. m.n)
      BY <3>1, FS_Interval
    <3> QED
      BY <1>1, <3>2, <3>3
  <2>4. Cardinality(Carried(<<m>>, K)) = m.n
    BY <2>2, <2>3, FS_Bijection DEF ExistsBijection
  <2> QED
    BY <1>1, <1>3, <1>4, <2>4, FS_EmptySet DEF Bytes, Weight
<1>5. CASE m.kind \notin K
  <2>1. Carried(<<m>>, K) = {}
    BY <1>2, <1>5, InCarried
  <2> QED
    BY <1>1, <1>3, <1>5, <2>1, FS_EmptySet DEF Bytes, Weight
<1> QED
  BY <1>4, <1>5

LEMMA BytesAppend ==
    ASSUME NEW s \in Messages, NEW m \in Message, NEW K
    PROVE  Bytes(Append(s, m), K) = Bytes(s, K) + Weight(m, K)
<1>1. Bytes(s \o <<m>>, K) = Bytes(s, K) + Bytes(<<m>>, K)
  BY Appended, BytesJoined
<1> QED
  BY <1>1, Appended, BytesSingle

LEMMA BytesSplit ==
    ASSUME NEW s \in Messages, s # <<>>, NEW K
    PROVE  Bytes(s, K) = Weight(Head(s), K) + Bytes(Tail(s), K)
<1>1. Bytes(<<Head(s)>> \o Tail(s), K) = Bytes(<<Head(s)>>, K) + Bytes(Tail(s), K)
  BY HeadFirst, BytesJoined
<1> QED
  BY <1>1, HeadFirst, BytesSingle

LEMMA BytesNone ==
    ASSUME NEW s \in Messages, NEW K, ~SomeOf(s, K)
    PROVE  Bytes(s, K) = 0
<1>1. Carried(s, K) = {}
  BY InCarried DEF SomeOf
<1> QED
  BY <1>1, FS_EmptySet DEF Bytes

-----------------------------------------------------------------------------
(****************************************************************************)
(* The order of a sequence of messages: one CLOSE, at the end, and no data  *)
(* after end of file.                                                       *)
(****************************************************************************)
Single(s) == \A i, j \in Closes(s) : i = j
ClosesLast(s) == \A i \in Closes(s) : i = Len(s)
EofFollows(s) == \A i, j \in 1 .. Len(s) : s[i].kind = "eof" /\ s[j].kind = "data" => j < i

LEMMA SingleJoined ==
    ASSUME NEW s \in Messages, NEW t \in Messages, Single(s), Single(t),
           ~SomeOf(s, {"close"}) \/ ~SomeOf(t, {"close"})
    PROVE  Single(s \o t)
<1> SUFFICES ASSUME NEW i \in 1 .. Len(s \o t), NEW j \in 1 .. Len(s \o t),
                    (s \o t)[i].kind = "close", (s \o t)[j].kind = "close"
             PROVE  i = j
  BY DEF Single, Closes
<1>1. CASE i \in 1 .. Len(s) /\ j \in 1 .. Len(s)
  <2>1. (s \o t)[i] = s[i] /\ (s \o t)[j] = s[j]
    BY <1>1, Joined
  <2> QED
    BY <1>1, <2>1 DEF Single, Closes
<1>2. CASE i \in 1 .. Len(s) /\ j \notin 1 .. Len(s)
  <2>1. (s \o t)[i] = s[i]
    BY <1>2, Joined
  <2>2. PICK l \in 1 .. Len(t) : j = Len(s) + l
    BY <1>2, Joined
  <2>3. (s \o t)[j] = t[l]
    BY <2>2, Joined
  <2> QED
    BY <1>2, <2>1, <2>2, <2>3 DEF SomeOf
<1>3. CASE i \notin 1 .. Len(s) /\ j \in 1 .. Len(s)
  <2>1. (s \o t)[j] = s[j]
    BY <1>3, Joined
  <2>2. PICK l \in 1 .. Len(t) : i = Len(s) + l
    BY <1>3, Joined
  <2>3. (s \o t)[i] = t[l]
    BY <2>2, Joined
  <2> QED
    BY <1>3, <2>1, <2>2, <2>3 DEF SomeOf
<1>4. CASE i \notin 1 .. Len(s) /\ j \notin 1 .. Len(s)
  <2>1. PICK k \in 1 .. Len(t) : i = Len(s) + k
    BY <1>4, Joined
  <2>2. PICK l \in 1 .. Len(t) : j = Len(s) + l
    BY <1>4, Joined
  <2>3. (s \o t)[i] = t[k] /\ (s \o t)[j] = t[l]
    BY <2>1, <2>2, Joined
  <2>4. k = l
    BY <2>3 DEF Single, Closes
  <2> QED
    BY <2>1, <2>2, <2>4
<1> QED
  BY <1>1, <1>2, <1>3, <1>4

LEMMA SingleOne ==
    ASSUME NEW m
    PROVE  Single(<<>>) /\ Single(<<m>>) /\ ClosesLast(<<>>) /\ ClosesLast(<<m>>)
           /\ EofFollows(<<>>) /\ EofFollows(<<m>>)
<1>1. Len(<<m>>) = 1 /\ Len(<<>>) = 0
  OBVIOUS
<1>2. \A i \in 1 .. Len(<<m>>) : i = 1 /\ <<m>>[i] = m
  BY <1>1
<1>3. EofFollows(<<m>>)
  BY <1>2 DEF EofFollows
<1> QED
  BY <1>1, <1>2, <1>3 DEF Single, Closes, ClosesLast, EofFollows

LEMMA SingleAppend ==
    ASSUME NEW s \in Messages, NEW m \in Message, Single(s),
           m.kind = "close" => ~SomeOf(s, {"close"})
    PROVE  Single(Append(s, m))
<1>1. ~SomeOf(s, {"close"}) \/ ~SomeOf(<<m>>, {"close"})
  BY SomeSingle
<1> QED
  BY <1>1, Appended, SingleJoined, SingleOne

LEMMA SingleTail ==
    ASSUME NEW s \in Messages, s # <<>>, Single(s)
    PROVE  /\ Single(Tail(s))
           /\ Head(s).kind = "close" => ~SomeOf(Tail(s), {"close"})
<1>1. /\ Len(Tail(s)) = Len(s) - 1 /\ Len(s) \in Nat \ {0} /\ Head(s) = s[1]
      /\ \A i \in 1 .. Len(Tail(s)) : Tail(s)[i] = s[i + 1]
  BY HeadTailProperties, EmptySeq DEF Messages
<1>2. \A i \in 1 .. Len(Tail(s)) : i + 1 \in 1 .. Len(s) /\ i + 1 # 1
  BY <1>1
<1>3. Single(Tail(s))
  <2> SUFFICES ASSUME NEW i \in Closes(Tail(s)), NEW j \in Closes(Tail(s)) PROVE i = j
    BY DEF Single
  <2>1. i + 1 \in Closes(s) /\ j + 1 \in Closes(s) /\ i \in Nat /\ j \in Nat
    BY <1>1, <1>2 DEF Closes
  <2>2. i + 1 = j + 1
    BY <2>1 DEF Single
  <2> QED
    BY <2>1, <2>2
<1>4. ASSUME Head(s).kind = "close", NEW i \in 1 .. Len(Tail(s)), Tail(s)[i].kind = "close"
      PROVE  FALSE
  <2>1. 1 \in Closes(s) /\ i + 1 \in Closes(s)
    BY <1>1, <1>2, <1>4 DEF Closes
  <2> QED
    BY <2>1, <1>2 DEF Single
<1> QED
  BY <1>3, <1>4 DEF SomeOf

LEMMA LastJoined ==
    ASSUME NEW s \in Messages, NEW t \in Messages, ~SomeOf(s, {"close"}), ClosesLast(t)
    PROVE  ClosesLast(s \o t)
<1> SUFFICES ASSUME NEW i \in 1 .. Len(s \o t), (s \o t)[i].kind = "close"
             PROVE  i = Len(s \o t)
  BY DEF ClosesLast, Closes
<1>1. i \notin 1 .. Len(s)
  <2> SUFFICES ASSUME i \in 1 .. Len(s) PROVE FALSE
    OBVIOUS
  <2>1. (s \o t)[i] = s[i]
    BY Joined
  <2> QED
    BY <2>1 DEF SomeOf
<1>2. PICK j \in 1 .. Len(t) : i = Len(s) + j
  BY <1>1, Joined
<1>3. (s \o t)[i] = t[j]
  BY <1>2, Joined
<1>4. j = Len(t)
  BY <1>3 DEF ClosesLast, Closes
<1> QED
  BY <1>2, <1>4, Joined

LEMMA LastRest ==
    ASSUME NEW h \in Message, NEW r \in Messages, ClosesLast(<<h>> \o r)
    PROVE  ClosesLast(r) /\ (h.kind = "close" => r = <<>>)
<1>1. <<h>> \in Messages /\ Len(<<h>>) = 1 /\ <<h>>[1] = h /\ Len(r) \in Nat
  BY DEF Messages
<1>2. Len(<<h>> \o r) = 1 + Len(r) /\ (<<h>> \o r)[1] = h
  BY <1>1, Joined
<1>3. \A i \in 1 .. Len(r) : (<<h>> \o r)[1 + i] = r[i] /\ 1 + i \in 1 .. Len(<<h>> \o r)
  BY <1>1, Joined
<1>4. ASSUME NEW i \in Closes(r) PROVE i = Len(r)
  <2>1. i \in 1 .. Len(r) /\ r[i].kind = "close"
    BY DEF Closes
  <2>2. 1 + i \in Closes(<<h>> \o r)
    BY <2>1, <1>3 DEF Closes
  <2>3. 1 + i = 1 + Len(r)
    BY <2>2, <1>2 DEF ClosesLast
  <2> QED
    BY <2>1, <2>3, <1>1
<1>5. ASSUME h.kind = "close" PROVE r = <<>>
  <2>1. 1 \in Closes(<<h>> \o r)
    BY <1>1, <1>2, <1>5 DEF Closes
  <2>2. 1 = 1 + Len(r)
    BY <2>1, <1>2 DEF ClosesLast
  <2>3. Len(r) = 0
    BY <2>2, <1>1
  <2> QED
    BY <2>3, EmptySeq DEF Messages
<1> QED
  BY <1>4, <1>5 DEF ClosesLast

LEMMA EofJoined ==
    ASSUME NEW s \in Messages, NEW t \in Messages, EofFollows(s), EofFollows(t),
           ~SomeOf(s, {"eof"}) \/ ~SomeOf(t, {"data"})
    PROVE  EofFollows(s \o t)
<1> SUFFICES ASSUME NEW i \in 1 .. Len(s \o t), NEW j \in 1 .. Len(s \o t),
                    (s \o t)[i].kind = "eof", (s \o t)[j].kind = "data"
             PROVE  j < i
  BY DEF EofFollows
<1>1. CASE i \in 1 .. Len(s) /\ j \in 1 .. Len(s)
  <2>1. (s \o t)[i] = s[i] /\ (s \o t)[j] = s[j]
    BY <1>1, Joined
  <2> QED
    BY <1>1, <2>1 DEF EofFollows
<1>2. CASE i \in 1 .. Len(s) /\ j \notin 1 .. Len(s)
  <2>1. (s \o t)[i] = s[i]
    BY <1>2, Joined
  <2>2. PICK l \in 1 .. Len(t) : j = Len(s) + l
    BY <1>2, Joined
  <2>3. (s \o t)[j] = t[l]
    BY <2>2, Joined
  <2> QED
    BY <1>2, <2>1, <2>2, <2>3 DEF SomeOf
<1>3. CASE i \notin 1 .. Len(s) /\ j \in 1 .. Len(s)
  BY <1>3, Joined
<1>4. CASE i \notin 1 .. Len(s) /\ j \notin 1 .. Len(s)
  <2>1. PICK k \in 1 .. Len(t) : i = Len(s) + k
    BY <1>4, Joined
  <2>2. PICK l \in 1 .. Len(t) : j = Len(s) + l
    BY <1>4, Joined
  <2>3. (s \o t)[i] = t[k] /\ (s \o t)[j] = t[l]
    BY <2>1, <2>2, Joined
  <2>4. l < k
    BY <2>3 DEF EofFollows
  <2> QED
    BY <2>1, <2>2, <2>4, Joined
<1> QED
  BY <1>1, <1>2, <1>3, <1>4

LEMMA EofRest ==
    ASSUME NEW h \in Message, NEW r \in Messages, EofFollows(<<h>> \o r)
    PROVE  EofFollows(r) /\ (h.kind = "eof" => ~SomeOf(r, {"data"}))
<1>1. <<h>> \in Messages /\ Len(<<h>>) = 1 /\ <<h>>[1] = h /\ Len(r) \in Nat
  BY DEF Messages
<1>2. Len(<<h>> \o r) = 1 + Len(r) /\ (<<h>> \o r)[1] = h
  BY <1>1, Joined
<1>3. \A i \in 1 .. Len(r) : (<<h>> \o r)[1 + i] = r[i] /\ 1 + i \in 1 .. Len(<<h>> \o r)
  BY <1>1, Joined
<1>4. ASSUME NEW i \in 1 .. Len(r), NEW j \in 1 .. Len(r), r[i].kind = "eof", r[j].kind = "data"
      PROVE  j < i
  <2>1. 1 + j < 1 + i
    BY <1>3, <1>4 DEF EofFollows
  <2> QED
    BY <2>1
<1>5. ASSUME h.kind = "eof", NEW j \in 1 .. Len(r), r[j].kind = "data" PROVE FALSE
  <2>1. 1 \in 1 .. Len(<<h>> \o r)
    BY <1>1, <1>2
  <2>2. 1 + j < 1
    BY <2>1, <1>2, <1>3, <1>5 DEF EofFollows
  <2> QED
    BY <2>2
<1> QED
  BY <1>4, <1>5 DEF EofFollows, SomeOf

LEMMA LineMoves ==
    ASSUME NEW w \in Messages, NEW u \in Messages, u # <<>>
    PROVE  Append(w, Head(u)) \o Tail(u) = w \o u
<1>1. Append(w, Head(u)) \o Tail(u) = (w \o <<Head(u)>>) \o Tail(u)
  BY Appended, HeadFirst
<1>2. (w \o <<Head(u)>>) \o Tail(u) = w \o (<<Head(u)>> \o Tail(u))
  BY HeadFirst, ConcatAssociative DEF Messages
<1> QED
  BY <1>1, <1>2, HeadFirst

LEMMA LineRest ==
    ASSUME NEW w \in Messages, NEW u \in Messages, w # <<>>
    PROVE  w \o u = <<Head(w)>> \o (Tail(w) \o u) /\ Tail(w) \o u \in Messages
<1>1. (<<Head(w)>> \o Tail(w)) \o u = <<Head(w)>> \o (Tail(w) \o u)
  BY HeadFirst, ConcatAssociative DEF Messages
<1> QED
  BY <1>1, HeadFirst, Joined

-----------------------------------------------------------------------------
(****************************************************************************)
(* What is on its way from an end: in wire, in transOut and in userOut.     *)
(****************************************************************************)
Silent(e, kinds) ==
    ~SomeOf(wire[e], kinds) /\ ~SomeOf(transOut[e], kinds) /\ ~SomeOf(userOut[e], kinds)

Under(e, kinds) == Bytes(wire[e], kinds) + Bytes(transOut[e], kinds) + Bytes(userOut[e], kinds)

\* The order in which they are sent, while the transport thread has nothing to send.
Line(e) == wire[e] \o userOut[e]

FlagsAgree ==
    \A e \in Ends :
        /\ closed[e] => eofSent[e] /\ bufClosed[e]
        /\ userClosed[e] => closed[e]
        /\ unlinked[e] => closed[e] /\ closed[Other(e)]
        /\ closed[e] /\ ~userClosed[e] => unlinked[e]

\* What is not said yet, or not any more.
NotSaid ==
    \A e \in Ends :
        /\ ~closed[e] \/ unlinked[Other(e)] => Silent(e, {"close"})
        /\ ~eofSent[e] => Silent(e, {"eof"})
        /\ ~closed[Other(e)] => transOut[e] = <<>>

OneClose ==
    \A e \in Ends :
        /\ Single(wire[e]) /\ Single(transOut[e]) /\ Single(userOut[e])
        /\ ~SomeOf(wire[e], {"close"})
             \/ (~SomeOf(transOut[e], {"close"}) /\ ~SomeOf(userOut[e], {"close"}))
        /\ ~SomeOf(transOut[e], {"close"}) \/ ~SomeOf(userOut[e], {"close"})

\* As long as the peer has not closed, CLOSE is the last and end of file the last but one.
InOrder == \A e \in Ends : ~closed[Other(e)] => ClosesLast(Line(e)) /\ EofFollows(Line(e))

\* When the buffers were closed by the peer no data is under way, nor will be.
NoMore ==
    \A e \in Ends :
        bufClosed[e] /\ ~userClosed[e] => eofSent[Other(e)] /\ Silent(Other(e), {"data"})

SeenAll == \A e \in Ends : sawEof[e] /\ ~userClosed[e] => bufClosed[e] /\ buffered[e] = 0

DataCounted ==
    \A e \in Ends :
        ~userClosed[e] => sent[Other(e)] = reads[e] + buffered[e] + Under(Other(e), {"data"})

OnTheWay ==
    \A e \in Ends :
        ~unlinked[Other(e)] =>
            flight[e] = Under(e, {"data", "junk"}) /\ credit[e] = Under(e, {"adjust"})

\* The user's thread does one thing at a time.
OneThing == \A e \in Ends : got[e] > 0 => userOut[e] = <<>> /\ inSend[e] = 0

WireInv ==
    /\ OneThing /\ FlagsAgree /\ NotSaid /\ OneClose /\ InOrder
    /\ NoMore /\ SeenAll /\ DataCounted /\ OnTheWay

LEMMA QueueTypes ==
    ASSUME QueuesOK, NEW e \in Ends
    PROVE  wire[e] \in Messages /\ transOut[e] \in Messages /\ userOut[e] \in Messages
BY DEF QueuesOK, Messages

LEMMA KindsOfMessage ==
    /\ \A n \in Nat : /\ Data(n) \in Message /\ Data(n).kind = "data" /\ Data(n).n = n
                      /\ JunkOf(n) \in Message /\ JunkOf(n).kind = "junk" /\ JunkOf(n).n = n
                      /\ Adjust(n) \in Message /\ Adjust(n).kind = "adjust" /\ Adjust(n).n = n
    /\ Eof \in Message /\ Eof.kind = "eof" /\ Eof.n = 0
    /\ CloseMsg \in Message /\ CloseMsg.kind = "close" /\ CloseMsg.n = 0
BY DEF Data, JunkOf, Adjust, Eof, CloseMsg, Message

LEMMA ClosingIs ==
    ASSUME NEW e \in Ends
    PROVE  /\ ClosingMessages(e) \in Messages
           /\ Single(ClosingMessages(e)) /\ ClosesLast(ClosingMessages(e))
           /\ EofFollows(ClosingMessages(e))
           /\ ~SomeOf(ClosingMessages(e), {"data"})
           /\ \A K : SomeOf(ClosingMessages(e), K) => "eof" \in K \/ "close" \in K
           /\ \A K : Bytes(ClosingMessages(e), K) = 0
<1>1. <<Eof>> \in Messages /\ <<CloseMsg>> \in Messages /\ <<>> \in Messages
  BY KindsOfMessage DEF Messages
<1>2. ClosingMessages(e) = <<Eof>> \o <<CloseMsg>> \/ ClosingMessages(e) = <<CloseMsg>>
  <2>1. <<>> \o <<CloseMsg>> = <<CloseMsg>>
    BY <1>1, Joined
  <2> QED
    BY <2>1 DEF ClosingMessages
<1>3. ~SomeOf(<<Eof>>, {"close"}) /\ ~SomeOf(<<CloseMsg>>, {"data"}) /\ ~SomeOf(<<Eof>>, {"data"})
  BY SomeSingle, KindsOfMessage
<1>4. \A K : SomeOf(<<Eof>>, K) \/ SomeOf(<<CloseMsg>>, K) => "eof" \in K \/ "close" \in K
  BY SomeSingle, KindsOfMessage
<1>5. \A K : Bytes(<<Eof>>, K) = 0 /\ Bytes(<<CloseMsg>>, K) = 0
  BY BytesSingle, KindsOfMessage DEF Weight
<1>6. /\ Single(<<Eof>>) /\ Single(<<CloseMsg>>) /\ ClosesLast(<<CloseMsg>>)
      /\ EofFollows(<<Eof>>) /\ EofFollows(<<CloseMsg>>)
  BY SingleOne
<1>7. CASE ClosingMessages(e) = <<CloseMsg>>
  BY <1>1, <1>3, <1>4, <1>5, <1>6, <1>7
<1>8. CASE ClosingMessages(e) = <<Eof>> \o <<CloseMsg>>
  <2>1. ClosingMessages(e) \in Messages
    BY <1>1, <1>8, Joined
  <2>2. /\ Single(ClosingMessages(e)) /\ ClosesLast(ClosingMessages(e))
        /\ EofFollows(ClosingMessages(e))
    BY <1>1, <1>3, <1>6, <1>8, SingleJoined, LastJoined, EofJoined
  <2>3. \A K : SomeOf(ClosingMessages(e), K) <=> SomeOf(<<Eof>>, K) \/ SomeOf(<<CloseMsg>>, K)
    BY <1>1, <1>8, SomeJoined
  <2>4. \A K : Bytes(ClosingMessages(e), K) = Bytes(<<Eof>>, K) + Bytes(<<CloseMsg>>, K)
    BY <1>1, <1>8, BytesJoined
  <2>5. \A K : Bytes(ClosingMessages(e), K) = 0
    BY <2>4, <1>5
  <2> QED
    BY <2>1, <2>2, <2>3, <2>5, <1>3, <1>4
<1> QED
  BY <1>2, <1>7, <1>8

-----------------------------------------------------------------------------
(****************************************************************************)
(* The steps, by what they do to the queues.                                *)
(****************************************************************************)
Builds(e, ms) ==
    /\ userOut[e] = <<>> /\ userOut' = [userOut EXCEPT ![e] = ms]
    /\ UNCHANGED <<wire, transOut>>

Takes(e) ==
    LET p == Other(e) IN
    /\ transOut[e] = <<>> /\ wire[p] # <<>>
    /\ wire' = [wire EXCEPT ![p] = Tail(@)] /\ UNCHANGED userOut

Handles(e) ==
    Feed(e) \/ FeedExtended(e) \/ WindowAdjust(e) \/ HandleEof(e) \/ HandleClose(e) \/ IgnoreDead(e)

Credits(e) == \E n \in Nat :
    /\ ~closed[e] /\ Builds(e, <<Adjust(n)>>)
    /\ credit' = [credit EXCEPT ![e] = @ + n]
    /\ UNCHANGED <<flight, sent, reads, buffered, sawEof, flags>>

Sends(e) == \E n \in Nat :
    /\ ~closed[e] /\ ~eofSent[e] /\ Builds(e, <<Data(n)>>)
    /\ flight' = [flight EXCEPT ![e] = @ + n] /\ sent' = [sent EXCEPT ![e] = @ + n]
    /\ UNCHANGED <<credit, reads, buffered, sawEof, flags>>

SendsJunk(e) == \E n \in Nat :
    /\ ~closed[e] /\ ~eofSent[e] /\ Builds(e, <<JunkOf(n)>>)
    /\ flight' = [flight EXCEPT ![e] = @ + n]
    /\ UNCHANGED <<credit, sent, reads, buffered, sawEof, flags>>

Reads(e) ==
    /\ buffered[e] > 0
    /\ \E n \in Nat :
         /\ n <= buffered[e]
         /\ buffered' = [buffered EXCEPT ![e] = @ - n] /\ reads' = [reads EXCEPT ![e] = @ + n]
    /\ UNCHANGED <<outs, flight, credit, sent, sawEof, flags>>

SeesEnd(e) ==
    /\ buffered[e] = 0 /\ bufClosed[e]
    /\ sawEof' = [sawEof EXCEPT ![e] = TRUE]
    /\ UNCHANGED <<outs, flight, credit, sent, reads, buffered, flags>>

\* Nothing that WireInv speaks of.
Apart ==
    UNCHANGED <<outs, flight, credit, sent, reads, buffered, sawEof, bufClosed, closed, eofSent,
                unlinked, userClosed>>

LEMMA StepsAre ==
    ASSUME TypeOK, OneThing, NEW e \in Ends, StepOf(e)
    PROVE  \/ Apart \/ Sends(e) \/ SendsJunk(e) \/ Credits(e) \/ Reads(e) \/ SeesEnd(e)
           \/ UserTransmits(e) \/ ShutdownWrite(e) \/ Close(e)
           \/ TransportTransmits(e) \/ Handles(e)
<1>1. CASE Sendall(e) \/ SendRaises(e) \/ ShutdownRead(e)
  BY <1>1 DEF Sendall, SendRaises, ShutdownRead, Apart, window, reading, flags, outs
<1>2. CASE Send(e)
  <2>1. PICK n \in Nat : /\ flight' = [flight EXCEPT ![e] = @ + n]
                        /\ sent' = [sent EXCEPT ![e] = @ + n]
                        /\ userOut' = [userOut EXCEPT ![e] = <<Data(n)>>]
    BY <1>2, SendNumbers DEF TypeOK
  <2>2. /\ ~closed[e] /\ ~eofSent[e] /\ userOut[e] = <<>>
        /\ UNCHANGED <<wire, transOut, credit, reads, buffered, sawEof, flags>>
    BY <1>2 DEF Send, reading
  <2> QED
    BY <2>1, <2>2 DEF Sends, Builds
<1>3. CASE SendJunk(e)
  <2>1. PICK n \in Nat : /\ flight' = [flight EXCEPT ![e] = @ + n]
                        /\ userOut' = [userOut EXCEPT ![e] = <<JunkOf(n)>>]
    BY <1>3, SendJunkNumbers DEF TypeOK
  <2>2. /\ ~closed[e] /\ ~eofSent[e] /\ userOut[e] = <<>>
        /\ UNCHANGED <<wire, transOut, credit, sent, reads, buffered, sawEof, flags>>
    BY <1>3 DEF SendJunk, UserIdle, reading
  <2> QED
    BY <2>1, <2>2 DEF SendsJunk, Builds
<1>4. CASE \E nbytes \in ReadSizes : Recv(e, nbytes)
  <2>1. PICK nbytes \in ReadSizes : Recv(e, nbytes)
    BY <1>4
  <2>2. PICK n \in Nat : /\ n <= buffered[e]
                        /\ buffered' = [buffered EXCEPT ![e] = @ - n]
                        /\ reads' = [reads EXCEPT ![e] = @ + n]
    BY <2>1, RecvNumbers DEF TypeOK
  <2>3. buffered[e] > 0 /\ UNCHANGED <<outs, flight, credit, sent, sawEof, flags>>
    BY <2>1 DEF Recv, window
  <2> QED
    BY <2>2, <2>3 DEF Reads
<1>5. CASE RecvEof(e)
  BY <1>5 DEF RecvEof, SeesEnd, window
<1>6. CASE CheckAddWindow(e)
  <2> DEFINE sum == sofar[e] + got[e]
  <2>1. CASE UNCHANGED <<credit, userOut>>
    BY <1>6, <2>1 DEF CheckAddWindow, Apart, flags, outs
  <2>2. CASE /\ ~closed[e] /\ credit' = [credit EXCEPT ![e] = @ + sum]
             /\ userOut' = [userOut EXCEPT ![e] = <<Adjust(sum)>>]
    <3>1. sum \in Nat
      BY ThresholdType DEF TypeOK, NumbersOK
    <3>2. UNCHANGED <<wire, transOut, flight, sent, reads, buffered, sawEof, flags>>
      BY <1>6 DEF CheckAddWindow
    <3>3. userOut[e] = <<>>
      BY <1>6 DEF CheckAddWindow, OneThing
    <3> QED
      BY <2>2, <3>1, <3>2, <3>3 DEF Credits, Builds
  <2> QED
    BY <1>6, <2>1, <2>2 DEF CheckAddWindow
<1>7. CASE UserTransmits(e) \/ ShutdownWrite(e) \/ Close(e) \/ TransportTransmits(e)
  BY <1>7
<1>8. CASE Feed(e) \/ FeedExtended(e) \/ WindowAdjust(e) \/ HandleEof(e) \/ HandleClose(e)
           \/ IgnoreDead(e)
  BY <1>8 DEF Handles
<1> QED
  BY <1>1, <1>2, <1>3, <1>4, <1>5, <1>6, <1>7, <1>8 DEF StepOf

LEMMA HandlesTakes ==
    ASSUME NEW e \in Ends, Handles(e)
    PROVE  /\ Takes(e)
           /\ \/ UNCHANGED transOut
              \/ /\ HandleClose(e) /\ ~closed[e]
                 /\ transOut' = [transOut EXCEPT ![e] = ClosingMessages(e)]
<1>1. CASE Feed(e)
  BY <1>1 DEF Feed, Arrives, Takes
<1>2. CASE FeedExtended(e)
  BY <1>2 DEF FeedExtended, Arrives, Takes
<1>3. CASE WindowAdjust(e)
  BY <1>3 DEF WindowAdjust, Arrives, Takes
<1>4. CASE HandleEof(e)
  BY <1>4 DEF HandleEof, Arrives, Takes
<1>5. CASE HandleClose(e)
  BY <1>5 DEF HandleClose, Arrives, Takes
<1>6. CASE IgnoreDead(e)
  BY <1>6 DEF IgnoreDead, Arrives, Takes
<1> QED
  BY <1>1, <1>2, <1>3, <1>4, <1>5, <1>6 DEF Handles

\* Where the messages of an end are after a step, each way it can go.
LEMMA UserOutAfter ==
    ASSUME QueuesOK, NEW e \in Ends, UserTransmits(e)
    PROVE  /\ userOut[e] # <<>> /\ Head(userOut[e]) \in Message
           /\ userOut'[e] = Tail(userOut[e]) /\ wire'[e] = Append(wire[e], Head(userOut[e]))
           /\ transOut' = transOut
           /\ \A d \in Ends : d # e => userOut'[d] = userOut[d] /\ wire'[d] = wire[d]
BY HeadFirst, QueueTypes DEF UserTransmits, QueuesOK

LEMMA TransOutAfter ==
    ASSUME QueuesOK, NEW e \in Ends, TransportTransmits(e)
    PROVE  /\ transOut[e] # <<>> /\ Head(transOut[e]) \in Message
           /\ transOut'[e] = Tail(transOut[e]) /\ wire'[e] = Append(wire[e], Head(transOut[e]))
           /\ userOut' = userOut
           /\ \A d \in Ends : d # e => transOut'[d] = transOut[d] /\ wire'[d] = wire[d]
BY HeadFirst, QueueTypes DEF TransportTransmits, QueuesOK

LEMMA WireAfter ==
    ASSUME QueuesOK, NEW e \in Ends, Takes(e), NEW p \in Ends, p = Other(e)
    PROVE  /\ wire[p] # <<>> /\ Head(wire[p]) \in Message /\ Tail(wire[p]) \in Messages
           /\ wire'[p] = Tail(wire[p])
           /\ userOut' = userOut /\ transOut[e] = <<>>
           /\ \A d \in Ends : d # p => wire'[d] = wire[d]
BY HeadFirst, QueueTypes DEF Takes, QueuesOK

LEMMA BuiltAfter ==
    ASSUME QueuesOK, NEW e \in Ends, NEW ms, Builds(e, ms)
    PROVE  /\ userOut[e] = <<>> /\ userOut'[e] = ms /\ wire' = wire /\ transOut' = transOut
           /\ \A d \in Ends : d # e => userOut'[d] = userOut[d]
BY DEF Builds, QueuesOK

LEMMA ClosingAfter ==
    ASSUME QueuesOK, NEW e \in Ends, HandleClose(e), ~closed[e]
    PROVE  /\ transOut'[e] = ClosingMessages(e)
           /\ \A d \in Ends : d # e => transOut'[d] = transOut[d]
BY DEF HandleClose, QueuesOK

LEMMA UserBuilds ==
    ASSUME NEW e \in Ends
    PROVE  /\ ShutdownWrite(e) => Builds(e, <<Eof>>)
           /\ Close(e) => Builds(e, ClosingMessages(e))
BY DEF ShutdownWrite, Close, UserIdle, Builds

\* A message of some kind is under way only if it was built.
LEMMA SilentAfter ==
    ASSUME TypeOK, OneThing, NEW e \in Ends, StepOf(e), NEW d \in Ends, NEW K, Silent(d, K)
    PROVE  \/ Silent(d, K)'
           \/ /\ d = e
              /\ \/ Sends(e) /\ "data" \in K
                 \/ SendsJunk(e) /\ "junk" \in K
                 \/ Credits(e) /\ "adjust" \in K
                 \/ ShutdownWrite(e) /\ "eof" \in K
                 \/ /\ Close(e) \/ (HandleClose(e) /\ ~closed[e])
                    /\ "eof" \in K \/ "close" \in K
<1>0. QueuesOK /\ wire[d] \in Messages /\ transOut[d] \in Messages /\ userOut[d] \in Messages
  BY QueueTypes DEF TypeOK
<1>1. ASSUME UNCHANGED outs PROVE Silent(d, K)'
  BY <1>1 DEF Silent, outs
<1>2. ASSUME NEW ms, Builds(e, ms), SomeOf(ms, K) => d # e PROVE Silent(d, K)'
  BY <1>0, <1>2, BuiltAfter DEF Silent
<1>3. ASSUME NEW m, Builds(e, <<m>>), m.kind \notin K \/ d # e PROVE Silent(d, K)'
  BY <1>2, <1>3, SomeSingle
<1>4. CASE Apart
  BY <1>1, <1>4 DEF Apart
<1>5. CASE Sends(e)
  <2>1. PICK n \in Nat : Builds(e, <<Data(n)>>)
    BY <1>5 DEF Sends
  <2>2. Data(n).kind = "data"
    BY KindsOfMessage
  <2>3. CASE Data(n).kind \notin K \/ d # e
    BY <2>1, <2>3, <1>3
  <2>4. CASE d = e /\ "data" \in K
    BY <2>4, <1>5
  <2> QED
    BY <2>2, <2>3, <2>4
<1>6. CASE SendsJunk(e)
  <2>1. PICK n \in Nat : Builds(e, <<JunkOf(n)>>)
    BY <1>6 DEF SendsJunk
  <2>2. JunkOf(n).kind = "junk"
    BY KindsOfMessage
  <2>3. CASE JunkOf(n).kind \notin K \/ d # e
    BY <2>1, <2>3, <1>3
  <2>4. CASE d = e /\ "junk" \in K
    BY <2>4, <1>6
  <2> QED
    BY <2>2, <2>3, <2>4
<1>7. CASE Credits(e)
  <2>1. PICK n \in Nat : Builds(e, <<Adjust(n)>>)
    BY <1>7 DEF Credits
  <2>2. Adjust(n).kind = "adjust"
    BY KindsOfMessage
  <2>3. CASE Adjust(n).kind \notin K \/ d # e
    BY <2>1, <2>3, <1>3
  <2>4. CASE d = e /\ "adjust" \in K
    BY <2>4, <1>7
  <2> QED
    BY <2>2, <2>3, <2>4
<1>8. CASE ShutdownWrite(e)
  <2>1. Builds(e, <<Eof>>) /\ Eof.kind = "eof"
    BY <1>8, UserBuilds, KindsOfMessage
  <2>2. CASE Eof.kind \notin K \/ d # e
    BY <2>1, <2>2, <1>3
  <2>3. CASE d = e /\ "eof" \in K
    BY <2>3, <1>8
  <2> QED
    BY <2>1, <2>2, <2>3
<1>9. CASE Close(e)
  <2>1. Builds(e, ClosingMessages(e))
    BY <1>9, UserBuilds
  <2>2. SomeOf(ClosingMessages(e), K) => "eof" \in K \/ "close" \in K
    BY ClosingIs
  <2>3. CASE SomeOf(ClosingMessages(e), K) => d # e
    BY <2>1, <2>3, <1>2
  <2>4. CASE d = e /\ ("eof" \in K \/ "close" \in K)
    BY <2>4, <1>9
  <2> QED
    BY <2>2, <2>3, <2>4
<1>10. CASE Reads(e) \/ SeesEnd(e)
  BY <1>1, <1>10 DEF Reads, SeesEnd
<1>11. CASE UserTransmits(e)
  <2>1. CASE d = e
    <3>1. ~SomeOf(userOut'[d], K) /\ ~SomeOf(wire'[d], K)
      <4>1. /\ userOut[d] # <<>> /\ Head(userOut[d]) \in Message
            /\ userOut'[d] = Tail(userOut[d]) /\ wire'[d] = Append(wire[d], Head(userOut[d]))
        BY <1>0, <1>11, <2>1, UserOutAfter
      <4>2. ~SomeOf(userOut[d], K) /\ ~SomeOf(wire[d], K)
        BY DEF Silent
      <4>3. Head(userOut[d]).kind \notin K /\ ~SomeOf(Tail(userOut[d]), K)
        BY <1>0, <4>1, <4>2, SomeSplit
      <4>4. ~SomeOf(Append(wire[d], Head(userOut[d])), K)
        BY <1>0, <4>1, <4>2, <4>3, SomeAppend
      <4> QED
        BY <4>1, <4>3, <4>4
    <3> QED
      BY <1>0, <1>11, <3>1, UserOutAfter DEF Silent
  <2>2. CASE d # e
    BY <1>0, <1>11, <2>2, UserOutAfter DEF Silent
  <2> QED
    BY <2>1, <2>2
<1>12. CASE TransportTransmits(e)
  <2>1. CASE d = e
    <3>1. ~SomeOf(transOut'[d], K) /\ ~SomeOf(wire'[d], K)
      <4>1. /\ transOut[d] # <<>> /\ Head(transOut[d]) \in Message
            /\ transOut'[d] = Tail(transOut[d]) /\ wire'[d] = Append(wire[d], Head(transOut[d]))
        BY <1>0, <1>12, <2>1, TransOutAfter
      <4>2. ~SomeOf(transOut[d], K) /\ ~SomeOf(wire[d], K)
        BY DEF Silent
      <4>3. Head(transOut[d]).kind \notin K /\ ~SomeOf(Tail(transOut[d]), K)
        BY <1>0, <4>1, <4>2, SomeSplit
      <4>4. ~SomeOf(Append(wire[d], Head(transOut[d])), K)
        BY <1>0, <4>1, <4>2, <4>3, SomeAppend
      <4> QED
        BY <4>1, <4>3, <4>4
    <3> QED
      BY <1>0, <1>12, <3>1, TransOutAfter DEF Silent
  <2>2. CASE d # e
    BY <1>0, <1>12, <2>2, TransOutAfter DEF Silent
  <2> QED
    BY <2>1, <2>2
<1>13. CASE Handles(e)
  <2>1. Takes(e)
    BY <1>13, HandlesTakes
  <2>2. ~SomeOf(wire'[d], K)
    <3>1. CASE d = Other(e)
      BY <1>0, <2>1, <3>1, WireAfter, SomeSplit DEF Silent
    <3>2. CASE d # Other(e)
      <4>1. Other(e) \in Ends
        BY EndsFacts
      <4>2. wire'[d] = wire[d]
        BY <1>0, <2>1, <3>2, <4>1, WireAfter
      <4> QED
        BY <4>2 DEF Silent
    <3> QED
      BY <3>1, <3>2
  <2>3. userOut' = userOut
    BY <2>1 DEF Takes
  <2>4. CASE UNCHANGED transOut
    BY <2>2, <2>3, <2>4 DEF Silent
  <2>5. CASE HandleClose(e) /\ ~closed[e]
    <3>1. transOut'[e] = ClosingMessages(e) /\ (d # e => transOut'[d] = transOut[d])
      BY <1>0, <2>5, ClosingAfter
    <3>2. SomeOf(ClosingMessages(e), K) => "eof" \in K \/ "close" \in K
      BY ClosingIs
    <3> QED
      BY <2>2, <2>3, <2>5, <3>1, <3>2 DEF Silent
  <2> QED
    BY <1>13, <2>4, <2>5, HandlesTakes
<1> QED
  BY <1>4, <1>5, <1>6, <1>7, <1>8, <1>9, <1>10, <1>11, <1>12, <1>13, StepsAre

LEMMA BytesEmpty == \A K : Bytes(<<>>, K) = 0
BY BytesSingle, KindsOfMessage

LEMMA UnderType ==
    ASSUME QueuesOK, NEW e \in Ends, NEW K
    PROVE  /\ Under(e, K) \in Nat
           /\ Bytes(wire[e], K) \in Nat /\ Bytes(transOut[e], K) \in Nat
           /\ Bytes(userOut[e], K) \in Nat
BY QueueTypes, CarriedFinite DEF Under

\* The bytes under way after a step.
LEMMA UnderBuilt ==
    ASSUME QueuesOK, NEW e \in Ends, NEW m \in Message, Builds(e, <<m>>), NEW d \in Ends, NEW K
    PROVE  Under(d, K)' = Under(d, K) + IF d = e THEN Weight(m, K) ELSE 0
<1>1. Under(d, K) \in Nat
  BY UnderType
<1>2. CASE d = e
  <2>1. Bytes(userOut'[d], K) = Weight(m, K) /\ Bytes(userOut[d], K) = 0 /\ Weight(m, K) \in Nat
    BY <1>2, BuiltAfter, BytesSingle
  <2>2. wire' = wire /\ transOut' = transOut
    BY BuiltAfter
  <2> QED
    BY <1>2, <2>1, <2>2, UnderType DEF Under
<1>3. CASE d # e
  BY <1>1, <1>3, BuiltAfter DEF Under
<1> QED
  BY <1>2, <1>3

LEMMA UnderMoved ==
    ASSUME QueuesOK, NEW e \in Ends, UserTransmits(e) \/ TransportTransmits(e) \/ Close(e),
           NEW d \in Ends, NEW K
    PROVE  Under(d, K)' = Under(d, K)
<1>0. wire[d] \in Messages /\ transOut[d] \in Messages /\ userOut[d] \in Messages
  BY QueueTypes
<1>1. CASE UserTransmits(e)
  <2>1. CASE d = e
    <3> DEFINE m == Head(userOut[d])
    <3>1. Bytes(userOut[d], K) = Weight(m, K) + Bytes(userOut'[d], K)
      BY <1>0, <1>1, <2>1, UserOutAfter, BytesSplit
    <3>2. Bytes(wire'[d], K) = Bytes(wire[d], K) + Weight(m, K)
      <4>1. m \in Message /\ wire'[d] = Append(wire[d], m)
        BY <1>0, <1>1, <2>1, UserOutAfter
      <4> HIDE DEF m
      <4>2. Bytes(Append(wire[d], m), K) = Bytes(wire[d], K) + Weight(m, K)
        BY <1>0, <4>1, BytesAppend
      <4> QED
        BY <4>1, <4>2
    <3>3. Weight(m, K) \in Nat /\ Bytes(userOut'[d], K) \in Nat
      <4>1. Tail(userOut[d]) \in Messages /\ m \in Message
        BY <1>0, <1>1, <2>1, UserOutAfter, HeadFirst
      <4> QED
        BY <1>1, <2>1, <4>1, UserOutAfter, BytesSingle, CarriedFinite
    <3>4. transOut' = transOut
      BY <1>1, UserOutAfter
    <3>5. Bytes(wire[d], K) \in Nat /\ Bytes(transOut[d], K) \in Nat
      BY UnderType
    <3> HIDE DEF m
    <3> QED
      BY <3>1, <3>2, <3>3, <3>4, <3>5 DEF Under
  <2>2. CASE d # e
    BY <1>1, <2>2, UserOutAfter DEF Under
  <2> QED
    BY <2>1, <2>2
<1>2. CASE TransportTransmits(e)
  <2>1. CASE d = e
    <3> DEFINE m == Head(transOut[d])
    <3>1. Bytes(transOut[d], K) = Weight(m, K) + Bytes(transOut'[d], K)
      BY <1>0, <1>2, <2>1, TransOutAfter, BytesSplit
    <3>2. Bytes(wire'[d], K) = Bytes(wire[d], K) + Weight(m, K)
      <4>1. m \in Message /\ wire'[d] = Append(wire[d], m)
        BY <1>0, <1>2, <2>1, TransOutAfter
      <4> HIDE DEF m
      <4>2. Bytes(Append(wire[d], m), K) = Bytes(wire[d], K) + Weight(m, K)
        BY <1>0, <4>1, BytesAppend
      <4> QED
        BY <4>1, <4>2
    <3>3. Weight(m, K) \in Nat /\ Bytes(transOut'[d], K) \in Nat
      <4>1. Tail(transOut[d]) \in Messages /\ m \in Message
        BY <1>0, <1>2, <2>1, TransOutAfter, HeadFirst
      <4> QED
        BY <1>2, <2>1, <4>1, TransOutAfter, BytesSingle, CarriedFinite
    <3>4. userOut' = userOut
      BY <1>2, TransOutAfter
    <3>5. Bytes(wire[d], K) \in Nat /\ Bytes(userOut[d], K) \in Nat
      BY UnderType
    <3> HIDE DEF m
    <3> QED
      BY <3>1, <3>2, <3>3, <3>4, <3>5 DEF Under
  <2>2. CASE d # e
    BY <1>2, <2>2, TransOutAfter DEF Under
  <2> QED
    BY <2>1, <2>2
<1>3. CASE Close(e)
  <2>1. Builds(e, ClosingMessages(e))
    BY <1>3, UserBuilds
  <2>2. wire' = wire /\ transOut' = transOut
    BY <2>1, BuiltAfter
  <2>3. Bytes(userOut'[d], K) = Bytes(userOut[d], K)
    <3>1. CASE d = e
      <4>0. userOut[d] = <<>>
        BY <2>1, <3>1, BuiltAfter
      <4>1. Bytes(userOut[d], K) = 0
        BY <4>0, BytesEmpty
      <4>2. Bytes(userOut'[d], K) = 0
        BY <2>1, <3>1, BuiltAfter, ClosingIs
      <4> QED
        BY <4>1, <4>2
    <3>2. CASE d # e
      BY <2>1, <3>2, BuiltAfter
    <3> QED
      BY <3>1, <3>2
  <2> QED
    BY <2>2, <2>3 DEF Under
<1> QED
  BY <1>1, <1>2, <1>3

LEMMA UnderTaken ==
    ASSUME QueuesOK, NEW e \in Ends, Handles(e), NEW p \in Ends, p = Other(e), NEW K
    PROVE  /\ Under(e, K)' = Under(e, K)
           /\ Under(p, K) = Weight(Head(wire[p]), K) + Under(p, K)'
           /\ Weight(Head(wire[p]), K) \in Nat /\ Under(p, K)' \in Nat
<1>0. /\ wire[p] \in Messages /\ transOut[p] \in Messages /\ userOut[p] \in Messages
      /\ e # p
  BY QueueTypes, EndsFacts
<1>1. Takes(e)
  BY HandlesTakes
<1>2. /\ wire[p] # <<>> /\ Head(wire[p]) \in Message /\ Tail(wire[p]) \in Messages
      /\ wire'[p] = Tail(wire[p]) /\ wire'[e] = wire[e]
      /\ userOut' = userOut /\ transOut[e] = <<>>
  BY <1>0, <1>1, WireAfter
<1>3. Bytes(transOut'[e], K) = Bytes(transOut[e], K) /\ transOut'[p] = transOut[p]
  <2>1. CASE UNCHANGED transOut
    BY <2>1
  <2>2. CASE HandleClose(e) /\ ~closed[e]
    <3>1. transOut'[e] = ClosingMessages(e) /\ transOut'[p] = transOut[p]
      BY <1>0, <2>2, ClosingAfter
    <3>2. Bytes(ClosingMessages(e), K) = 0 /\ Bytes(<<>>, K) = 0
      BY ClosingIs, BytesSingle, KindsOfMessage
    <3> QED
      BY <1>2, <3>1, <3>2
  <2> QED
    BY <2>1, <2>2, HandlesTakes
<1>4. Under(e, K)' = Under(e, K)
  BY <1>2, <1>3 DEF Under
<1>5. /\ Bytes(wire[p], K) = Weight(Head(wire[p]), K) + Bytes(wire'[p], K)
      /\ Bytes(wire'[p], K) \in Nat /\ Weight(Head(wire[p]), K) \in Nat
  BY <1>0, <1>2, BytesSplit, BytesSingle, CarriedFinite
<1>6. /\ Under(p, K) = Weight(Head(wire[p]), K) + Under(p, K)'
      /\ Under(p, K)' \in Nat
  <2>1. Bytes(transOut[p], K) \in Nat /\ Bytes(userOut[p], K) \in Nat
    BY UnderType
  <2> QED
    BY <1>2, <1>3, <1>5, <2>1 DEF Under
<1> QED
  BY <1>4, <1>5, <1>6

-----------------------------------------------------------------------------
(****************************************************************************)
(* The invariant, part by part.                                             *)
(****************************************************************************)
LEMMA OneThingStep ==
    ASSUME TypeOK, OneThing, NEW e \in Ends, StepOf(e)
    PROVE  OneThing'
<1> SUFFICES ASSUME NEW d \in Ends, got'[d] > 0 PROVE userOut'[d] = <<>> /\ inSend'[d] = 0
  BY DEF OneThing
<1>0. /\ got[d] \in Nat /\ inSend[d] \in Nat /\ got[e] \in Nat
      /\ (got[d] > 0 => userOut[d] = <<>> /\ inSend[d] = 0)
      /\ userOut \in [Ends -> Seq(Message)] /\ inSend \in [Ends -> Nat] /\ got \in [Ends -> Nat]
  BY DEF OneThing, TypeOK, NumbersOK, QueuesOK
<1>1. CASE Sendall(e) \/ SendRaises(e)
  BY <1>0, <1>1 DEF Sendall, SendRaises, UserIdle, reading, outs
<1>2. CASE Send(e)
  <2>1. /\ inSend[e] > 0 /\ got' = got
        /\ \A c \in Ends : c # e => userOut'[c] = userOut[c] /\ inSend'[c] = inSend[c]
    BY <1>0, <1>2 DEF Send, Reserve, reading
  <2>2. d # e
    BY <1>0, <2>1
  <2> QED
    BY <1>0, <2>1, <2>2
<1>3. CASE SendJunk(e)
  <2>1. /\ UserIdle(e) /\ got' = got /\ inSend' = inSend
        /\ \A c \in Ends : c # e => userOut'[c] = userOut[c]
    BY <1>0, <1>3 DEF SendJunk, Reserve, reading
  <2>2. d # e
    BY <1>0, <2>1 DEF UserIdle
  <2> QED
    BY <1>0, <2>1, <2>2
<1>4. CASE \E nbytes \in ReadSizes : Recv(e, nbytes)
  <2>1. /\ UserIdle(e) /\ userOut' = userOut /\ inSend' = inSend
        /\ \A c \in Ends : c # e => got'[c] = got[c]
    BY <1>0, <1>4 DEF Recv, sending, outs
  <2> QED
    BY <1>0, <2>1 DEF UserIdle
<1>5. CASE RecvEof(e)
  BY <1>0, <1>5 DEF RecvEof, sending, outs
<1>6. CASE CheckAddWindow(e)
  <2>1. /\ inSend' = inSend /\ got'[e] = 0
        /\ \A c \in Ends : c # e => got'[c] = got[c] /\ userOut'[c] = userOut[c]
    BY <1>0, <1>6 DEF CheckAddWindow, sending
  <2>2. d # e
    BY <2>1
  <2>3. got'[d] = got[d] /\ userOut'[d] = userOut[d] /\ inSend'[d] = inSend[d]
    BY <2>1, <2>2
  <2> QED
    BY <1>0, <2>3
<1>7. CASE ShutdownWrite(e) \/ ShutdownRead(e) \/ Close(e)
  <2>1. /\ UserIdle(e) /\ got' = got /\ inSend' = inSend
        /\ \A c \in Ends : c # e => userOut'[c] = userOut[c]
    BY <1>0, <1>7 DEF ShutdownWrite, ShutdownRead, Close, reading, sending, outs
  <2> QED
    BY <1>0, <1>7, <2>1 DEF UserIdle, ShutdownRead, outs
<1>8. CASE UserTransmits(e)
  <2>1. /\ userOut[e] # <<>> /\ got' = got /\ inSend' = inSend
        /\ \A c \in Ends : c # e => userOut'[c] = userOut[c]
    BY <1>0, <1>8 DEF UserTransmits, reading, sending
  <2> QED
    BY <1>0, <2>1
<1>9. CASE TransportTransmits(e)
  BY <1>0, <1>9 DEF TransportTransmits, reading, sending
<1>10. CASE \/ Feed(e) \/ FeedExtended(e) \/ WindowAdjust(e) \/ HandleEof(e) \/ HandleClose(e)
            \/ IgnoreDead(e)
  <2>1. got' = got /\ inSend' = inSend /\ userOut' = userOut
    BY <1>10 DEF Feed, FeedExtended, WindowAdjust, HandleEof, HandleClose, IgnoreDead,
       reading, sending
  <2> QED
    BY <1>0, <2>1
<1> QED
  BY <1>1, <1>2, <1>3, <1>4, <1>5, <1>6, <1>7, <1>8, <1>9, <1>10 DEF StepOf

-----------------------------------------------------------------------------
\* The flags change in four of the actions.
Settled == UNCHANGED <<bufClosed, closed, eofSent, unlinked, userClosed>>

LEMMA FlagSteps ==
    ASSUME TypeOK, OneThing, NEW e \in Ends, StepOf(e)
    PROVE  Settled \/ ShutdownWrite(e) \/ Close(e) \/ HandleEof(e) \/ HandleClose(e)
<1>1. CASE Apart \/ Sends(e) \/ SendsJunk(e) \/ Credits(e) \/ Reads(e) \/ SeesEnd(e)
  BY <1>1 DEF Apart, Sends, SendsJunk, Credits, Reads, SeesEnd, flags, Settled
<1>2. CASE UserTransmits(e) \/ TransportTransmits(e)
  BY <1>2 DEF UserTransmits, TransportTransmits, flags, Settled
<1>3. CASE Handles(e)
  BY <1>3 DEF Handles, Feed, FeedExtended, WindowAdjust, IgnoreDead, flags, Settled
<1> QED
  BY <1>1, <1>2, <1>3, StepsAre

LEMMA FlagsGrow ==
    ASSUME TypeOK, OneThing, NEW e \in Ends, StepOf(e), NEW d \in Ends
    PROVE  /\ closed[d] => closed'[d]
           /\ eofSent[d] => eofSent'[d]
           /\ bufClosed[d] => bufClosed'[d]
           /\ unlinked[d] => unlinked'[d]
           /\ userClosed[d] => userClosed'[d]
           /\ unlinked'[d] => unlinked[d] \/ (d = e /\ HandleClose(e))
<1>0. FlagsOK
  BY DEF TypeOK
<1>1. CASE Settled
  BY <1>1 DEF Settled
<1>2. CASE ShutdownWrite(e)
  BY <1>0, <1>2 DEF ShutdownWrite, FlagsOK
<1>3. CASE Close(e)
  BY <1>0, <1>3 DEF Close, CloseInternal, FlagsOK
<1>4. CASE HandleEof(e)
  BY <1>0, <1>4 DEF HandleEof, FlagsOK
<1>5. CASE HandleClose(e)
  BY <1>0, <1>5 DEF HandleClose, CloseInternal, FlagsOK
<1> QED
  BY <1>1, <1>2, <1>3, <1>4, <1>5, FlagSteps

\* CLOSE arrives only from an end that is closed.
LEMMA CloseArrives ==
    ASSUME TypeOK, NotSaid, NEW e \in Ends, HandleClose(e), NEW p \in Ends, p = Other(e)
    PROVE  /\ closed[p] /\ SomeOf(wire[p], {"close"}) /\ ~unlinked[e]
           /\ wire[p] # <<>> /\ Head(wire[p]).kind = "close" /\ transOut[e] = <<>>
<1>1. ~unlinked[e] /\ wire[p] # <<>> /\ Head(wire[p]).kind = "close" /\ transOut[e] = <<>>
  BY DEF HandleClose, Arrives
<1>2. wire[p] \in Messages
  BY QueueTypes DEF TypeOK
<1>3. SomeOf(wire[p], {"close"})
  BY <1>1, <1>2, SomeSplit
<1>4. closed[p]
  BY <1>3 DEF NotSaid, Silent
<1> QED
  BY <1>1, <1>3, <1>4

LEMMA EofArrives ==
    ASSUME TypeOK, NotSaid, NEW e \in Ends, HandleEof(e), NEW p \in Ends, p = Other(e)
    PROVE  /\ eofSent[p] /\ wire[p] # <<>> /\ Head(wire[p]).kind = "eof" /\ ~unlinked[e]
<1>1. ~unlinked[e] /\ wire[p] # <<>> /\ Head(wire[p]).kind = "eof"
  BY DEF HandleEof, Arrives
<1>2. wire[p] \in Messages
  BY QueueTypes DEF TypeOK
<1>3. SomeOf(wire[p], {"eof"})
  BY <1>1, <1>2, SomeSplit
<1>4. eofSent[p]
  BY <1>3 DEF NotSaid, Silent
<1> QED
  BY <1>1, <1>4

LEMMA FlagsAgreeStep ==
    ASSUME TypeOK, OneThing, FlagsAgree, NotSaid, NEW e \in Ends, StepOf(e)
    PROVE  FlagsAgree'
<1>0. /\ FlagsOK /\ Other(e) \in Ends /\ Other(e) # e /\ Other(Other(e)) = e
      /\ \A d \in Ends : d # e => d = Other(e)
  BY EndsFacts DEF TypeOK
<1>1. CASE Settled
  BY <1>1 DEF Settled, FlagsAgree
<1>2. CASE ShutdownWrite(e)
  BY <1>0, <1>2 DEF ShutdownWrite, FlagsOK, FlagsAgree
<1>3. CASE Close(e)
  BY <1>0, <1>3 DEF Close, CloseInternal, FlagsOK, FlagsAgree
<1>4. CASE HandleEof(e)
  BY <1>0, <1>4 DEF HandleEof, FlagsOK, FlagsAgree
<1>5. CASE HandleClose(e)
  <2>1. closed[Other(e)]
    BY <1>0, <1>5, CloseArrives
  <2> QED
    BY <1>0, <1>5, <2>1 DEF HandleClose, CloseInternal, FlagsOK, FlagsAgree
<1> QED
  BY <1>1, <1>2, <1>3, <1>4, <1>5, FlagSteps

LEMMA NotSaidStep ==
    ASSUME TypeOK, OneThing, FlagsAgree, NotSaid, OneClose, NEW e \in Ends, StepOf(e)
    PROVE  NotSaid'
<1> SUFFICES ASSUME NEW d \in Ends
             PROVE  /\ ~closed'[d] \/ unlinked'[Other(d)] => Silent(d, {"close"})'
                    /\ ~eofSent'[d] => Silent(d, {"eof"})'
                    /\ ~closed'[Other(d)] => transOut'[d] = <<>>
  BY DEF NotSaid
<1>0. FlagsOK /\ QueuesOK /\ Other(d) \in Ends /\ Other(d) # d /\ Other(Other(d)) = d
  BY EndsFacts DEF TypeOK
<1>1. ASSUME ShutdownWrite(e) \/ Close(e) \/ (HandleClose(e) /\ ~closed[e])
      PROVE  eofSent'[e]
  BY <1>0, <1>1 DEF ShutdownWrite, Close, HandleClose, CloseInternal, FlagsOK
<1>2. Silent(d, {"eof"}) => Silent(d, {"eof"})' \/ (d = e /\ eofSent'[e])
  BY <1>1, SilentAfter
<1>3. Silent(d, {"close"}) =>
        Silent(d, {"close"})' \/ (d = e /\ ~closed[e] /\ closed'[e])
  <2>1. ASSUME Close(e) \/ (HandleClose(e) /\ ~closed[e]) PROVE closed'[e] /\ ~closed[e]
    BY <1>0, <2>1 DEF Close, HandleClose, CloseInternal, FlagsOK
  <2> QED
    BY <2>1, SilentAfter
<1>4. ~eofSent'[d] => Silent(d, {"eof"})'
  BY <1>2, FlagsGrow DEF NotSaid
<1>5. ~closed'[d] => Silent(d, {"close"})'
  BY <1>3, FlagsGrow DEF NotSaid
<1>6. ASSUME unlinked'[Other(d)] PROVE Silent(d, {"close"})'
  <2>1. CASE unlinked[Other(d)]
    BY <1>0, <1>3, <2>1 DEF NotSaid, FlagsAgree
  <2>2. CASE ~unlinked[Other(d)]
    <3>1. Other(d) = e /\ HandleClose(e)
      BY <1>0, <1>6, <2>2, FlagsGrow
    <3>2. d # e /\ d = Other(e)
      BY <1>0, <3>1
    <3>3. SomeOf(wire[d], {"close"}) /\ wire[d] # <<>> /\ Head(wire[d]).kind = "close"
      BY <3>1, <3>2, CloseArrives
    <3>4. Single(wire[d]) /\ ~SomeOf(transOut[d], {"close"}) /\ ~SomeOf(userOut[d], {"close"})
      BY <3>3 DEF OneClose
    <3>5. ~SomeOf(Tail(wire[d]), {"close"})
      BY <1>0, <3>3, <3>4, QueueTypes, SingleTail
    <3>6. Handles(e)
      BY <3>1 DEF Handles
    <3>7. wire'[d] = Tail(wire[d]) /\ userOut' = userOut
      BY <1>0, <3>2, <3>6, HandlesTakes, WireAfter
    <3>8. transOut'[d] = transOut[d]
      BY <1>0, <3>1, <3>2, ClosingAfter DEF HandleClose
    <3> QED
      BY <3>4, <3>5, <3>7, <3>8 DEF Silent
  <2> QED
    BY <2>1, <2>2
<1>7. ASSUME ~closed'[Other(d)] PROVE transOut'[d] = <<>>
  <2>1. ~closed[Other(d)]
    BY <1>0, <1>7, FlagsGrow
  <2>2. transOut[d] = <<>>
    BY <2>1 DEF NotSaid
  <2>3. CASE TransportTransmits(e)
    BY <1>0, <2>2, <2>3, TransOutAfter
  <2>4. CASE Handles(e)
    <3>1. CASE UNCHANGED transOut
      BY <2>2, <3>1
    <3>2. CASE HandleClose(e) /\ ~closed[e]
      <4>1. d # e
        BY <2>1, <3>2, <1>0, CloseArrives
      <4> QED
        BY <1>0, <2>2, <3>2, <4>1, ClosingAfter
    <3> QED
      BY <2>4, <3>1, <3>2, HandlesTakes
  <2>5. CASE Apart \/ Sends(e) \/ SendsJunk(e) \/ Credits(e) \/ Reads(e) \/ SeesEnd(e)
    BY <2>2, <2>5 DEF Apart, Sends, SendsJunk, Credits, Builds, Reads, SeesEnd, outs
  <2>6. CASE UserTransmits(e) \/ ShutdownWrite(e) \/ Close(e)
    BY <2>2, <2>6 DEF UserTransmits, ShutdownWrite, Close
  <2> QED
    BY <2>3, <2>4, <2>5, <2>6, StepsAre
<1> QED
  BY <1>4, <1>5, <1>6, <1>7

-----------------------------------------------------------------------------
\* One CLOSE among what is on its way, in three sequences.
OneCloseIn(w, t, u) ==
    /\ Single(w) /\ Single(t) /\ Single(u)
    /\ ~SomeOf(w, {"close"}) \/ (~SomeOf(t, {"close"}) /\ ~SomeOf(u, {"close"}))
    /\ ~SomeOf(t, {"close"}) \/ ~SomeOf(u, {"close"})

LEMMA OneCloseIs ==
    OneClose <=> \A d \in Ends : OneCloseIn(wire[d], transOut[d], userOut[d])
BY DEF OneClose, OneCloseIn

LEMMA SingleMoves ==
    ASSUME NEW w \in Messages, NEW u \in Messages, u # <<>>, Single(w), Single(u),
           ~SomeOf(w, {"close"}) \/ ~SomeOf(u, {"close"})
    PROVE  /\ Single(Append(w, Head(u))) /\ Single(Tail(u))
           /\ ~SomeOf(Append(w, Head(u)), {"close"}) \/ ~SomeOf(Tail(u), {"close"})
           /\ SomeOf(Append(w, Head(u)), {"close"}) => SomeOf(w, {"close"}) \/ SomeOf(u, {"close"})
           /\ SomeOf(Tail(u), {"close"}) => SomeOf(u, {"close"})
<1>1. Head(u) \in Message /\ Tail(u) \in Messages
  BY HeadFirst
<1>2. SomeOf(u, {"close"}) <=> Head(u).kind = "close" \/ SomeOf(Tail(u), {"close"})
  BY SomeSplit
<1>3. SomeOf(Append(w, Head(u)), {"close"}) <=> SomeOf(w, {"close"}) \/ Head(u).kind = "close"
  BY <1>1, SomeAppend
<1>4. Single(Tail(u)) /\ (Head(u).kind = "close" => ~SomeOf(Tail(u), {"close"}))
  BY SingleTail
<1>5. Single(Append(w, Head(u)))
  BY <1>1, <1>2, SingleAppend
<1> QED
  BY <1>2, <1>3, <1>4, <1>5

\* A user's thread builds messages only while its end is not closed.
LEMMA BuildsOpen ==
    ASSUME TypeOK, FlagsAgree, NEW e \in Ends,
           Sends(e) \/ SendsJunk(e) \/ Credits(e) \/ ShutdownWrite(e) \/ Close(e)
    PROVE  /\ ~closed[e]
           /\ \E ms \in Messages :
                /\ Builds(e, ms) /\ Single(ms) /\ ClosesLast(ms) /\ EofFollows(ms)
                /\ SomeOf(ms, {"data"}) => ~eofSent[e]
<1>1. ASSUME NEW m \in Message, Builds(e, <<m>>), m.kind # "data" \/ ~eofSent[e]
      PROVE  \E ms \in Messages :
                /\ Builds(e, ms) /\ Single(ms) /\ ClosesLast(ms) /\ EofFollows(ms)
                /\ SomeOf(ms, {"data"}) => ~eofSent[e]
  <2>1. <<m>> \in Messages
    BY DEF Messages
  <2>2. SomeOf(<<m>>, {"data"}) => ~eofSent[e]
    BY <1>1, SomeSingle
  <2> QED
    BY <1>1, <2>1, <2>2, SingleOne
<1>2. CASE Sends(e)
  <2>1. PICK n \in Nat : ~closed[e] /\ ~eofSent[e] /\ Builds(e, <<Data(n)>>)
    BY <1>2 DEF Sends
  <2> QED
    BY <2>1, <1>1, KindsOfMessage
<1>3. CASE SendsJunk(e)
  <2>1. PICK n \in Nat : ~closed[e] /\ ~eofSent[e] /\ Builds(e, <<JunkOf(n)>>)
    BY <1>3 DEF SendsJunk
  <2> QED
    BY <2>1, <1>1, KindsOfMessage
<1>4. CASE Credits(e)
  <2>1. PICK n \in Nat : ~closed[e] /\ Builds(e, <<Adjust(n)>>)
    BY <1>4 DEF Credits
  <2>2. Adjust(n) \in Message /\ Adjust(n).kind # "data"
    BY KindsOfMessage
  <2> QED
    BY <2>1, <2>2, <1>1
<1>5. CASE ShutdownWrite(e)
  <2>1. ~closed[e]
    BY <1>5 DEF ShutdownWrite, FlagsAgree
  <2>2. Eof \in Message /\ Eof.kind # "data" /\ Builds(e, <<Eof>>)
    BY <1>5, KindsOfMessage, UserBuilds
  <2> QED
    BY <2>1, <2>2, <1>1
<1>6. CASE Close(e)
  <2>1. ~closed[e] /\ Builds(e, ClosingMessages(e))
    BY <1>6, UserBuilds DEF Close
  <2> QED
    BY <2>1, ClosingIs
<1> QED
  BY <1>2, <1>3, <1>4, <1>5, <1>6

LEMMA OneCloseStep ==
    ASSUME TypeOK, OneThing, FlagsAgree, NotSaid, OneClose, NEW e \in Ends, StepOf(e)
    PROVE  OneClose'
<1> SUFFICES ASSUME NEW d \in Ends PROVE OneCloseIn(wire'[d], transOut'[d], userOut'[d])
  BY DEF OneClose, OneCloseIn
<1>0. /\ QueuesOK /\ wire[d] \in Messages /\ transOut[d] \in Messages /\ userOut[d] \in Messages
      /\ OneCloseIn(wire[d], transOut[d], userOut[d])
      /\ ~closed[e] /\ d = e => Silent(d, {"close"})
  BY QueueTypes, OneCloseIs DEF TypeOK, NotSaid
<1>1. CASE Apart \/ Reads(e) \/ SeesEnd(e)
  BY <1>0, <1>1 DEF Apart, Reads, SeesEnd, outs
<1>2. CASE Sends(e) \/ SendsJunk(e) \/ Credits(e) \/ ShutdownWrite(e) \/ Close(e)
  <2>1. PICK ms : Builds(e, ms) /\ Single(ms)
    BY <1>2, BuildsOpen
  <2>2. ~closed[e]
    BY <1>2, BuildsOpen
  <2>3. CASE d = e
    <3>1. userOut'[d] = ms /\ wire' = wire /\ transOut' = transOut
      BY <1>0, <2>1, <2>3, BuiltAfter
    <3> QED
      BY <1>0, <2>1, <2>2, <2>3, <3>1 DEF Silent, OneCloseIn
  <2>4. CASE d # e
    BY <1>0, <2>1, <2>4, BuiltAfter
  <2> QED
    BY <2>3, <2>4
<1>3. CASE UserTransmits(e)
  <2>1. CASE d = e
    <3>1. /\ userOut[d] # <<>> /\ userOut'[d] = Tail(userOut[d])
          /\ wire'[d] = Append(wire[d], Head(userOut[d])) /\ transOut' = transOut
      BY <1>0, <1>3, <2>1, UserOutAfter
    <3>2. /\ Single(wire[d]) /\ Single(userOut[d])
          /\ (~SomeOf(wire[d], {"close"}) \/ ~SomeOf(userOut[d], {"close"}))
      BY <1>0 DEF OneCloseIn
    <3>3. LET w == Append(wire[d], Head(userOut[d]))  u == Tail(userOut[d]) IN
          /\ Single(w) /\ Single(u) /\ (~SomeOf(w, {"close"}) \/ ~SomeOf(u, {"close"}))
          /\ SomeOf(w, {"close"}) => SomeOf(wire[d], {"close"}) \/ SomeOf(userOut[d], {"close"})
          /\ SomeOf(u, {"close"}) => SomeOf(userOut[d], {"close"})
      BY <1>0, <3>1, <3>2, SingleMoves
    <3> QED
      BY <1>0, <3>1, <3>3 DEF OneCloseIn
  <2>2. CASE d # e
    BY <1>0, <1>3, <2>2, UserOutAfter
  <2> QED
    BY <2>1, <2>2
<1>4. CASE TransportTransmits(e)
  <2>1. CASE d = e
    <3>1. /\ transOut[d] # <<>> /\ transOut'[d] = Tail(transOut[d])
          /\ wire'[d] = Append(wire[d], Head(transOut[d])) /\ userOut' = userOut
      BY <1>0, <1>4, <2>1, TransOutAfter
    <3>2. /\ Single(wire[d]) /\ Single(transOut[d])
          /\ (~SomeOf(wire[d], {"close"}) \/ ~SomeOf(transOut[d], {"close"}))
      BY <1>0 DEF OneCloseIn
    <3>3. LET w == Append(wire[d], Head(transOut[d]))  u == Tail(transOut[d]) IN
          /\ Single(w) /\ Single(u) /\ (~SomeOf(w, {"close"}) \/ ~SomeOf(u, {"close"}))
          /\ SomeOf(w, {"close"}) => SomeOf(wire[d], {"close"}) \/ SomeOf(transOut[d], {"close"})
          /\ SomeOf(u, {"close"}) => SomeOf(transOut[d], {"close"})
      BY <1>0, <3>1, <3>2, SingleMoves
    <3> QED
      BY <1>0, <3>1, <3>3 DEF OneCloseIn
  <2>2. CASE d # e
    BY <1>0, <1>4, <2>2, TransOutAfter
  <2> QED
    BY <2>1, <2>2
<1>5. CASE Handles(e)
  <2>1. Takes(e) /\ userOut' = userOut
    BY <1>5, HandlesTakes DEF Takes
  <2>2. Single(wire'[d]) /\ (SomeOf(wire'[d], {"close"}) => SomeOf(wire[d], {"close"}))
    <3>1. CASE d = Other(e)
      <4>1. wire[d] # <<>> /\ wire'[d] = Tail(wire[d])
        BY <1>0, <2>1, <3>1, WireAfter
      <4> QED
        BY <1>0, <4>1, SingleTail, SomeSplit DEF OneCloseIn
    <3>2. CASE d # Other(e)
      <4>1. Other(e) \in Ends
        BY EndsFacts
      <4>2. wire'[d] = wire[d]
        BY <1>0, <2>1, <3>2, <4>1, WireAfter
      <4> QED
        BY <1>0, <4>2 DEF OneCloseIn
    <3> QED
      BY <3>1, <3>2
  <2>3. CASE UNCHANGED transOut
    BY <1>0, <2>1, <2>2, <2>3 DEF OneCloseIn
  <2>4. CASE HandleClose(e) /\ ~closed[e]
    <3>1. transOut'[e] = ClosingMessages(e) /\ (d # e => transOut'[d] = transOut[d])
      BY <1>0, <2>4, ClosingAfter
    <3>2. Single(ClosingMessages(e))
      BY ClosingIs
    <3>3. d = e => ~SomeOf(wire[d], {"close"}) /\ ~SomeOf(userOut[d], {"close"})
      BY <1>0, <2>4 DEF Silent
    <3> QED
      BY <1>0, <2>1, <2>2, <3>1, <3>2, <3>3 DEF OneCloseIn
  <2> QED
    BY <1>5, <2>3, <2>4, HandlesTakes
<1> QED
  BY <1>1, <1>2, <1>3, <1>4, <1>5, StepsAre

LEMMA InOrderStep ==
    ASSUME TypeOK, OneThing, FlagsAgree, NotSaid, InOrder, NEW e \in Ends, StepOf(e)
    PROVE  InOrder'
<1> SUFFICES ASSUME NEW d \in Ends, ~closed'[Other(d)]
             PROVE  ClosesLast(wire'[d] \o userOut'[d]) /\ EofFollows(wire'[d] \o userOut'[d])
  BY DEF InOrder, Line
<1>0. /\ QueuesOK /\ wire[d] \in Messages /\ userOut[d] \in Messages
      /\ Other(d) \in Ends /\ Other(d) # d /\ Other(Other(d)) = d
  BY QueueTypes, EndsFacts DEF TypeOK
<1>1. ~closed[Other(d)]
  BY <1>0, FlagsGrow
<1>2. /\ ClosesLast(wire[d] \o userOut[d]) /\ EofFollows(wire[d] \o userOut[d])
      /\ transOut[d] = <<>>
  BY <1>1 DEF InOrder, Line, NotSaid
<1>3. CASE UNCHANGED <<wire, userOut>>
  BY <1>2, <1>3
<1>4. CASE Sends(e) \/ SendsJunk(e) \/ Credits(e) \/ ShutdownWrite(e) \/ Close(e)
  <2>1. PICK ms \in Messages :
           /\ Builds(e, ms) /\ ClosesLast(ms) /\ EofFollows(ms)
           /\ SomeOf(ms, {"data"}) => ~eofSent[e]
    BY <1>4, BuildsOpen
  <2>2. ~closed[e]
    BY <1>4, BuildsOpen
  <2>3. CASE d = e
    <3>1. userOut[d] = <<>> /\ userOut'[d] = ms /\ wire' = wire
      BY <1>0, <2>1, <2>3, BuiltAfter
    <3>2. ~SomeOf(wire[d], {"close"}) /\ (~eofSent[e] => ~SomeOf(wire[d], {"eof"}))
      BY <2>2, <2>3 DEF NotSaid, Silent
    <3>3. wire[d] \o <<>> = wire[d]
      BY <1>0, Joined
    <3>4. EofFollows(wire[d])
      BY <1>2, <3>1, <3>3
    <3>5. ClosesLast(wire[d] \o ms)
      BY <1>0, <2>1, <3>2, LastJoined
    <3>6. EofFollows(wire[d] \o ms)
      BY <1>0, <2>1, <3>2, <3>4, EofJoined
    <3> QED
      BY <3>1, <3>5, <3>6
  <2>4. CASE d # e
    BY <1>0, <1>2, <2>1, <2>4, BuiltAfter
  <2> QED
    BY <2>3, <2>4
<1>5. CASE UserTransmits(e)
  <2>1. CASE d = e
    <3>1. /\ userOut[d] # <<>> /\ userOut'[d] = Tail(userOut[d])
          /\ wire'[d] = Append(wire[d], Head(userOut[d]))
      BY <1>0, <1>5, <2>1, UserOutAfter
    <3>2. Append(wire[d], Head(userOut[d])) \o Tail(userOut[d]) = wire[d] \o userOut[d]
      BY <1>0, <3>1, LineMoves
    <3> QED
      BY <1>2, <3>1, <3>2
  <2>2. CASE d # e
    BY <1>0, <1>2, <1>5, <2>2, UserOutAfter
  <2> QED
    BY <2>1, <2>2
<1>6. CASE TransportTransmits(e)
  <2>1. d # e
    BY <1>0, <1>2, <1>6, TransOutAfter
  <2> QED
    BY <1>0, <1>2, <1>6, <2>1, TransOutAfter
<1>7. CASE Handles(e)
  <2>1. Takes(e) /\ userOut' = userOut
    BY <1>7, HandlesTakes DEF Takes
  <2>2. CASE d = Other(e)
    <3>1. /\ wire[d] # <<>> /\ wire'[d] = Tail(wire[d])
          /\ Head(wire[d]) \in Message
      BY <1>0, <2>1, <2>2, WireAfter
    <3>2. /\ wire[d] \o userOut[d] = <<Head(wire[d])>> \o (Tail(wire[d]) \o userOut[d])
          /\ Tail(wire[d]) \o userOut[d] \in Messages
      BY <1>0, <3>1, LineRest
    <3>3. /\ ClosesLast(<<Head(wire[d])>> \o (Tail(wire[d]) \o userOut[d]))
          /\ EofFollows(<<Head(wire[d])>> \o (Tail(wire[d]) \o userOut[d]))
      BY <1>2, <3>2
    <3>4. ClosesLast(Tail(wire[d]) \o userOut[d]) /\ EofFollows(Tail(wire[d]) \o userOut[d])
      BY <3>1, <3>2, <3>3, LastRest, EofRest
    <3> QED
      BY <2>1, <3>1, <3>4
  <2>3. CASE d # Other(e)
    <3>1. Other(e) \in Ends
      BY EndsFacts
    <3>2. wire'[d] = wire[d]
      BY <1>0, <2>1, <2>3, <3>1, WireAfter
    <3> QED
      BY <1>2, <2>1, <3>2
  <2> QED
    BY <2>2, <2>3
<1>8. CASE Apart \/ Reads(e) \/ SeesEnd(e)
  BY <1>3, <1>8 DEF Apart, Reads, SeesEnd, outs
<1> QED
  BY <1>4, <1>5, <1>6, <1>7, <1>8, StepsAre

-----------------------------------------------------------------------------
\* What the transport thread of e takes when it handles a message.
LEMMA HandledIs ==
    ASSUME TypeOK, NEW e \in Ends, NEW p \in Ends, p = Other(e)
    PROVE  /\ Feed(e) => /\ Head(wire[p]).kind = "data"
                         /\ flight' = [flight EXCEPT ![p] = @ - Head(wire[p]).n]
                         /\ buffered' = [buffered EXCEPT ![e] = @ + Head(wire[p]).n]
                         /\ UNCHANGED <<credit, sent, reads, sawEof, flags>>
           /\ FeedExtended(e) => /\ Head(wire[p]).kind = "junk"
                                 /\ flight' = [flight EXCEPT ![p] = @ - Head(wire[p]).n]
                                 /\ UNCHANGED <<credit, sent, reads, buffered, sawEof, flags>>
           /\ WindowAdjust(e) => /\ Head(wire[p]).kind = "adjust"
                                 /\ credit' = [credit EXCEPT ![p] = @ - Head(wire[p]).n]
                                 /\ UNCHANGED <<flight, sent, reads, buffered, sawEof, flags>>
           /\ HandleEof(e) => /\ Head(wire[p]).kind = "eof"
                              /\ UNCHANGED <<flight, credit, sent, reads, buffered, sawEof>>
           /\ HandleClose(e) => /\ Head(wire[p]).kind = "close"
                                /\ UNCHANGED <<flight, credit, sent, reads, buffered, sawEof>>
           /\ IgnoreDead(e) => unlinked[e] /\ UNCHANGED <<window, reading, flags>>
BY DEF Feed, FeedExtended, WindowAdjust, HandleEof, HandleClose, IgnoreDead, Arrives, Arrived,
       window, reading

LEMMA NoMoreStep ==
    ASSUME TypeOK, OneThing, FlagsAgree, NotSaid, InOrder, NoMore, NEW e \in Ends, StepOf(e)
    PROVE  NoMore'
<1> SUFFICES ASSUME NEW d \in Ends, NEW q \in Ends, q = Other(d), bufClosed'[d], ~userClosed'[d]
             PROVE  eofSent'[q] /\ Silent(q, {"data"})'
  <2>1. \A d \in Ends : Other(d) \in Ends
    BY EndsFacts
  <2> QED
    BY <2>1 DEF NoMore
<1>0. /\ FlagsOK /\ QueuesOK /\ d # q /\ ~userClosed[d]
      /\ wire[q] \in Messages /\ userOut[q] \in Messages
  BY QueueTypes, FlagsGrow, EndsFacts DEF TypeOK
<1>1. CASE bufClosed[d]
  <2>1. eofSent[q] /\ Silent(q, {"data"})
    BY <1>0, <1>1 DEF NoMore
  <2>2. Silent(q, {"data"})' \/ (q = e /\ Sends(e))
    BY <2>1, SilentAfter
  <2>3. Sends(e) => ~eofSent[e]
    BY DEF Sends
  <2> QED
    BY <2>1, <2>2, <2>3, FlagsGrow
<1>2. CASE ~bufClosed[d]
  <2>1. d = e /\ (HandleEof(e) \/ HandleClose(e))
    <3>1. ~Settled
      BY <1>2 DEF Settled
    <3>2. ~ShutdownWrite(e)
      BY <1>2 DEF ShutdownWrite
    <3>3. ~Close(e)
      BY <1>0, <1>2 DEF Close, CloseInternal, FlagsOK
    <3>4. HandleEof(e) \/ HandleClose(e)
      BY <3>1, <3>2, <3>3, FlagSteps
    <3>5. d = e
      BY <1>0, <1>2, <3>4 DEF HandleEof, HandleClose, CloseInternal, FlagsOK
    <3> QED
      BY <3>4, <3>5
  <2>2. ~closed[d] /\ Other(q) = d
    BY <1>2, EndsFacts DEF FlagsAgree
  <2>3. /\ ClosesLast(wire[q] \o userOut[q]) /\ EofFollows(wire[q] \o userOut[q])
        /\ transOut[q] = <<>>
    BY <2>2 DEF InOrder, Line, NotSaid
  <2>4. Handles(e) /\ q = Other(e)
    BY <2>1 DEF Handles
  <2>5. /\ wire[q] # <<>> /\ wire'[q] = Tail(wire[q]) /\ userOut' = userOut
        /\ Head(wire[q]) \in Message
    BY <1>0, <2>4, HandlesTakes, WireAfter
  <2> DEFINE h == Head(wire[q])
             r == Tail(wire[q]) \o userOut[q]
  <2>6. wire[q] \o userOut[q] = <<h>> \o r /\ r \in Messages
    BY <1>0, <2>5, LineRest
  <2>7. transOut'[q] = <<>>
    <3>1. CASE UNCHANGED transOut
      BY <2>3, <3>1
    <3>2. CASE HandleClose(e) /\ ~closed[e]
      BY <1>0, <2>1, <2>3, <3>2, ClosingAfter
    <3> QED
      BY <2>4, <3>1, <3>2, HandlesTakes
  <2>8. ClosesLast(<<h>> \o r) /\ EofFollows(<<h>> \o r)
    BY <2>3, <2>6
  <2>9. eofSent[q] /\ ~SomeOf(r, {"data"})
    <3>1. CASE HandleEof(e)
      <4>1. eofSent[q] /\ h.kind = "eof"
        BY <2>4, <3>1, EofArrives
      <4>2. h \in Message
        BY <2>5
      <4> HIDE DEF h, r
      <4> QED
        BY <2>6, <2>8, <4>1, <4>2, EofRest
    <3>2. CASE HandleClose(e)
      <4>1. closed[q] /\ h.kind = "close"
        BY <2>4, <3>2, CloseArrives
      <4>2. h \in Message
        BY <2>5
      <4>3. eofSent[q]
        BY <4>1 DEF FlagsAgree
      <4> HIDE DEF h, r
      <4>4. r = <<>>
        BY <2>6, <2>8, <4>1, <4>2, LastRest
      <4> QED
        BY <4>3, <4>4, SomeSingle
    <3> QED
      BY <2>1, <3>1, <3>2
  <2>10. ~SomeOf(Tail(wire[q]), {"data"}) /\ ~SomeOf(userOut[q], {"data"})
    <3>1. Tail(wire[q]) \in Messages
      BY <1>0, <2>5, HeadFirst
    <3> QED
      BY <1>0, <2>9, <3>1, SomeJoined
  <2> QED
    <3>1. eofSent'[q]
      BY <2>9, FlagsGrow
    <3>2. ~SomeOf(transOut'[q], {"data"})
      BY <2>7, SomeSingle
    <3> QED
      BY <2>5, <2>10, <3>1, <3>2 DEF Silent
<1> QED
  BY <1>1, <1>2

LEMMA SeenAllStep ==
    ASSUME TypeOK, OneThing, FlagsAgree, NoMore, SeenAll, NEW e \in Ends, StepOf(e)
    PROVE  SeenAll'
<1> SUFFICES ASSUME NEW d \in Ends, sawEof'[d], ~userClosed'[d]
             PROVE  bufClosed'[d] /\ buffered'[d] = 0
  BY DEF SeenAll
<1>0. NumbersOK /\ FlagsOK /\ QueuesOK /\ ~userClosed[d]
  BY FlagsGrow DEF TypeOK
<1>1. CASE SeesEnd(e)
  <2>1. d # e => sawEof[d]
    BY <1>0, <1>1 DEF SeesEnd, FlagsOK
  <2>2. bufClosed[d] /\ buffered[d] = 0
    BY <1>0, <1>1, <2>1 DEF SeesEnd, SeenAll
  <2>3. bufClosed' = bufClosed /\ buffered' = buffered
    BY <1>1 DEF SeesEnd, flags
  <2> QED
    BY <2>2, <2>3
<1>2. ASSUME sawEof' = sawEof PROVE bufClosed'[d] /\ buffered[d] = 0
  BY <1>0, <1>2, FlagsGrow DEF SeenAll
<1>3. CASE Reads(e)
  <2>1. sawEof' = sawEof /\ buffered[e] > 0 /\ \A c \in Ends : c # e => buffered'[c] = buffered[c]
    BY <1>0, <1>3 DEF Reads, NumbersOK
  <2>2. d # e
    BY <1>2, <2>1
  <2> QED
    BY <1>2, <2>1, <2>2
<1>4. CASE Feed(e)
  <2>1. sawEof' = sawEof /\ \A c \in Ends : c # e => buffered'[c] = buffered[c]
    BY <1>0, <1>4 DEF Feed, NumbersOK
  <2>2. d # e
    <3> SUFFICES ASSUME d = e PROVE FALSE
      OBVIOUS
    <3>1. PICK p \in Ends : p = Other(e)
      BY EndsFacts
    <3>2. Head(wire[p]).kind = "data" /\ wire[p] # <<>> /\ wire[p] \in Messages
      BY <1>0, <1>4, <3>1, HandledIs, QueueTypes DEF Feed, Arrives
    <3>3. SomeOf(wire[p], {"data"})
      BY <3>2, SomeSplit
    <3>4. bufClosed[d]
      BY <1>0, <2>1 DEF SeenAll
    <3> QED
      BY <1>0, <3>1, <3>3, <3>4 DEF NoMore, Silent
  <2> QED
    BY <1>2, <2>1, <2>2
<1>5. ASSUME sawEof' = sawEof, buffered' = buffered PROVE bufClosed'[d] /\ buffered'[d] = 0
  BY <1>2, <1>5
<1>6. CASE Apart \/ Sends(e) \/ SendsJunk(e) \/ Credits(e)
  BY <1>5, <1>6 DEF Apart, Sends, SendsJunk, Credits
<1>7. CASE UserTransmits(e) \/ TransportTransmits(e) \/ ShutdownWrite(e) \/ Close(e)
  BY <1>5, <1>7 DEF UserTransmits, TransportTransmits, ShutdownWrite, Close, reading
<1>8. CASE FeedExtended(e) \/ WindowAdjust(e) \/ HandleEof(e) \/ HandleClose(e) \/ IgnoreDead(e)
  BY <1>5, <1>8 DEF FeedExtended, WindowAdjust, HandleEof, HandleClose, IgnoreDead, reading
<1> QED
  BY <1>1, <1>3, <1>4, <1>6, <1>7, <1>8, StepsAre DEF Handles

LEMMA DataCountedStep ==
    ASSUME TypeOK, OneThing, FlagsAgree, NoMore, DataCounted, NEW e \in Ends, StepOf(e)
    PROVE  DataCounted'
<1> DEFINE D == {"data"}
<1> SUFFICES ASSUME NEW d \in Ends, NEW q \in Ends, q = Other(d), ~userClosed'[d]
             PROVE  sent'[q] = reads'[d] + buffered'[d] + Under(q, D)'
  <2>1. \A c \in Ends : Other(c) \in Ends
    BY EndsFacts
  <2> QED
    BY <2>1 DEF DataCounted
<1>0. /\ FlagsOK /\ QueuesOK /\ NumbersOK /\ d # q /\ ~userClosed[d]
      /\ sent[q] \in Nat /\ reads[d] \in Nat /\ buffered[d] \in Nat /\ Under(q, D) \in Nat
      /\ sent[q] = reads[d] + buffered[d] + Under(q, D)
      /\ sent \in [Ends -> Nat] /\ reads \in [Ends -> Nat] /\ buffered \in [Ends -> Nat]
  BY UnderType, FlagsGrow, EndsFacts DEF TypeOK, NumbersOK, DataCounted
<1> HIDE DEF D
<1>1. ASSUME UNCHANGED <<sent, reads, buffered>>, Under(q, D)' = Under(q, D)
      PROVE  sent'[q] = reads'[d] + buffered'[d] + Under(q, D)'
  BY <1>0, <1>1
<1>2. ASSUME UNCHANGED outs PROVE Under(q, D)' = Under(q, D)
  BY <1>2 DEF Under, outs
<1>3. ASSUME NEW m \in Message, m.kind # "data", Builds(e, <<m>>)
      PROVE  Under(q, D)' = Under(q, D)
  <2>1. Weight(m, D) = 0
    BY <1>3 DEF Weight, D
  <2>2. Under(q, D)' = Under(q, D) + IF q = e THEN Weight(m, D) ELSE 0
    BY <1>0, <1>3, UnderBuilt
  <2> QED
    BY <1>0, <2>1, <2>2
<1>4. CASE Apart
  BY <1>1, <1>2, <1>4 DEF Apart
<1>5. CASE Sends(e)
  <2>1. PICK n \in Nat : Builds(e, <<Data(n)>>) /\ sent' = [sent EXCEPT ![e] = @ + n]
    BY <1>5 DEF Sends
  <2>2. Data(n) \in Message /\ Weight(Data(n), D) = n
    BY KindsOfMessage DEF Weight, D
  <2>3. Under(q, D)' = Under(q, D) + IF q = e THEN n ELSE 0
    BY <1>0, <2>1, <2>2, UnderBuilt
  <2>4. reads' = reads /\ buffered' = buffered
    BY <1>5 DEF Sends
  <2>5. sent'[q] = sent[q] + IF q = e THEN n ELSE 0
    BY <1>0, <2>1
  <2> QED
    BY <1>0, <2>3, <2>4, <2>5
<1>6. CASE SendsJunk(e)
  <2>1. PICK n \in Nat : Builds(e, <<JunkOf(n)>>) /\ UNCHANGED <<sent, reads, buffered>>
    BY <1>6 DEF SendsJunk
  <2>2. JunkOf(n) \in Message /\ JunkOf(n).kind # "data"
    BY KindsOfMessage
  <2> QED
    BY <2>1, <2>2, <1>1, <1>3
<1>7. CASE Credits(e)
  <2>1. PICK n \in Nat : Builds(e, <<Adjust(n)>>) /\ UNCHANGED <<sent, reads, buffered>>
    BY <1>7 DEF Credits
  <2>2. Adjust(n) \in Message /\ Adjust(n).kind # "data"
    BY KindsOfMessage
  <2> QED
    BY <2>1, <2>2, <1>1, <1>3
<1>8. CASE ShutdownWrite(e)
  <2>1. Builds(e, <<Eof>>) /\ Eof \in Message /\ Eof.kind # "data"
    BY <1>8, UserBuilds, KindsOfMessage
  <2>2. UNCHANGED <<sent, reads, buffered>>
    BY <1>8 DEF ShutdownWrite, window, reading
  <2> QED
    BY <2>1, <2>2, <1>1, <1>3
<1>9. CASE Reads(e)
  <2>1. PICK n \in Nat : /\ n <= buffered[e]
                        /\ buffered' = [buffered EXCEPT ![e] = @ - n]
                        /\ reads' = [reads EXCEPT ![e] = @ + n]
    BY <1>9 DEF Reads
  <2>2. Under(q, D)' = Under(q, D) /\ sent' = sent
    BY <1>2, <1>9 DEF Reads
  <2>3. reads'[d] + buffered'[d] = reads[d] + buffered[d]
    BY <1>0, <2>1
  <2> QED
    BY <1>0, <2>2, <2>3
<1>10. CASE SeesEnd(e)
  BY <1>1, <1>2, <1>10 DEF SeesEnd
<1>11. CASE UserTransmits(e) \/ TransportTransmits(e) \/ Close(e)
  <2>1. Under(q, D)' = Under(q, D)
    BY <1>0, <1>11, UnderMoved
  <2>2. UNCHANGED <<sent, reads, buffered>>
    BY <1>11 DEF UserTransmits, TransportTransmits, Close, window, reading
  <2> QED
    BY <1>1, <2>1, <2>2
<1>12. CASE Handles(e)
  <2>1. CASE q = e
    <3>1. Under(q, D)' = Under(q, D)
      <4>1. PICK p \in Ends : p = Other(e)
        BY EndsFacts
      <4> QED
        BY <1>0, <1>12, <2>1, <4>1, UnderTaken
    <3>2. sent' = sent /\ reads' = reads /\ \A c \in Ends : c # e => buffered'[c] = buffered[c]
      BY <1>0, <1>12
         DEF Handles, Feed, FeedExtended, WindowAdjust, HandleEof, HandleClose, IgnoreDead,
             window, reading
    <3> QED
      BY <1>0, <2>1, <3>1, <3>2
  <2>2. CASE d = e
    <3> DEFINE h == Head(wire[q])
    <3>1. /\ Under(q, D) = Weight(h, D) + Under(q, D)'
          /\ Weight(h, D) \in Nat /\ Under(q, D)' \in Nat
      BY <1>0, <1>12, <2>2, UnderTaken
    <3>2. CASE Feed(e)
      <4>1. h.kind = "data" /\ sent' = sent /\ reads' = reads
            /\ buffered' = [buffered EXCEPT ![e] = @ + h.n]
        BY <2>2, <3>2, HandledIs
      <4>2. Weight(h, D) = h.n
        BY <4>1 DEF Weight, D
      <4>3. buffered'[d] = buffered[d] + h.n
        BY <1>0, <2>2, <4>1
      <4> HIDE DEF h
      <4> QED
        BY <1>0, <3>1, <4>1, <4>2, <4>3
    <3>3. CASE FeedExtended(e) \/ WindowAdjust(e) \/ HandleEof(e) \/ HandleClose(e)
      <4>1. h.kind # "data" /\ UNCHANGED <<sent, reads, buffered>>
        BY <2>2, <3>3, HandledIs
      <4>2. Weight(h, D) = 0
        BY <4>1 DEF Weight, D
      <4> HIDE DEF h
      <4> QED
        BY <1>0, <1>1, <3>1, <4>1, <4>2
    <3>4. CASE IgnoreDead(e)
      <4>1. unlinked[e] /\ UNCHANGED <<sent, reads, buffered>>
        BY <3>4 DEF IgnoreDead, window, reading
      <4>2. bufClosed[d]
        BY <2>2, <4>1 DEF FlagsAgree
      <4>3. ~SomeOf(wire[q], D)
        BY <1>0, <4>2 DEF NoMore, Silent, D
      <4>4. wire[q] # <<>> /\ wire[q] \in Messages
        BY <1>0, <2>2, <3>4, QueueTypes DEF IgnoreDead, Arrives
      <4>5. h.kind \notin D
        BY <4>3, <4>4, SomeSplit
      <4>6. Weight(h, D) = 0
        BY <4>5 DEF Weight
      <4> HIDE DEF h
      <4> QED
        BY <1>0, <1>1, <3>1, <4>1, <4>6
    <3> QED
      BY <1>12, <3>2, <3>3, <3>4 DEF Handles
  <2> QED
    BY <1>0, <2>1, <2>2, EndsFacts
<1> QED
  BY <1>4, <1>5, <1>6, <1>7, <1>8, <1>9, <1>10, <1>11, <1>12, StepsAre

LEMMA OnTheWayStep ==
    ASSUME TypeOK, OneThing, OnTheWay, NEW e \in Ends, StepOf(e)
    PROVE  OnTheWay'
<1> DEFINE F == {"data", "junk"}
           C == {"adjust"}
           Kept(d) == flight'[d] = Under(d, F)' /\ credit'[d] = Under(d, C)'
<1> SUFFICES ASSUME NEW d \in Ends, NEW q \in Ends, q = Other(d), ~unlinked'[q] PROVE Kept(d)
  <2>1. \A c \in Ends : Other(c) \in Ends
    BY EndsFacts
  <2> QED
    BY <2>1 DEF OnTheWay
<1>0. /\ QueuesOK /\ flight \in [Ends -> Int] /\ credit \in [Ends -> Int]
      /\ d # q /\ d = Other(q) /\ ~unlinked[q]
      /\ Under(d, F) \in Nat /\ Under(d, C) \in Nat
      /\ flight[d] = Under(d, F) /\ credit[d] = Under(d, C)
  BY UnderType, FlagsGrow, EndsFacts DEF TypeOK, NumbersOK, OnTheWay
<1> HIDE DEF F, C
<1>1. ASSUME UNCHANGED <<flight, credit>>, \A K : Under(d, K)' = Under(d, K) PROVE Kept(d)
  BY <1>0, <1>1
<1>2. ASSUME UNCHANGED outs PROVE \A K : Under(d, K)' = Under(d, K)
  BY <1>2 DEF Under, outs
<1>3. ASSUME NEW m \in Message, Builds(e, <<m>>)
      PROVE  /\ Under(d, F)' = Under(d, F) + IF d = e THEN Weight(m, F) ELSE 0
             /\ Under(d, C)' = Under(d, C) + IF d = e THEN Weight(m, C) ELSE 0
  BY <1>0, <1>3, UnderBuilt
<1>4. CASE Apart
  BY <1>1, <1>2, <1>4 DEF Apart
<1>5. CASE Sends(e) \/ SendsJunk(e)
  <2>1. PICK n \in Nat : /\ flight' = [flight EXCEPT ![e] = @ + n] /\ credit' = credit
                        /\ (Builds(e, <<Data(n)>>) \/ Builds(e, <<JunkOf(n)>>))
    BY <1>5 DEF Sends, SendsJunk
  <2>2. PICK m \in Message : Builds(e, <<m>>) /\ m.kind \in {"data", "junk"} /\ m.n = n
    BY <2>1, KindsOfMessage
  <2>3. Weight(m, F) = n /\ Weight(m, C) = 0
    BY <2>2 DEF Weight, F, C
  <2>4. flight'[d] = flight[d] + IF d = e THEN n ELSE 0
    BY <1>0, <2>1
  <2>5. /\ Under(d, F)' = Under(d, F) + IF d = e THEN n ELSE 0
        /\ Under(d, C)' = Under(d, C)
    BY <1>0, <1>3, <2>2, <2>3
  <2> QED
    BY <1>0, <2>1, <2>4, <2>5
<1>6. CASE Credits(e)
  <2>1. PICK n \in Nat : /\ credit' = [credit EXCEPT ![e] = @ + n] /\ flight' = flight
                        /\ Builds(e, <<Adjust(n)>>)
    BY <1>6 DEF Credits
  <2>2. Adjust(n) \in Message /\ Weight(Adjust(n), F) = 0 /\ Weight(Adjust(n), C) = n
    BY KindsOfMessage DEF Weight, F, C
  <2>3. credit'[d] = credit[d] + IF d = e THEN n ELSE 0
    BY <1>0, <2>1
  <2> QED
    BY <1>0, <1>3, <2>1, <2>2, <2>3
<1>7. CASE ShutdownWrite(e)
  <2>1. Builds(e, <<Eof>>) /\ Eof \in Message /\ Weight(Eof, F) = 0 /\ Weight(Eof, C) = 0
    BY <1>7, UserBuilds, KindsOfMessage DEF Weight, F, C
  <2>2. UNCHANGED <<flight, credit>>
    BY <1>7 DEF ShutdownWrite, window
  <2> QED
    BY <1>0, <1>3, <2>1, <2>2
<1>8. CASE Reads(e) \/ SeesEnd(e)
  BY <1>1, <1>2, <1>8 DEF Reads, SeesEnd
<1>9. CASE UserTransmits(e) \/ TransportTransmits(e) \/ Close(e)
  <2>1. \A K : Under(d, K)' = Under(d, K)
    BY <1>0, <1>9, UnderMoved
  <2>2. UNCHANGED <<flight, credit>>
    BY <1>9 DEF UserTransmits, TransportTransmits, Close, window
  <2> QED
    BY <1>1, <2>1, <2>2
<1>10. CASE Handles(e)
  <2>1. CASE d = e
    <3>1. \A K : Under(d, K)' = Under(d, K)
      BY <1>0, <1>10, <2>1, UnderTaken
    <3>2. flight'[d] = flight[d] /\ credit'[d] = credit[d]
      BY <1>0, <1>10, <2>1
         DEF Handles, Feed, FeedExtended, WindowAdjust, HandleEof, HandleClose, IgnoreDead, window
    <3> QED
      BY <1>0, <3>1, <3>2
  <2>2. CASE q = e
    <3> DEFINE h == Head(wire[d])
    <3>1. /\ Under(d, F) = Weight(h, F) + Under(d, F)'
          /\ Weight(h, F) \in Nat /\ Under(d, F)' \in Nat
          /\ Under(d, C) = Weight(h, C) + Under(d, C)'
          /\ Weight(h, C) \in Nat /\ Under(d, C)' \in Nat
      BY <1>0, <1>10, <2>2, UnderTaken
    <3>2. CASE Feed(e) \/ FeedExtended(e)
      <4>1. /\ h.kind \in {"data", "junk"} /\ credit' = credit
            /\ flight' = [flight EXCEPT ![d] = @ - h.n]
        BY <1>0, <2>2, <3>2, HandledIs
      <4>2. Weight(h, F) = h.n /\ Weight(h, C) = 0
        BY <4>1 DEF Weight, F, C
      <4>3. flight'[d] = flight[d] - h.n
        BY <1>0, <4>1
      <4> HIDE DEF h
      <4> QED
        BY <1>0, <3>1, <4>1, <4>2, <4>3
    <3>3. CASE WindowAdjust(e)
      <4>1. /\ h.kind = "adjust" /\ flight' = flight
            /\ credit' = [credit EXCEPT ![d] = @ - h.n]
        BY <1>0, <2>2, <3>3, HandledIs
      <4>2. Weight(h, C) = h.n /\ Weight(h, F) = 0
        BY <4>1 DEF Weight, F, C
      <4>3. credit'[d] = credit[d] - h.n
        BY <1>0, <4>1
      <4> HIDE DEF h
      <4> QED
        BY <1>0, <3>1, <4>1, <4>2, <4>3
    <3>4. CASE HandleEof(e)
      <4>1. h.kind = "eof" /\ UNCHANGED <<flight, credit>>
        BY <1>0, <2>2, <3>4, HandledIs
      <4>2. Weight(h, C) = 0 /\ Weight(h, F) = 0
        BY <4>1 DEF Weight, F, C
      <4> HIDE DEF h
      <4> QED
        BY <1>0, <3>1, <4>1, <4>2
    <3>5. ~HandleClose(e)
      BY <2>2 DEF HandleClose, TypeOK, FlagsOK
    <3>6. ~IgnoreDead(e)
      BY <1>0, <2>2 DEF IgnoreDead
    <3> QED
      BY <1>10, <3>2, <3>3, <3>4, <3>5, <3>6 DEF Handles
  <2> QED
    BY <1>0, <2>1, <2>2, EndsFacts
<1> QED
  BY <1>4, <1>5, <1>6, <1>7, <1>8, <1>9, <1>10, StepsAre

-----------------------------------------------------------------------------
LEMMA WireInit == Init => WireInv
<1> SUFFICES ASSUME Init PROVE WireInv
  OBVIOUS
<1>1. \A e \in Ends :
        /\ wire[e] = <<>> /\ transOut[e] = <<>> /\ userOut[e] = <<>>
        /\ ~closed[e] /\ ~eofSent[e] /\ ~bufClosed[e]
        /\ ~unlinked[e] /\ ~userClosed[e] /\ ~sawEof[e]
        /\ got[e] = 0 /\ flight[e] = 0 /\ credit[e] = 0 /\ sent[e] = 0 /\ reads[e] = 0
        /\ buffered[e] = 0
  BY DEF Init
<1>2. \A e \in Ends : Other(e) \in Ends
  BY EndsFacts
<1>3. \A e \in Ends : \A K : Silent(e, K) /\ Under(e, K) = 0
  <2>1. \A K : ~SomeOf(<<>>, K) /\ Bytes(<<>>, K) = 0
    BY SomeSingle, BytesEmpty
  <2> QED
    BY <1>1, <2>1 DEF Silent, Under
<1>4. \A e \in Ends : Line(e) = <<>>
  <2>1. <<>> \o <<>> = <<>>
    OBVIOUS
  <2> QED
    BY <1>1, <2>1 DEF Line
<1>5. Single(<<>>) /\ ClosesLast(<<>>) /\ EofFollows(<<>>) /\ ~SomeOf(<<>>, {"close"})
  BY SingleOne, SomeSingle
<1>6. OneThing /\ FlagsAgree /\ NoMore /\ SeenAll
  BY <1>1, <1>2 DEF OneThing, FlagsAgree, NoMore, SeenAll
<1>7. NotSaid /\ OneClose /\ InOrder
  BY <1>1, <1>2, <1>3, <1>4, <1>5 DEF NotSaid, OneClose, InOrder
<1>8. DataCounted /\ OnTheWay
  BY <1>1, <1>2, <1>3 DEF DataCounted, OnTheWay
<1> QED
  BY <1>6, <1>7, <1>8 DEF WireInv

LEMMA WireStep == TypeOK /\ WireInv /\ [Next]_vars => WireInv'
<1> SUFFICES ASSUME TypeOK, WireInv, [Next]_vars PROVE WireInv'
  OBVIOUS
<1>0. /\ OneThing /\ FlagsAgree /\ NotSaid /\ OneClose /\ InOrder
      /\ NoMore /\ SeenAll /\ DataCounted /\ OnTheWay
  BY DEF WireInv
<1>1. CASE UNCHANGED vars
  BY <1>0, <1>1 DEF WireInv, OneThing, FlagsAgree, NotSaid, OneClose, InOrder, NoMore, SeenAll,
     DataCounted, OnTheWay, Silent, Under, Line, vars, window, reading, flags, sending, outs
<1>2. CASE Next
  <2>1. PICK e \in Ends : StepOf(e)
    BY <1>2, NextIsStep
  <2>2. OneThing' /\ FlagsAgree' /\ NotSaid'
    BY <1>0, <2>1, OneThingStep, FlagsAgreeStep, NotSaidStep
  <2>3. OneClose' /\ InOrder'
    BY <1>0, <2>1, OneCloseStep, InOrderStep
  <2>4. NoMore' /\ SeenAll'
    BY <1>0, <2>1, NoMoreStep, SeenAllStep
  <2>5. DataCounted' /\ OnTheWay'
    BY <1>0, <2>1, DataCountedStep, OnTheWayStep
  <2> QED
    BY <2>2, <2>3, <2>4, <2>5 DEF WireInv
<1> QED
  BY <1>1, <1>2

LEMMA StreamIs ==
    ASSUME QueuesOK, NEW e \in Ends
    PROVE  /\ Stream(e) \in Messages
           /\ \A K : Bytes(Stream(e), K) = Under(e, K)
           /\ \A K : SomeOf(Stream(e), K) =>
                  SomeOf(wire[e], K) \/ SomeOf(transOut[e], K) \/ SomeOf(userOut[e], K)
           /\ OneCloseIn(wire[e], transOut[e], userOut[e]) => Single(Stream(e))
           /\ transOut[e] = <<>> => Stream(e) = Line(e)
<1> DEFINE w == wire[e]
           t == transOut[e]
           u == userOut[e]
<1>1. w \in Messages /\ t \in Messages /\ u \in Messages /\ Stream(e) = (w \o t) \o u
  BY QueueTypes DEF Stream
<1> HIDE DEF w, t, u
<1>2. w \o t \in Messages /\ w \o <<>> = w
  BY <1>1, Joined
<1>3. (w \o t) \o u \in Messages
  BY <1>1, <1>2, Joined
<1>4. ASSUME NEW K PROVE Bytes((w \o t) \o u, K) = Bytes(w, K) + Bytes(t, K) + Bytes(u, K)
  <2>1. Bytes(w \o t, K) = Bytes(w, K) + Bytes(t, K)
    BY <1>1, BytesJoined
  <2>2. Bytes((w \o t) \o u, K) = Bytes(w \o t, K) + Bytes(u, K)
    BY <1>1, <1>2, BytesJoined
  <2> QED
    BY <2>1, <2>2
<1>5. ASSUME NEW K, SomeOf((w \o t) \o u, K) PROVE SomeOf(w, K) \/ SomeOf(t, K) \/ SomeOf(u, K)
  <2>1. SomeOf(w \o t, K) \/ SomeOf(u, K)
    BY <1>1, <1>2, <1>5, SomeJoined
  <2>2. SomeOf(w \o t, K) => SomeOf(w, K) \/ SomeOf(t, K)
    BY <1>1, SomeJoined
  <2> QED
    BY <2>1, <2>2
<1>6. ASSUME OneCloseIn(w, t, u) PROVE Single((w \o t) \o u)
  <2>1. Single(w \o t)
    BY <1>1, <1>6, SingleJoined DEF OneCloseIn
  <2>2. SomeOf(w \o t, {"close"}) => SomeOf(w, {"close"}) \/ SomeOf(t, {"close"})
    BY <1>1, SomeJoined
  <2>3. Single(u) /\ (~SomeOf(w \o t, {"close"}) \/ ~SomeOf(u, {"close"}))
    BY <1>6, <2>2 DEF OneCloseIn
  <2> QED
    BY <1>1, <1>2, <2>1, <2>3, SingleJoined
<1>7. t = <<>> => (w \o t) \o u = w \o u
  BY <1>2
<1> QED
  BY <1>1, <1>3, <1>4, <1>5, <1>6, <1>7 DEF Under, Line, w, t, u

LEMMA WireInvSuffices == TypeOK /\ WindowConserved /\ WireInv => WireSound
<1> SUFFICES ASSUME TypeOK, WindowConserved, WireInv PROVE WireSound
  OBVIOUS
<1>0. QueuesOK /\ NumbersOK /\ \A e \in Ends : Other(e) \in Ends /\ Other(Other(e)) = e
  BY EndsFacts DEF TypeOK
<1>1. WireConserved
  <2> SUFFICES ASSUME NEW e \in Ends, NEW p \in Ends, p = Other(e), ~unlinked[e], ~unlinked[p]
               PROVE  outWindow[e] + Bytes(Stream(e), {"data", "junk"}) + buffered[p] + got[p]
                        + sofar[p] + Bytes(Stream(p), {"adjust"}) + lost[p] = Window
    BY <1>0 DEF WireConserved
  <2>1. Other(p) = e
    BY <1>0
  <2>2. Bytes(Stream(e), {"data", "junk"}) = flight[e] /\ Bytes(Stream(p), {"adjust"}) = credit[p]
    BY <1>0, <2>1, StreamIs DEF WireInv, OnTheWay
  <2>3. outWindow[e] + flight[e] + buffered[p] + got[p] + sofar[p] + credit[p] + lost[p] = Window
    BY DEF WindowConserved
  <2> QED
    BY <2>2, <2>3
<1>2. EofMeansAll
  <2> SUFFICES ASSUME NEW e \in Ends, NEW p \in Ends, p = Other(e), sawEof[e], ~userClosed[e]
               PROVE  reads[e] = sent[p]
    BY <1>0 DEF EofMeansAll
  <2>1. bufClosed[e] /\ buffered[e] = 0
    BY DEF WireInv, SeenAll
  <2>2. Silent(p, {"data"})
    BY <2>1 DEF WireInv, NoMore
  <2>3. Under(p, {"data"}) = 0
    <3>1. /\ Bytes(wire[p], {"data"}) = 0 /\ Bytes(transOut[p], {"data"}) = 0
          /\ Bytes(userOut[p], {"data"}) = 0
      BY <1>0, <2>2, QueueTypes, BytesNone DEF Silent
    <3> QED
      BY <3>1 DEF Under
  <2>4. sent[p] = reads[e] + buffered[e] + Under(p, {"data"}) /\ reads[e] \in Nat
    BY <1>0 DEF WireInv, DataCounted, NumbersOK
  <2> QED
    BY <2>1, <2>3, <2>4
<1>3. CloseIsLast
  <2> SUFFICES ASSUME NEW e \in Ends, ~closed[Other(e)] PROVE ClosesLast(Stream(e))
    BY DEF CloseIsLast, ClosesLast
  <2>1. transOut[e] = <<>> /\ ClosesLast(Line(e))
    BY DEF WireInv, NotSaid, InOrder
  <2> QED
    BY <1>0, <2>1, StreamIs
<1>4. CloseOnce
  <2> SUFFICES ASSUME NEW e \in Ends, NEW i \in Closes(Stream(e)), NEW j \in Closes(Stream(e))
               PROVE  i = j /\ ~unlinked[Other(e)]
    BY DEF CloseOnce
  <2>1. Single(Stream(e))
    BY <1>0, OneCloseIs, StreamIs DEF WireInv
  <2>2. SomeOf(Stream(e), {"close"})
    BY DEF SomeOf, Closes
  <2>3. ~Silent(e, {"close"})
    BY <1>0, <2>2, StreamIs DEF Silent
  <2>4. ~unlinked[Other(e)]
    BY <2>3 DEF WireInv, NotSaid
  <2> QED
    BY <2>1, <2>4 DEF Single
<1> QED
  BY <1>1, <1>2, <1>3, <1>4 DEF WireSound

(* The messages of a direction, whatever the four threads interleave to: the *)
(* bytes on the wire account for the window, end of file is seen only after  *)
(* all the data, and CLOSE is sent once and, while the peer has not closed,   *)
(* last.                                                                     *)
THEOREM WireIsSound == Spec => []WireSound
<1> QED
  BY WireInit, WireStep, WireInvSuffices, TypeCorrect, WindowIsConserved, PTL DEF Spec
=============================================================================
