---------------------------- MODULE SftpProofs -----------------------------

(****************************************************************************)
(* That the thread of the SFTP proxy implements Replies, for any number of  *)
(* requests, parts and batches and any set of operations: every step either *)
(* takes a request, or answers the one at hand, or ends the session, or     *)
(* changes nothing Replies knows of.  And that what is kept of an upload,   *)
(* and what the container has open, is what the hacker was told.            *)
(****************************************************************************)
EXTENDS Sftp, SequenceTheorems, TLAPS

AtHand == pc \in {"process", "call", "wait", "got"}

IsRequest(r) ==
    r = [num |-> r.num, op |-> r.op, handle |-> r.handle, mode |-> r.mode, size |-> r.size]

\* finish_subsystem closes a file by the calls that answer a CLOSE: what tells the
\* two apart is that it has nothing else to ask for.
ThreadInv ==
    /\ answers \in Nat /\ hacker \in BOOLEAN
    /\ pc \in {"connect", "version", "read", "process", "call", "wait", "got", "finish", "ended"}
    /\ IsRequest(req) /\ req.num \in Nat
    /\ AtHand /\ req.op # "finish" /\ hacker => req.num = answers + 1
    /\ req.op = "finish" => pc \in {"call", "wait", "got", "ended"}
    /\ req.op = "finish" /\ AtHand => todo = <<"fclose">>

\* The variables of Replies.
CurrentOf == IF hacker /\ Busy /\ req.op # "finish" THEN req.num ELSE 0
OverOf == ~hacker \/ pc \in {"finish", "ended"} \/ req.op = "finish"

TakeStep == ~OverOf /\ CurrentOf = 0 /\ CurrentOf' = answers + 1 /\ answers' = answers /\ OverOf' = OverOf
AnswerStep ==
    ~OverOf /\ CurrentOf # 0 /\ answers' = CurrentOf /\ CurrentOf' = 0 /\ OverOf' = OverOf
EndStep == ~OverOf /\ OverOf' = TRUE /\ CurrentOf' = 0 /\ answers' = answers
Stutter == CurrentOf' = CurrentOf /\ answers' = answers /\ OverOf' = OverOf
Step == TakeStep \/ AnswerStep \/ EndStep \/ Stutter

\* An answer to the request at hand.
LEMMA Answering ==
    ASSUME ThreadInv, AtHand, req.op # "finish", NEW kind, Answer(kind), hacker' = hacker
    PROVE  ThreadInv' /\ Step
<1>1. pc' = "read" /\ req' = NoRequest /\ answers' = IF hacker THEN answers + 1 ELSE answers
  BY DEF Answer, Counted
<1>2. ThreadInv'
  BY <1>1 DEF ThreadInv, AtHand, IsRequest, NoRequest
<1>3. (OverOf <=> ~hacker) /\ (OverOf' <=> ~hacker)
  BY <1>1 DEF ThreadInv, AtHand, OverOf, NoRequest
<1>4. CurrentOf' = 0 /\ CurrentOf = IF hacker THEN answers + 1 ELSE 0
  BY <1>1 DEF ThreadInv, AtHand, CurrentOf, Busy
<1>5. OverOf \in BOOLEAN /\ OverOf' \in BOOLEAN
  BY DEF OverOf, ThreadInv
<1>6. hacker => AnswerStep
  BY <1>1, <1>3, <1>4, <1>5 DEF ThreadInv, AnswerStep
<1>7. ~hacker => Stutter
  BY <1>1, <1>3, <1>4, <1>5 DEF Stutter
<1> QED
  BY <1>2, <1>6, <1>7 DEF Step

\* The thread goes on with the request at hand.
LEMMA GoingOn ==
    ASSUME ThreadInv, AtHand, AtHand', hacker' = hacker, answers' = answers,
           IsRequest(req'), req'.num = req.num, req'.op = req.op,
           req.op = "finish" => pc' # "process" /\ todo' = todo
    PROVE  ThreadInv' /\ Step
<1>1. ThreadInv'
  BY DEF ThreadInv, AtHand
<1>2. Stutter
  BY DEF ThreadInv, AtHand, Stutter, CurrentOf, OverOf, Busy
<1> QED
  BY <1>1, <1>2 DEF Step

\* Nobody is asked anything in these steps.
LEMMA Idling ==
    ASSUME ThreadInv, ~AtHand, req.op # "finish" \/ pc = "ended",
           hacker' = hacker, answers' = answers, req' = req,
           pc' \in {"version", "read", "finish", "ended"},
           pc \in {"finish", "ended"} => pc' = pc \/ pc' = "ended",
           req.op = "finish" => pc' = "ended"
    PROVE  ThreadInv' /\ Step
<1>1. ThreadInv'
  BY DEF ThreadInv, AtHand
<1>2. CASE OverOf
  BY <1>2 DEF ThreadInv, AtHand, Step, Stutter, CurrentOf, OverOf, Busy
<1>3. CASE ~OverOf
  BY <1>3 DEF ThreadInv, AtHand, Step, Stutter, EndStep, CurrentOf, OverOf, Busy
<1> QED
  BY <1>1, <1>2, <1>3

LEMMA SessionStep ==
    ASSUME ThreadInv, Connect \/ SendServerVersion \/ EndOfSession \/ FinishSubsystem
    PROVE  ThreadInv' /\ Step
<1>1. CASE Connect
  BY <1>1, Idling DEF Connect, ThreadInv, AtHand, sent
<1>2. CASE SendServerVersion
  BY <1>2, Idling DEF SendServerVersion, ThreadInv, AtHand, sent
<1>3. CASE EndOfSession
  BY <1>3, Idling DEF EndOfSession, ThreadInv, AtHand, sent
<1>4. CASE FinishSubsystem
  <2>1. CASE Files = {}
    BY <1>4, <2>1, Idling DEF FinishSubsystem, ThreadInv, AtHand, sent
  <2>2. CASE Files # {}
    <3>1. PICK h \in Files :
            /\ pc' = "call" /\ todo' = <<"fclose">>
            /\ req' = [NoRequest EXCEPT !.op = "finish", !.handle = h]
      BY <1>4, <2>2 DEF FinishSubsystem
    <3>2. req' = [num |-> 0, op |-> "finish", handle |-> h, mode |-> "r", size |-> 0]
      BY <3>1 DEF NoRequest
    <3>3. pc = "finish" /\ answers' = answers /\ hacker' = hacker
      BY <1>4 DEF FinishSubsystem, sent
    <3>4. ThreadInv'
      <4>1. IsRequest(req') /\ req'.num = 0 /\ req'.op = "finish"
        BY <3>2 DEF IsRequest
      <4> QED
        BY <3>1, <3>3, <4>1 DEF ThreadInv, AtHand
    <3>5. Stutter
      BY <3>1, <3>2, <3>3 DEF ThreadInv, AtHand, Stutter, CurrentOf, OverOf, Busy
    <3> QED
      BY <3>4, <3>5 DEF Step
  <2> QED
    BY <2>1, <2>2
<1> QED
  BY <1>1, <1>2, <1>3, <1>4

LEMMA TakeIsTake ==
    ASSUME ThreadInv, Take
    PROVE  ThreadInv' /\ Step
<1>1. PICK i \in Inputs :
        /\ i.op \in Ops
        /\ req' = [num |-> answers + 1, op |-> i.op, handle |-> i.handle,
                   mode |-> i.mode, size |-> IF i.op \in Sized THEN i.size ELSE 0]
  BY DEF Take
<1>2. i.op # "finish"
  BY <1>1, OpsAssumption DEF AllOps, PathOps, HandleOps
<1>3. pc = "read" /\ pc' = "process" /\ hacker /\ hacker' = hacker /\ answers' = answers
  BY DEF Take, sent
<1>4. ThreadInv'
  BY <1>1, <1>2, <1>3 DEF ThreadInv, AtHand, IsRequest
<1>5. TakeStep
  BY <1>1, <1>2, <1>3 DEF ThreadInv, AtHand, TakeStep, CurrentOf, OverOf, Busy
<1> QED
  BY <1>4, <1>5 DEF Step

\* What _process asks for, it asks for the request at hand.
LEMMA Asking ==
    ASSUME ThreadInv, pc = "process", NEW calls, Ask(calls), hacker' = hacker
    PROVE  ThreadInv' /\ Step
  BY GoingOn DEF Ask, ThreadInv, AtHand, sent

LEMMA ProcessStep ==
    ASSUME ThreadInv, Process \/ ProcessFile \/ ProcessFolder \/ ProcessInvalid
    PROVE  ThreadInv' /\ Step
<1>1. pc = "process" /\ AtHand /\ req.op # "finish" /\ hacker' = hacker
  BY DEF Process, ProcessFile, ProcessFolder, ProcessInvalid, ThreadInv, AtHand
<1>2. (\E calls : Ask(calls)) \/ (\E kind : Answer(kind))
  <2>1. CASE Process
    BY <2>1 DEF Process, Failure
  <2>2. CASE ProcessFile
    BY <2>2 DEF ProcessFile, Failure
  <2>3. CASE ProcessFolder
    BY <2>3 DEF ProcessFolder
  <2>4. CASE ProcessInvalid
    BY <2>4 DEF ProcessInvalid
  <2> QED
    BY <2>1, <2>2, <2>3, <2>4
<1> QED
  BY <1>1, <1>2, Asking, Answering

LEMMA CallStep ==
    ASSUME ThreadInv, CopyFails \/ Send \/ ContainerReplies \/ LinkFalls
    PROVE  ThreadInv' /\ Step
<1>1. CASE CopyFails
  <2>1. req.op # "finish"
    BY <1>1 DEF CopyFails, MakesCopy, Call, ThreadInv, AtHand
  <2> QED
    BY <1>1, <2>1, Answering DEF CopyFails, Failure, AtHand
<1>2. CASE Send
  BY <1>2, GoingOn DEF Send, ThreadInv, AtHand, sent
<1>3. CASE ContainerReplies
  BY <1>3, GoingOn DEF ContainerReplies, ThreadInv, AtHand, sent
<1>4. CASE LinkFalls
  <2>1. CASE pc \in {"wait", "got"}
    BY <1>4, <2>1, GoingOn DEF LinkFalls, ThreadInv, AtHand, sent
  <2>2. CASE pc \notin {"wait", "got"}
    <3>1. UNCHANGED <<pc, req, todo, answers, hacker>>
      BY <1>4, <2>2 DEF LinkFalls, sent
    <3> QED
      BY <3>1 DEF ThreadInv, AtHand, IsRequest, Step, Stutter, CurrentOf, OverOf, Busy
  <2> QED
    BY <2>1, <2>2
<1> QED
  BY <1>1, <1>2, <1>3, <1>4

\* The next call for the request at hand.
LEMMA Continuing ==
    ASSUME ThreadInv, AtHand, req.op # "finish", NEW calls, Continue(calls), hacker' = hacker
    PROVE  ThreadInv' /\ Step
  BY GoingOn DEF Continue, ThreadInv, AtHand, sent

LEMMA GotStep ==
    ASSUME ThreadInv, GotPath \/ GotOpen \/ GotListing \/ GotRead \/ GotHash \/ GotWrite
    PROVE  ThreadInv' /\ Step
<1>1. pc = "got" /\ AtHand /\ hacker' = hacker
  BY DEF GotPath, GotOpen, GotListing, GotRead, GotHash, GotWrite, AtHand
<1>2. Call # "fclose"
  BY DEF GotPath, GotOpen, GotListing, GotRead, GotHash, GotWrite
<1>3. req.op # "finish"
  BY <1>1, <1>2 DEF Call, ThreadInv
<1>4. \/ \E calls : Continue(calls)
      \/ \E kind : Answer(kind)
      \/ req' = [req EXCEPT !.size = @ + 1] /\ pc' = "call" /\ UNCHANGED <<todo, answers>>
  <2>1. Refused => \E kind : Answer(kind)
    BY DEF Refused, Failure
  <2>2. \A entry : Handle(entry) => \E kind : Answer(kind)
    BY DEF Handle
  <2>3. CASE GotPath
    BY <2>1, <2>3 DEF GotPath
  <2>4. CASE GotOpen
    BY <2>1, <2>2, <2>4 DEF GotOpen
  <2>5. CASE GotListing
    BY <2>1, <2>2, <2>5 DEF GotListing, sent
  <2>6. CASE GotRead
    BY <2>1, <2>6 DEF GotRead
  <2>7. CASE GotHash
    BY <2>1, <2>7 DEF GotHash
  <2>8. CASE GotWrite
    BY <2>1, <2>8 DEF GotWrite
  <2> QED
    BY <2>3, <2>4, <2>5, <2>6, <2>7, <2>8
<1>5. ASSUME req' = [req EXCEPT !.size = @ + 1], pc' = "call", UNCHANGED <<todo, answers>>
      PROVE  ThreadInv' /\ Step
  <2>1. IsRequest(req') /\ req'.num = req.num /\ req'.op = req.op
    BY <1>5 DEF ThreadInv, IsRequest
  <2> QED
    BY <1>1, <1>5, <2>1, GoingOn DEF AtHand
<1> QED
  BY <1>1, <1>3, <1>4, <1>5, Answering, Continuing

LEMMA CloseStep ==
    ASSUME ThreadInv, GotClose
    PROVE  ThreadInv' /\ Step
<1>1. pc = "got" /\ AtHand /\ hacker' = hacker
  BY DEF GotClose, AtHand
<1>2. CASE \E kind : Answer(kind)
  <2>1. req.op # "finish" \/ pc' # "read"
    BY <1>2 DEF GotClose
  <2> QED
    BY <1>1, <1>2, <2>1, Answering DEF Answer
<1>3. CASE pc' = "ended" /\ UNCHANGED <<req, answers>>
  <2>1. ThreadInv'
    BY <1>1, <1>3 DEF ThreadInv, AtHand
  <2>2. CASE OverOf
    BY <1>1, <1>3, <2>2 DEF ThreadInv, AtHand, Step, Stutter, CurrentOf, OverOf, Busy
  <2>3. CASE ~OverOf
    BY <1>1, <1>3, <2>3 DEF ThreadInv, AtHand, Step, EndStep, CurrentOf, OverOf, Busy
  <2> QED
    BY <2>1, <2>2, <2>3
<1>4. CASE pc' = "finish" /\ req' = NoRequest /\ UNCHANGED answers
  <2>1. ThreadInv'
    BY <1>1, <1>4 DEF ThreadInv, AtHand, IsRequest, NoRequest
  <2>2. OverOf' /\ CurrentOf' = 0
    BY <1>4 DEF CurrentOf, OverOf, Busy
  <2>3. OverOf => CurrentOf = 0
    BY <1>1 DEF CurrentOf, OverOf
  <2>4. OverOf \in BOOLEAN /\ OverOf' \in BOOLEAN
    BY <1>1 DEF OverOf, ThreadInv
  <2> QED
    BY <1>4, <2>1, <2>2, <2>3, <2>4 DEF Step, Stutter, EndStep
<1> QED
  BY <1>2, <1>3, <1>4 DEF GotClose, Failure, sent

LEMMA LeavingStep ==
    ASSUME ThreadInv, HackerLeaves
    PROVE  ThreadInv' /\ Step
<1>1. hacker /\ hacker' = FALSE /\ UNCHANGED <<pc, req, todo, answers>>
  BY DEF HackerLeaves, server, sent
<1>2. ThreadInv'
  BY <1>1 DEF ThreadInv, AtHand, IsRequest
<1>3. CASE OverOf
  BY <1>1, <1>3 DEF ThreadInv, AtHand, Step, Stutter, CurrentOf, OverOf, Busy
<1>4. CASE ~OverOf
  BY <1>1, <1>4 DEF ThreadInv, AtHand, Step, EndStep, CurrentOf, OverOf, Busy
<1> QED
  BY <1>2, <1>3, <1>4

\* Every step keeps ThreadInv and is a step or a stutter of Replies.
LEMMA EveryStep ==
    ASSUME ThreadInv, [Next]_vars
    PROVE  ThreadInv' /\ Step
<1>1. CASE Thread
  BY <1>1, SessionStep, ProcessStep, CallStep, GotStep, CloseStep DEF Thread, Got
<1>2. CASE UNCHANGED vars
  <2>1. UNCHANGED <<pc, req, todo, answers, hacker>>
    BY <1>2 DEF vars, server, sent
  <2> QED
    BY <2>1 DEF ThreadInv, AtHand, IsRequest, Step, Stutter, CurrentOf, OverOf, Busy
<1> QED
  BY <1>1, <1>2, TakeIsTake, CallStep, LeavingStep DEF Next

(* The SFTP thread of wetland answers each request of the hacker exactly once  *)
(* and in order, whatever the container and the disk do, until the session     *)
(* ends (SFTPServer.start_subsystem, _process).                                *)
THEOREM AnswersOnce == Spec => AnsweredOnce
<1>1. Init => ThreadInv
  BY DEF Init, ThreadInv, AtHand, IsRequest, NoRequest
<1>2. Init => Abstract!Init
  BY DEF Init, Abstract!Init, Busy, NoRequest
<1>3. ThreadInv /\ [Next]_vars => ThreadInv'
  BY EveryStep
<1>4. ThreadInv /\ [Next]_vars => [Abstract!Next]_(Abstract!vars)
  <2>1. Step => [Abstract!Next]_(Abstract!vars)
    BY DEF Step, TakeStep, AnswerStep, EndStep, Stutter, CurrentOf, OverOf, Abstract!Next,
           Abstract!Take, Abstract!Answer, Abstract!End, Abstract!vars
  <2> QED
    BY <2>1, EveryStep
<1> QED
  BY <1>1, <1>2, <1>3, <1>4, PTL DEF Spec, AnsweredOnce, Abstract!Spec
(****************************************************************************)
(* The files, their copies and the container's handles.                     *)
(****************************************************************************)
Asked == pc \in {"call", "wait", "got"}
FromHacker == AtHand /\ req.op # "finish"
FileOps == {"read", "write", "check", "fstat", "close", "finish"}

\* The container's handles of the open files.
RemoteFiles == {table[h].remote : h \in Files}

RequestOK ==
    /\ FromHacker => req.num \in Requests
    /\ AtHand /\ req.op \in {"read", "write", "check"} => req.size \in 1 .. MaxParts
    /\ AtHand /\ req.op = "open" => req.mode \in Modes /\ req.size \in 0 .. 1
    /\ AtHand /\ req.op \in {"setstat", "opendir"} => req.size \in Nat
    /\ Asked /\ req.op \in FileOps => req.handle \in Files

\* What is left to ask is the same call up to size times, or the end of a list.
Times(call) == todo \in Seq({call}) /\ todo # <<>> /\ Len(todo) <= req.size

TodoOK ==
    CASE req.op \in PathOps \cup {"fstat"} -> todo = <<"path">>
      [] req.op \in {"close", "finish"} -> todo = <<"fclose">>
      [] req.op \in {"read", "write"} -> Times(req.op)
      [] req.op = "check" -> Times("hash")
      [] req.op = "setstat" -> Times("chattr")
      [] req.op = "open" ->
           todo \in {<<"chattr", "open">>, <<"chattr", "open", "size">>, <<"open">>,
                     <<"open", "size">>, <<"size">>}
      [] req.op = "opendir" ->
           todo \in {<<"opendir", "readdir", "close">>, <<"readdir", "close">>, <<"close">>}
      [] OTHER -> FALSE

CallsOK ==
    /\ Asked => TodoOK
    /\ reply \in {"none", "ok", "eof", "error", "dropped"}
    /\ pc = "got" => reply # "none"
    /\ link \in BOOLEAN
    /\ link => reply # "dropped"

Entry == [kind : {"file", "folder"}, mode : Modes, remote : Requests \cup {None}, left : Nat]

TableOK ==
    /\ next \in Nat \ {0} /\ DOMAIN table \subseteq 1 .. next - 1
    /\ table \in [DOMAIN table -> Entry]
    /\ \A h \in Files : table[h].remote \in Requests
    /\ \A h1, h2 \in Files : table[h1].remote = table[h2].remote => h1 = h2
    /\ pc \in {"connect", "version"} => Files = {}
    /\ pc = "ended" /\ ~lost => Files = {}

HistoryOK ==
    /\ told \in [files : SUBSET Requests, parts : SUBSET (Requests \X (1 .. MaxParts))]
    /\ copies \in [Requests -> [state : {"none", "open", "reported"},
                                parts : SUBSET (Requests \X (1 .. MaxParts))]]
    /\ remote \subseteq Requests /\ taken \subseteq Requests \X (1 .. MaxParts)

\* Nothing is known yet of a request to come, and little of the one at hand.
Fresh ==
    /\ pc \in {"connect", "version", "read"} /\ hacker =>
         \A r \in Requests : r > answers =>
            r \notin RemoteFiles /\ r \notin told.files /\ copies[r].state = "none"
    /\ FromHacker =>
         \A r \in Requests : r >= req.num =>
            /\ r \notin RemoteFiles /\ r \notin told.files
            /\ copies[r].state # "none" => r = req.num /\ req.op = "open" /\ Copied(req.mode)

\* The parts of a write that the container has taken so far.
TakenSoFar ==
    Asked /\ req.op = "write" =>
        \A i \in 1 .. req.size :
            i < Part \/ (i = Part /\ pc = "got" /\ reply = "ok") => <<req.num, i>> \in taken

OpenCopies ==
    /\ \A r \in told.files : copies[r].state = "open" => r \in RemoteFiles
    /\ \A h \in Files : copies[table[h].remote].state # "none" => Copied(table[h].mode)

\* The request at hand has a handle open in the container, or the handle of a file
\* is closed there but not yet here.
HasOpened ==
    /\ Asked
    /\ \/ Call \in {"size", "readdir"}
       \/ Call = "close" /\ pc # "got"
       \/ Opens /\ pc = "got" /\ reply = "ok"
Opened == IF HasOpened THEN {req.num} ELSE {}
Closed == IF pc = "got" /\ Call = "fclose" THEN {table[req.handle].remote} ELSE {}

HandlesOK ==
    link /\ pc # "ended" =>
        /\ (RemoteFiles \ Closed) \cup Opened \subseteq remote
        /\ remote \subseteq (RemoteFiles \ Closed) \cup Opened \cup abandoned

SftpInv ==
    /\ ThreadInv /\ RequestOK /\ CallsOK /\ TableOK /\ HistoryOK
    /\ Fresh /\ TakenSoFar /\ OpenCopies /\ CopyIsTaken /\ OkMeansSaved /\ HandlesOK

USE DEF AtHand, Asked, FromHacker, server, handles, container, history, sent, Requests, None

-----------------------------------------------------------------------------
(****************************************************************************)
(* The lists of calls.                                                      *)
(****************************************************************************)
LEMMA RepeatTimes ==
    ASSUME NEW call, NEW n \in Nat \ {0}
    PROVE  Repeat(call, n) \in Seq({call}) /\ Repeat(call, n) # <<>> /\ Len(Repeat(call, n)) = n
  BY DEF Repeat

LEMMA TimesTail ==
    ASSUME NEW call, NEW s \in Seq({call}), s # <<>>
    PROVE  /\ Head(s) = call /\ Tail(s) \in Seq({call})
           /\ Len(s) \in Nat \ {0} /\ Len(Tail(s)) = Len(s) - 1
           /\ Tail(s) = <<>> <=> Len(s) = 1
<1>1. Len(s) \in Nat /\ Len(s) # 0
  OBVIOUS
<1>2. Head(s) = call
  BY <1>1
<1>3. Tail(s) \in Seq({call}) /\ Len(Tail(s)) = Len(s) - 1
  BY <1>1
<1>4. Tail(s) = <<>> <=> Len(Tail(s)) = 0
  BY <1>3, EmptySeq
<1> QED
  BY <1>1, <1>2, <1>3, <1>4

LEMMA OpenLists ==
    ASSUME NEW mode, NEW size \in 0 .. 1
    PROVE  OpenCalls(mode, size) \in {<<"chattr", "open">>, <<"chattr", "open", "size">>,
                                      <<"open">>, <<"open", "size">>}
<1>1. Repeat("chattr", 0) = <<>>
  BY DEF Repeat
<1>2. Repeat("chattr", 1) = <<"chattr">>
  BY DEF Repeat
<1>3. CASE size = 0
  <2>1. OpenCalls(mode, size) \in {<<>> \o <<"open">> \o <<"size">>, <<>> \o <<"open">> \o <<>>}
    BY <1>1, <1>3 DEF OpenCalls
  <2> QED
    BY <2>1
<1>4. CASE size = 1
  <2>1. OpenCalls(mode, size) \in {<<"chattr">> \o <<"open">> \o <<"size">>,
                                   <<"chattr">> \o <<"open">> \o <<>>}
    BY <1>2, <1>4 DEF OpenCalls
  <2> QED
    BY <2>1
<1> QED
  BY <1>3, <1>4

LEMMA Tails ==
    /\ Tail(<<"path">>) = <<>>
    /\ Tail(<<"chattr", "open">>) = <<"open">>
    /\ Tail(<<"chattr", "open", "size">>) = <<"open", "size">>
    /\ Tail(<<"opendir", "readdir", "close">>) = <<"readdir", "close">>
  OBVIOUS

LEMMA CallCases ==
    ASSUME TodoOK
    PROVE  todo # <<>> /\ Call \in CallsOf(req.op)
<1>1. CASE req.op \in {"read", "write", "check", "setstat"}
  BY <1>1, TimesTail DEF TodoOK, Times, Call, CallsOf, PathOps
<1>2. CASE req.op \notin {"read", "write", "check", "setstat"}
  BY <1>2 DEF TodoOK, Call, CallsOf, PathOps
<1> QED
  BY <1>1, <1>2

-----------------------------------------------------------------------------
(****************************************************************************)
(* What most steps leave alone.                                             *)
(****************************************************************************)
\* The session has not just begun with files open, nor just ended with them.
LEMMA DataStays ==
    ASSUME SftpInv, UNCHANGED <<handles, told, copies, remote, taken>>,
           pc' \in {"connect", "version"} => pc \in {"connect", "version"},
           pc' = "ended" /\ ~lost' => Files = {}
    PROVE  TableOK' /\ HistoryOK' /\ OpenCopies' /\ CopyIsTaken' /\ OkMeansSaved'
<1>1. Files' = Files /\ RemoteFiles' = RemoteFiles
  BY DEF Files, RemoteFiles
<1>2. TableOK'
  BY <1>1 DEF SftpInv, TableOK, Files
<1>3. HistoryOK'
  BY DEF SftpInv, HistoryOK
<1>4. OpenCopies'
  BY <1>1 DEF SftpInv, OpenCopies, Files
<1> QED
  BY <1>2, <1>3, <1>4 DEF SftpInv, CopyIsTaken, OkMeansSaved

\* The container's handles, and the one at hand.
LEMMA HandlesStay ==
    ASSUME SftpInv, UNCHANGED <<table, remote>>, abandoned \subseteq abandoned',
           link' => link, pc' # "ended" => pc # "ended",
           link' => (HasOpened' <=> HasOpened) /\ (HasOpened => req'.num = req.num),
           link' /\ pc' = "got" /\ Call' = "fclose" =>
              pc = "got" /\ Call = "fclose" /\ req' = req,
           link' /\ pc = "got" /\ Call = "fclose" =>
              pc' = "got" /\ Call' = "fclose" /\ req' = req
    PROVE  HandlesOK'
<1>1. RemoteFiles' = RemoteFiles
  BY DEF Files, RemoteFiles
<1>2. link' => Opened' = Opened
  BY DEF Opened
<1>3. link' => Closed' = Closed
  BY DEF Closed
<1> QED
  BY <1>1, <1>2, <1>3 DEF SftpInv, HandlesOK

\* After the answer the thread asks for nothing.
LEMMA AnswerEnds ==
    ASSUME SftpInv, FromHacker, NEW kind, Answer(kind), UNCHANGED <<hacker, link>>
    PROVE  RequestOK' /\ CallsOK' /\ TakenSoFar' /\ ~HasOpened' /\ Closed' = {}
<1>1. pc' = "read" /\ reply' = "none"
  BY DEF Answer
<1>2. RequestOK' /\ CallsOK' /\ TakenSoFar'
  BY <1>1 DEF SftpInv, RequestOK, CallsOK, TakenSoFar
<1> QED
  BY <1>1, <1>2 DEF HasOpened, Closed

\* An answer that gives no handle and acknowledges no write; a handle the container
\* may have opened for it is given up.
LEMMA PlainAnswer ==
    ASSUME SftpInv, FromHacker, NEW kind, Answer(kind),
           UNCHANGED <<handles, copies, container, hacker, link, lost>>,
           abandoned \subseteq abandoned',
           link /\ HasOpened => req.num \in abandoned', pc = "got" => Call # "fclose" \/ ~link,
           kind = "handle" => req.op # "open",
           kind = "ok" => req.op # "write"
    PROVE  SftpInv'
<1>1. /\ pc' = "read" /\ told' = told
      /\ answers' = IF hacker THEN answers + 1 ELSE answers
  BY DEF Answer, Counted
<1>2. RequestOK' /\ CallsOK' /\ TakenSoFar' /\ ~HasOpened' /\ Closed' = {}
  BY AnswerEnds
<1>3. TableOK' /\ HistoryOK' /\ OpenCopies' /\ CopyIsTaken' /\ OkMeansSaved'
  BY <1>1, DataStays
<1>4. Files' = Files /\ RemoteFiles' = RemoteFiles
  BY DEF Files, RemoteFiles
<1>5. Fresh'
  <2>1. ASSUME hacker' PROVE answers' = req.num
    BY <1>1, <2>1 DEF SftpInv, ThreadInv
  <2> QED
    BY <1>1, <1>4, <2>1 DEF SftpInv, Fresh, RequestOK
<1>6. HandlesOK'
  <2>1. Opened' = {} /\ (link => Closed = {} /\ Opened \subseteq abandoned')
    BY <1>2 DEF Opened, Closed
  <2> QED
    BY <1>1, <1>2, <1>4, <2>1 DEF SftpInv, HandlesOK, ThreadInv
<1>7. ThreadInv'
  BY Answering DEF SftpInv
<1> QED
  BY <1>2, <1>3, <1>5, <1>6, <1>7 DEF SftpInv

-----------------------------------------------------------------------------
(****************************************************************************)
(* Every action keeps SftpInv.                                              *)
(****************************************************************************)
LEMMA SessionKeeps ==
    ASSUME SftpInv, [Next]_vars,
           Connect \/ SendServerVersion \/ EndOfSession \/ FinishSubsystem
    PROVE  SftpInv'
<1>1. /\ UNCHANGED <<handles, sent, hacker, link, container, copies, history, reply>>
      /\ pc \in {"connect", "version", "read", "finish"}
      /\ pc' \in {"version", "ended", "read", "finish", "call"}
  BY DEF Connect, SendServerVersion, EndOfSession, FinishSubsystem
<1>2. pc' # "call" => pc' \in {"version", "ended", "read", "finish"} /\ UNCHANGED <<req, todo>>
  BY DEF Connect, SendServerVersion, EndOfSession, FinishSubsystem
<1>3. pc' = "call" => todo' = <<"fclose">> /\ Call' = "fclose"
  <2>1. pc' = "call" => todo' = <<"fclose">>
    BY DEF Connect, SendServerVersion, EndOfSession, FinishSubsystem
  <2> QED
    BY <2>1 DEF Call
<1>4. pc' = "call" => req'.op = "finish" /\ req'.handle \in Files
  <2>1. SUFFICES ASSUME pc' = "call" PROVE req'.op = "finish" /\ req'.handle \in Files
    OBVIOUS
  <2>2. PICK h \in Files : req' = [NoRequest EXCEPT !.op = "finish", !.handle = h]
    BY <2>1 DEF Connect, SendServerVersion, EndOfSession, FinishSubsystem
  <2>3. req' = [num |-> 0, op |-> "finish", handle |-> h, mode |-> "r", size |-> 0]
    BY <2>2 DEF NoRequest
  <2> QED
    BY <2>3
<1>5. Files' = Files /\ RemoteFiles' = RemoteFiles
  BY <1>1 DEF Files, RemoteFiles
<1>6. pc' \in {"connect", "version"} => pc \in {"connect", "version"}
  BY DEF Connect, SendServerVersion, EndOfSession, FinishSubsystem
<1>7. pc' = "ended" => Files = {}
  BY DEF Connect, SendServerVersion, EndOfSession, FinishSubsystem, SftpInv, TableOK
<1>8. TableOK' /\ HistoryOK' /\ OpenCopies' /\ CopyIsTaken' /\ OkMeansSaved'
  BY <1>1, <1>6, <1>7, DataStays
<1>9. RequestOK' /\ TakenSoFar'
  BY <1>1, <1>2, <1>4, <1>5 DEF RequestOK, TakenSoFar
<1>10. CallsOK'
  BY <1>1, <1>2, <1>3, <1>4 DEF SftpInv, CallsOK, TodoOK, PathOps
<1>11. Fresh'
  <2>1. pc' = "read" => pc = "version"
    BY DEF SendServerVersion, Connect, EndOfSession, FinishSubsystem
  <2> QED
    BY <1>1, <1>2, <1>4, <1>5, <1>6, <2>1 DEF SftpInv, Fresh
<1>12. HandlesOK'
  BY <1>1, <1>2, <1>3, HandlesStay DEF HasOpened, Opens
<1>13. ThreadInv'
  BY EveryStep DEF SftpInv
<1> QED
  BY <1>8, <1>9, <1>10, <1>11, <1>12, <1>13 DEF SftpInv

LEMMA TakeKeeps ==
    ASSUME SftpInv, [Next]_vars, Take
    PROVE  SftpInv'
<1>1. /\ pc = "read" /\ pc' = "process" /\ hacker /\ answers \in 0 .. MaxRequests - 1
      /\ UNCHANGED <<todo, reply, handles, sent, hacker, link, container, copies, history>>
  BY BoundsAssumption DEF Take, SftpInv, ThreadInv
<1>2. PICK i \in Inputs :
        /\ i.op \in Ops /\ (i.op \in Sized \/ i.size <= 1)
        /\ req' = [num |-> answers + 1, op |-> i.op, handle |-> i.handle,
                   mode |-> i.mode, size |-> IF i.op \in Sized THEN i.size ELSE 0]
  BY DEF Take
<1>3. RequestOK'
  BY <1>1, <1>2, BoundsAssumption, OpsAssumption
     DEF RequestOK, Inputs, Sized, Modes, AllOps, PathOps, HandleOps
<1>4. CallsOK' /\ TakenSoFar'
  BY <1>1 DEF SftpInv, CallsOK, TakenSoFar
<1>5. TableOK' /\ HistoryOK' /\ OpenCopies' /\ CopyIsTaken' /\ OkMeansSaved'
  BY <1>1, DataStays
<1>6. Files' = Files /\ RemoteFiles' = RemoteFiles
  BY <1>1 DEF Files, RemoteFiles
<1>7. Fresh'
  BY <1>1, <1>2, <1>6 DEF SftpInv, ThreadInv, Fresh
<1>8. HandlesOK'
  BY <1>1, HandlesStay DEF HasOpened
<1>9. ThreadInv'
  BY EveryStep DEF SftpInv
<1> QED
  BY <1>3, <1>4, <1>5, <1>7, <1>8, <1>9 DEF SftpInv

LEMMA LeavingKeeps ==
    ASSUME SftpInv, [Next]_vars, HackerLeaves
    PROVE  SftpInv'
<1>1. ~hacker' /\ UNCHANGED <<server, handles, sent, link, container, copies, history>>
  BY DEF HackerLeaves
<1>2. Files' = Files /\ RemoteFiles' = RemoteFiles
  BY <1>1 DEF Files, RemoteFiles
<1>3. TodoOK' = TodoOK /\ Call' = Call /\ Part' = Part
  BY <1>1 DEF TodoOK, Times, Call, Part
<1>4. RequestOK' /\ CallsOK' /\ TakenSoFar'
  BY <1>1, <1>2, <1>3 DEF SftpInv, RequestOK, CallsOK, TakenSoFar
<1>5. TableOK' /\ HistoryOK' /\ OpenCopies' /\ CopyIsTaken' /\ OkMeansSaved'
  BY <1>1, DataStays DEF SftpInv, TableOK
<1>6. Fresh'
  BY <1>1, <1>2 DEF SftpInv, Fresh
<1>7. HandlesOK'
  BY <1>1, <1>3, HandlesStay DEF HasOpened, Opens
<1>8. ThreadInv'
  BY EveryStep DEF SftpInv
<1> QED
  BY <1>4, <1>5, <1>6, <1>7, <1>8 DEF SftpInv

\* _process asks the container for something.
LEMMA AskKeeps ==
    ASSUME SftpInv, [Next]_vars, FromHacker, pc = "process", pc' = "call", TodoOK',
           UNCHANGED <<req, reply, sent, handles, hacker, link, container, copies, history>>,
           req.op \in FileOps => req.handle \in Files,
           req.op = "write" => Part' = 1,
           Call' \notin {"size", "readdir", "close", "fclose"} \/ req.op = "close"
    PROVE  SftpInv'
<1>1. Files' = Files /\ RemoteFiles' = RemoteFiles
  BY DEF Files, RemoteFiles
<1>2. RequestOK' /\ CallsOK' /\ TakenSoFar'
  BY <1>1 DEF SftpInv, RequestOK, CallsOK, TakenSoFar
<1>3. TableOK' /\ HistoryOK' /\ OpenCopies' /\ CopyIsTaken' /\ OkMeansSaved'
  BY DataStays
<1>4. Fresh'
  BY <1>1 DEF SftpInv, Fresh
<1>5. HandlesOK'
  <2>1. req.op = "close" => Call' = "fclose"
    BY CallCases DEF CallsOf, TodoOK, Call
  <2> QED
    BY <2>1, HandlesStay DEF HasOpened
<1>6. ThreadInv'
  BY EveryStep DEF SftpInv
<1> QED
  BY <1>2, <1>3, <1>4, <1>5, <1>6 DEF SftpInv

\* The same call, for each part of the request.
LEMMA AskTimes ==
    ASSUME NEW call, todo' = Repeat(call, req.size), req.size \in Nat \ {0}, req' = req
    PROVE  Times(call)' /\ Call' = call /\ Part' = 1
<1>1. todo' \in Seq({call}) /\ todo' # <<>> /\ Len(todo') = req.size
  BY RepeatTimes
<1>2. Head(todo') = call
  BY <1>1, TimesTail
<1> QED
  BY <1>1, <1>2 DEF Times, Call, Part

LEMMA ProcessKeeps ==
    ASSUME SftpInv, [Next]_vars, Process
    PROVE  SftpInv'
<1>1. /\ pc = "process" /\ UNCHANGED <<handles, hacker, link, container, copies, history>>
      /\ FromHacker
  BY DEF Process, SftpInv, ThreadInv
<1>2. ASSUME NEW calls, Ask(calls)
      PROVE  pc' = "call" /\ todo' = calls /\ UNCHANGED <<req, reply, sent>>
  BY <1>2 DEF Ask
<1>3. CASE req.op \in PathOps /\ Ask(<<"path">>)
  <2>1. pc' = "call" /\ todo' = <<"path">> /\ UNCHANGED <<req, reply, sent>>
    BY <1>2, <1>3
  <2>2. TodoOK' /\ Call' = "path"
    BY <1>3, <2>1 DEF TodoOK, PathOps, Call
  <2> QED
    BY <1>1, <1>3, <2>1, <2>2, AskKeeps DEF FileOps, PathOps
<1>4. CASE req.op = "setstat" /\ req.size > 0 /\ Ask(Repeat("chattr", req.size))
  <2>1. pc' = "call" /\ todo' = Repeat("chattr", req.size) /\ UNCHANGED <<req, reply, sent>>
    BY <1>2, <1>4
  <2>2. Times("chattr")' /\ Call' = "chattr"
    BY <1>1, <1>4, <2>1, AskTimes DEF SftpInv, RequestOK
  <2>3. TodoOK'
    BY <1>4, <2>1, <2>2 DEF TodoOK, PathOps
  <2> QED
    BY <1>1, <1>4, <2>1, <2>2, <2>3, AskKeeps DEF FileOps
<1>5. CASE req.op = "open" /\ Ask(OpenCalls(req.mode, req.size))
  <2>1. pc' = "call" /\ todo' = OpenCalls(req.mode, req.size) /\ UNCHANGED <<req, reply, sent>>
    BY <1>2, <1>5
  <2>2. todo' \in {<<"chattr", "open">>, <<"chattr", "open", "size">>, <<"open">>, <<"open", "size">>}
    BY <1>1, <1>5, <2>1, OpenLists DEF SftpInv, RequestOK
  <2>3. TodoOK' /\ Call' \in {"chattr", "open"}
    BY <1>5, <2>1, <2>2 DEF TodoOK, PathOps, Call
  <2> QED
    BY <1>1, <1>5, <2>1, <2>3, AskKeeps DEF FileOps
<1>6. CASE req.op = "opendir" /\ Ask(<<"opendir", "readdir", "close">>)
  <2>1. pc' = "call" /\ todo' = <<"opendir", "readdir", "close">> /\ UNCHANGED <<req, reply, sent>>
    BY <1>2, <1>6
  <2>2. TodoOK' /\ Call' = "opendir"
    BY <1>6, <2>1 DEF TodoOK, PathOps, Call
  <2> QED
    BY <1>1, <1>6, <2>1, <2>2, AskKeeps DEF FileOps
<1>7. CASE req.op \in {"setstat", "other", "symlink"} /\ \E kind \in {"ok", "failure"} : Answer(kind)
  BY <1>1, <1>7, PlainAnswer DEF HasOpened
<1> QED
  BY <1>3, <1>4, <1>5, <1>6, <1>7 DEF Process, Failure

LEMMA ProcessFileKeeps ==
    ASSUME SftpInv, [Next]_vars, ProcessFile
    PROVE  SftpInv'
<1>1. /\ pc = "process" /\ UNCHANGED <<handles, hacker, link, container, copies, history>>
      /\ FromHacker /\ req.handle \in Files
  BY DEF ProcessFile, SftpInv, ThreadInv
<1>2. ASSUME NEW calls, Ask(calls)
      PROVE  pc' = "call" /\ todo' = calls /\ UNCHANGED <<req, reply, sent>>
  BY <1>2 DEF Ask
<1>3. ASSUME NEW call \in {"path", "fclose"}, Ask(<<call>>),
             req.op = IF call = "path" THEN "fstat" ELSE "close"
      PROVE  SftpInv'
  <2>1. pc' = "call" /\ todo' = <<call>> /\ UNCHANGED <<req, reply, sent>>
    BY <1>2, <1>3
  <2>2. TodoOK' /\ Call' = call
    BY <1>3, <2>1 DEF TodoOK, PathOps, Call
  <2> QED
    BY <1>1, <1>3, <2>1, <2>2, AskKeeps
<1>4. ASSUME NEW call \in {"read", "hash", "write"}, Ask(Repeat(call, req.size)),
             req.op = IF call = "hash" THEN "check" ELSE call
      PROVE  SftpInv'
  <2>1. pc' = "call" /\ todo' = Repeat(call, req.size) /\ UNCHANGED <<req, reply, sent>>
    BY <1>2, <1>4
  <2>2. req.size \in Nat \ {0}
    BY <1>1, <1>4, BoundsAssumption DEF SftpInv, RequestOK
  <2>3. Times(call)' /\ Call' = call /\ Part' = 1
    BY <2>1, <2>2, AskTimes
  <2>4. TodoOK'
    BY <1>4, <2>1, <2>3 DEF TodoOK, PathOps
  <2> QED
    BY <1>1, <1>4, <2>1, <2>3, <2>4, AskKeeps
<1>5. CASE \E kind \in {"unsupported", "failure"} : Answer(kind)
  BY <1>1, <1>5, PlainAnswer DEF HasOpened
<1> QED
  BY <1>3, <1>4, <1>5 DEF ProcessFile, Failure

LEMMA ProcessInvalidKeeps ==
    ASSUME SftpInv, [Next]_vars, ProcessInvalid
    PROVE  SftpInv'
<1>1. /\ pc = "process" /\ UNCHANGED <<handles, hacker, link, container, copies, history>>
      /\ FromHacker /\ \E kind \in {"odd", "invalid"} : Answer(kind)
  BY DEF ProcessInvalid, SftpInv, ThreadInv
<1> QED
  BY <1>1, PlainAnswer DEF HasOpened

\* The table loses a folder, or one of its folders moves on.
LEMMA ProcessFolderKeeps ==
    ASSUME SftpInv, [Next]_vars, ProcessFolder
    PROVE  SftpInv'
<1>1. /\ pc = "process" /\ UNCHANGED <<next, hacker, link, container, copies, history>>
      /\ FromHacker /\ req.handle \in Folders
  BY DEF ProcessFolder, SftpInv, ThreadInv
<1>2. PICK kind \in {"ok", "eof", "data"} : Answer(kind) /\ (kind = "ok" => req.op = "close")
                                            /\ req.op \in {"close", "readdir"}
  BY DEF ProcessFolder
<1>3. /\ pc' = "read" /\ told' = told
      /\ answers' = IF hacker THEN answers + 1 ELSE answers
  BY <1>2 DEF Answer, Counted
<1>4. \/ table' = table
      \/ table' = Without(req.handle)
      \/ table[req.handle].left > 0 /\ table' = [table EXCEPT ![req.handle].left = @ - 1]
  BY DEF ProcessFolder
<1>5. /\ DOMAIN table' \subseteq DOMAIN table /\ table' \in [DOMAIN table' -> Entry]
      /\ Files' = Files /\ \A h \in Files : table'[h] = table[h]
  <2>1. table \in [DOMAIN table -> Entry] /\ Folders \subseteq DOMAIN table /\ req.handle \notin Files
    BY <1>1 DEF SftpInv, TableOK, Folders
  <2>2. CASE table' = table
    BY <2>1, <2>2 DEF Files
  <2>3. CASE table' = Without(req.handle)
    BY <1>1, <2>1, <2>3 DEF Files, Without, Folders
  <2>4. CASE table[req.handle].left > 0 /\ table' = [table EXCEPT ![req.handle].left = @ - 1]
    <3>1. table[req.handle] \in Entry /\ req.handle \in DOMAIN table
      BY <1>1, <2>1
    <3>2. [table[req.handle] EXCEPT !.left = @ - 1] \in Entry
            /\ [table[req.handle] EXCEPT !.left = @ - 1].kind = table[req.handle].kind
      BY <3>1, <2>4 DEF Entry
    <3>3. table' = [table EXCEPT ![req.handle] = [table[req.handle] EXCEPT !.left = @ - 1]]
      BY <2>4
    <3> QED
      BY <2>1, <3>1, <3>2, <3>3 DEF Files
  <2> QED
    BY <1>4, <2>2, <2>3, <2>4
<1>6. RemoteFiles' = RemoteFiles
  BY <1>5 DEF RemoteFiles
<1>7. RequestOK' /\ CallsOK' /\ TakenSoFar' /\ ~HasOpened' /\ Closed' = {}
  BY <1>1, <1>2, AnswerEnds
<1>8. TableOK'
  BY <1>1, <1>3, <1>5 DEF SftpInv, TableOK
<1>9. HistoryOK' /\ CopyIsTaken' /\ OkMeansSaved'
  BY <1>1, <1>3 DEF SftpInv, HistoryOK, CopyIsTaken, OkMeansSaved
<1>10. OpenCopies'
  BY <1>1, <1>3, <1>5, <1>6 DEF SftpInv, OpenCopies
<1>11. Fresh'
  <2>1. hacker' => answers' = req.num
    BY <1>1, <1>3 DEF SftpInv, ThreadInv
  <2> QED
    BY <1>1, <1>3, <1>6, <2>1 DEF SftpInv, Fresh, RequestOK
<1>12. HandlesOK'
  <2>1. Opened' = {} /\ Opened = {} /\ Closed = {}
    BY <1>1, <1>7 DEF Opened, HasOpened, Closed
  <2> QED
    BY <1>1, <1>3, <1>6, <1>7, <2>1 DEF SftpInv, HandlesOK
<1>13. ThreadInv'
  BY EveryStep DEF SftpInv
<1> QED
  BY <1>7, <1>8, <1>9, <1>10, <1>11, <1>12, <1>13 DEF SftpInv

\* What the call at hand says of the request.
LEMMA CallAtHand ==
    ASSUME SftpInv, Asked
    PROVE  /\ TodoOK /\ todo # <<>>
           /\ Call \in {"open", "size"} => req.op = "open"
           /\ Call \in {"opendir", "readdir", "close"} => req.op = "opendir"
           /\ Call = "chattr" => req.op \in {"open", "setstat"}
           /\ Call = "write" => req.op = "write"
           /\ Call = "read" => req.op = "read"
           /\ Call = "hash" => req.op = "check"
           /\ Call = "path" => req.op \in PathOps \cup {"fstat"}
           /\ Call = "fclose" => req.op \in {"close", "finish"}
           /\ req.op \in {"close", "finish"} => Call = "fclose"
           /\ req.op = "write" => Call = "write"
           /\ req.num \in Requests \/ req.op = "finish"
<1>1. TodoOK
  BY DEF SftpInv, CallsOK
<1>2. todo # <<>> /\ Call \in CallsOf(req.op)
  BY <1>1, CallCases
<1>3. Call = "path" => req.op \in PathOps \cup {"fstat"}
  BY <1>1, <1>2 DEF TodoOK, CallsOf
<1>4. req.num \in Requests \/ req.op = "finish"
  BY DEF SftpInv, RequestOK
<1> QED
  BY <1>1, <1>2, <1>3, <1>4 DEF CallsOf

LEMMA CopyFailsKeeps ==
    ASSUME SftpInv, [Next]_vars, CopyFails
    PROVE  SftpInv'
<1>1. /\ pc = "call" /\ Call = "open" /\ Answer("failure")
      /\ UNCHANGED <<handles, hacker, link, container, copies, history>>
  BY DEF CopyFails, MakesCopy, Failure
<1>2. FromHacker
  BY <1>1, CallAtHand
<1> QED
  BY <1>1, <1>2, PlainAnswer DEF HasOpened, Opens

LEMMA SendKeeps ==
    ASSUME SftpInv, [Next]_vars, Send
    PROVE  SftpInv'
<1>1. /\ pc = "call" /\ UNCHANGED <<req, todo, handles, sent, hacker, link, container, history>>
      /\ IF link THEN pc' = "wait" /\ UNCHANGED reply ELSE pc' = "got" /\ reply' = "error"
  BY DEF Send
<1>2. \/ copies' = copies
      \/ MakesCopy /\ copies' = [copies EXCEPT ![req.num].state = "open"]
  BY DEF Send
<1>3. Files' = Files /\ RemoteFiles' = RemoteFiles
  BY <1>1 DEF Files, RemoteFiles
<1>4. Call' = Call /\ Part' = Part /\ TodoOK' = TodoOK
  BY <1>1 DEF TodoOK, Times, Call, Part
<1>5. RequestOK' /\ CallsOK' /\ TakenSoFar'
  BY <1>1, <1>3, <1>4 DEF SftpInv, RequestOK, CallsOK, TakenSoFar
<1>6. TableOK'
  BY <1>1, <1>3 DEF SftpInv, TableOK, Files
<1>7. ThreadInv' /\ HandlesOK'
  BY <1>1, <1>4, EveryStep, HandlesStay DEF SftpInv, HasOpened, Opens
<1>8. CASE copies' = copies
  <2>1. HistoryOK' /\ OpenCopies' /\ CopyIsTaken' /\ OkMeansSaved'
    BY <1>1, <1>8, DataStays
  <2>2. Fresh'
    BY <1>1, <1>3, <1>8 DEF SftpInv, Fresh
  <2> QED
    BY <1>5, <1>6, <1>7, <2>1, <2>2 DEF SftpInv
<1>9. CASE MakesCopy /\ copies' = [copies EXCEPT ![req.num].state = "open"]
  <2>1. FromHacker /\ req.num \in Requests /\ req.op = "open" /\ Copied(req.mode)
    BY <1>1, <1>9, CallAtHand DEF MakesCopy
  <2>2. /\ copies' \in [Requests -> [state : {"none", "open", "reported"},
                                     parts : SUBSET (Requests \X (1 .. MaxParts))]]
        /\ \A r \in Requests : copies'[r].parts = copies[r].parts
        /\ \A r \in Requests : r # req.num => copies'[r] = copies[r]
    BY <1>9, <2>1 DEF SftpInv, HistoryOK
  <2>3. HistoryOK'
    BY <1>1, <2>2 DEF SftpInv, HistoryOK
  <2>4. CopyIsTaken'
    BY <1>1, <2>2 DEF SftpInv, CopyIsTaken
  <2>5. OkMeansSaved'
    BY <1>1, <2>2 DEF SftpInv, OkMeansSaved
  <2>6. Fresh'
    BY <1>1, <1>3, <2>1, <2>2 DEF SftpInv, Fresh
  <2>7. OpenCopies'
    BY <1>1, <1>3, <2>1, <2>2 DEF SftpInv, OpenCopies, Fresh, HistoryOK, RemoteFiles, TableOK
  <2> QED
    BY <1>5, <1>6, <1>7, <2>3, <2>4, <2>5, <2>6, <2>7 DEF SftpInv
<1> QED
  BY <1>2, <1>8, <1>9

\* A reply says whether the container opened or closed something for it.
LEMMA RepliesKeeps ==
    ASSUME SftpInv, [Next]_vars, ContainerReplies
    PROVE  SftpInv'
<1>1. /\ pc = "wait" /\ pc' = "got" /\ link /\ reply' \in {"ok", "eof", "error"}
      /\ UNCHANGED <<req, todo, handles, sent, hacker, link, copies, history>>
  BY DEF ContainerReplies
<1>2. Files' = Files /\ RemoteFiles' = RemoteFiles
  BY <1>1 DEF Files, RemoteFiles
<1>3. Call' = Call /\ Part' = Part /\ TodoOK' = TodoOK
  BY <1>1 DEF TodoOK, Times, Call, Part
<1>4. /\ Opens /\ reply' = "ok" => remote' = remote \cup {req.num}
      /\ Call = "close" => remote' = remote \ {req.num}
      /\ Call = "fclose" => remote' = remote \ {table[req.handle].remote}
      /\ Call \notin {"close", "fclose"} /\ ~(Opens /\ reply' = "ok") => remote' = remote
  BY DEF ContainerReplies, Opens
<1>5. taken' = taken \cup (IF reply' = "ok" /\ Call = "write" THEN {<<req.num, Part>>} ELSE {})
  BY DEF ContainerReplies
<1>6. Opens => req.op \in {"open", "opendir"}
  BY <1>1, CallAtHand DEF Opens
<1>7. Call = "write" => Part \in 1 .. req.size /\ req.size \in 1 .. MaxParts /\ req.op = "write"
  <2>1. Call = "write" => Times("write") /\ req.op = "write" /\ req.size \in 1 .. MaxParts
    BY <1>1, CallAtHand DEF TodoOK, PathOps, SftpInv, RequestOK
  <2>2. Times("write") => Len(todo) \in Nat \ {0} /\ Len(todo) <= req.size
    BY TimesTail DEF Times
  <2> QED
    BY <2>1, <2>2 DEF Part
<1>8. RequestOK' /\ CallsOK'
  BY <1>1, <1>2, <1>3 DEF SftpInv, RequestOK, CallsOK
<1>9. TakenSoFar'
  BY <1>1, <1>3, <1>5, CallAtHand DEF SftpInv, TakenSoFar
<1>10. TableOK' /\ OpenCopies' /\ Fresh'
  BY <1>1, <1>2 DEF SftpInv, TableOK, OpenCopies, Fresh, Files
<1>11. taken' \subseteq Requests \X (1 .. MaxParts)
  BY <1>1, <1>5, <1>7, BoundsAssumption, CallAtHand DEF SftpInv, HistoryOK
<1>12. HistoryOK'
  BY <1>1, <1>4, <1>6, <1>11, CallAtHand DEF SftpInv, HistoryOK
<1>13. CopyIsTaken' /\ OkMeansSaved'
  BY <1>1, <1>5 DEF SftpInv, CopyIsTaken, OkMeansSaved
<1>14. HandlesOK'
  <2>1. CASE Opens /\ reply' = "ok"
    BY <1>1, <1>2, <1>3, <1>4, <2>1 DEF SftpInv, HandlesOK, Opened, Closed, HasOpened, Opens
  <2>2. CASE Opens /\ reply' # "ok"
    BY <1>1, <1>2, <1>3, <1>4, <2>2 DEF SftpInv, HandlesOK, Opened, Closed, HasOpened, Opens
  <2>3. CASE Call = "close"
    <3>1. req.num \notin RemoteFiles
      BY <1>1, <2>3, CallAtHand DEF SftpInv, Fresh
    <3> QED
      BY <1>1, <1>2, <1>3, <1>4, <2>3, <3>1
         DEF SftpInv, HandlesOK, Opened, Closed, HasOpened, Opens
  <2>4. CASE Call = "fclose"
    BY <1>1, <1>2, <1>3, <1>4, <2>4 DEF SftpInv, HandlesOK, Opened, Closed, HasOpened, Opens
  <2>5. CASE Call \notin {"open", "opendir", "close", "fclose"}
    BY <1>1, <1>2, <1>3, <1>4, <2>5 DEF SftpInv, HandlesOK, Opened, Closed, HasOpened, Opens
  <2> QED
    BY <2>1, <2>2, <2>3, <2>4, <2>5 DEF Opens
<1>15. ThreadInv'
  BY EveryStep DEF SftpInv
<1> QED
  BY <1>8, <1>9, <1>10, <1>12, <1>13, <1>14, <1>15 DEF SftpInv

LEMMA LinkFallsKeeps ==
    ASSUME SftpInv, [Next]_vars, LinkFalls
    PROVE  SftpInv'
<1>1. /\ ~link' /\ UNCHANGED <<req, todo, handles, sent, hacker, container, copies, history>>
      /\ \/ pc \in {"wait", "got"} /\ reply' = "dropped" /\ pc' = "got"
         \/ pc # "wait" /\ UNCHANGED <<pc, reply>>
  BY DEF LinkFalls
<1>2. Files' = Files /\ RemoteFiles' = RemoteFiles
  BY <1>1 DEF Files, RemoteFiles
<1>3. Call' = Call /\ Part' = Part /\ TodoOK' = TodoOK
  BY <1>1 DEF TodoOK, Times, Call, Part
<1>4. RequestOK' /\ CallsOK' /\ TakenSoFar'
  BY <1>1, <1>2, <1>3 DEF SftpInv, RequestOK, CallsOK, TakenSoFar, LinkFalls
<1>5. TableOK' /\ HistoryOK' /\ OpenCopies' /\ CopyIsTaken' /\ OkMeansSaved'
  BY <1>1, DataStays DEF SftpInv, TableOK
<1>6. Fresh'
  BY <1>1, <1>2 DEF SftpInv, Fresh
<1>7. HandlesOK' /\ ThreadInv'
  BY <1>1, EveryStep DEF SftpInv, HandlesOK
<1> QED
  BY <1>4, <1>5, <1>6, <1>7 DEF SftpInv

\* The next call for a request of the hacker.
LEMMA ContinueKeeps ==
    ASSUME SftpInv, [Next]_vars, FromHacker, pc = "got", pc' = "call", reply' = "none",
           UNCHANGED <<handles, sent, hacker, link, container, copies, history>>,
           TodoOK', req'.op = req.op, req'.num = req.num, req'.mode = req.mode,
           req'.handle = req.handle,
           req'.size = req.size \/ (req.op = "opendir" /\ req'.size = req.size + 1),
           link => (HasOpened' <=> HasOpened), Call # "fclose", Call' # "fclose",
           TakenSoFar'
    PROVE  SftpInv'
<1>1. Files' = Files /\ RemoteFiles' = RemoteFiles
  BY DEF Files, RemoteFiles
<1>2. RequestOK' /\ CallsOK'
  BY <1>1 DEF SftpInv, RequestOK, CallsOK
<1>3. TableOK' /\ HistoryOK' /\ OpenCopies' /\ CopyIsTaken' /\ OkMeansSaved'
  BY DataStays
<1>4. Fresh'
  BY <1>1 DEF SftpInv, Fresh
<1>5. HandlesOK'
  BY HandlesStay
<1>6. ThreadInv'
  BY EveryStep DEF SftpInv
<1> QED
  BY <1>2, <1>3, <1>4, <1>5, <1>6 DEF SftpInv

\* The container refuses, or is gone.
LEMMA RefusedKeeps ==
    ASSUME SftpInv, [Next]_vars, FromHacker, pc = "got", reply # "ok", Refused,
           UNCHANGED <<handles, copies, container, hacker, link, lost>>,
           abandoned \subseteq abandoned',
           Call = "readdir" /\ reply # "dropped" => req.num \in abandoned',
           Call \notin {"fclose", "size"}
    PROVE  SftpInv'
<1>1. PICK kind \in {"error", "failure"} : Answer(kind)
  BY DEF Refused, Failure
<1>2. link => reply # "dropped"
  BY DEF SftpInv, CallsOK
<1> QED
  BY <1>1, <1>2, PlainAnswer DEF HasOpened, Opens

LEMMA GotPathKeeps ==
    ASSUME SftpInv, [Next]_vars, GotPath
    PROVE  SftpInv'
<1>1. /\ pc = "got" /\ Call \in {"path", "chattr"} /\ FromHacker
      /\ UNCHANGED <<handles, hacker, link, container, copies, history>>
  BY CallAtHand DEF GotPath
<1>2. TodoOK /\ req.op \in PathOps \cup {"fstat", "open", "setstat"} /\ ~HasOpened
  BY <1>1, CallAtHand DEF HasOpened, Opens
<1>3. ASSUME NEW calls, Continue(calls)
      PROVE  pc' = "call" /\ todo' = calls /\ reply' = "none" /\ UNCHANGED <<req, sent>>
  BY <1>3 DEF Continue
<1>4. ASSUME pc' = "call", todo' = Tail(todo), Tail(todo) # <<>>, reply' = "none", UNCHANGED <<req, sent>>
      PROVE  SftpInv'
  <2>1. CASE req.op = "setstat"
    <3>1. Times("chattr") /\ req.size \in Nat
      BY <1>1, <1>2, <2>1 DEF TodoOK, PathOps, SftpInv, RequestOK
    <3>2. Times("chattr")'
      BY <1>4, <3>1, TimesTail DEF Times
    <3>3. TodoOK' /\ Call' = "chattr"
      BY <1>4, <2>1, <3>2, TimesTail DEF TodoOK, PathOps, Times, Call
    <3> QED
      BY <1>1, <1>2, <1>4, <2>1, <3>3, ContinueKeeps DEF HasOpened, Opens, TakenSoFar
  <2>2. CASE req.op = "open"
    <3>1. todo' \in {<<"open">>, <<"open", "size">>}
      <4>1. todo \in {<<"chattr", "open">>, <<"chattr", "open", "size">>, <<"open">>,
                      <<"open", "size">>, <<"size">>}
        BY <1>2, <2>2 DEF TodoOK, PathOps
      <4>2. todo \in {<<"chattr", "open">>, <<"chattr", "open", "size">>}
        BY <1>1, <4>1 DEF Call
      <4> QED
        BY <1>4, <4>2, Tails
    <3>2. TodoOK'
      BY <1>4, <2>2, <3>1 DEF TodoOK, PathOps
    <3>3. Call' = "open"
      BY <3>1 DEF Call
    <3> QED
      BY <1>1, <1>2, <1>4, <2>2, <3>2, <3>3, ContinueKeeps DEF HasOpened, Opens, TakenSoFar
  <2>3. req.op \in PathOps \cup {"fstat"} => todo = <<"path">>
    BY <1>2 DEF TodoOK, PathOps
  <2>4. req.op \notin PathOps \cup {"fstat"}
    BY <1>4, <2>3, Tails
  <2> QED
    BY <1>2, <2>1, <2>2, <2>4
<1>5. CASE reply = "ok" /\ Answer("ok")
  BY <1>1, <1>2, <1>5, PlainAnswer DEF PathOps
<1>6. CASE req.op = "open" /\ Continue(OpenCalls(req.mode, 0))
  <2>1. pc' = "call" /\ todo' = OpenCalls(req.mode, 0) /\ reply' = "none" /\ UNCHANGED <<req, sent>>
    BY <1>3, <1>6
  <2>2. todo' \in {<<"chattr", "open">>, <<"chattr", "open", "size">>, <<"open">>, <<"open", "size">>}
    BY <2>1, OpenLists
  <2>3. TodoOK' /\ Call' \in {"chattr", "open"}
    BY <1>6, <2>1, <2>2 DEF TodoOK, PathOps, Call
  <2> QED
    BY <1>1, <1>2, <1>6, <2>1, <2>3, ContinueKeeps DEF HasOpened, Opens, TakenSoFar
<1>7. CASE reply # "ok" /\ Refused
  BY <1>1, <1>7, RefusedKeeps
<1>8. CASE Tail(todo) # <<>> /\ Continue(Tail(todo))
  BY <1>3, <1>4, <1>8
<1> QED
  BY <1>5, <1>6, <1>7, <1>8 DEF GotPath

\* _send_handle_response for a file.
LEMMA FileKeeps ==
    ASSUME SftpInv, [Next]_vars, pc = "got", req.op = "open", Handle(File), link => HasOpened,
           UNCHANGED <<hacker, link, container, copies, history>>
    PROVE  SftpInv'
<1>1. /\ table' = [n \in DOMAIN table \cup {next} |-> IF n = next THEN File ELSE table[n]]
      /\ next' = next + 1 /\ Answer("handle") /\ FromHacker
  BY DEF Handle, NextHandle
<1>2. /\ pc' = "read" /\ told' = [told EXCEPT !.files = @ \cup {req.num}]
      /\ answers' = IF hacker THEN answers + 1 ELSE answers
  BY <1>1 DEF Answer, Counted
<1>3. req.num \in Requests /\ req.mode \in Modes
  BY <1>1 DEF SftpInv, RequestOK
<1>4. File \in Entry /\ File.kind = "file" /\ File.remote = req.num /\ File.mode = req.mode
  BY <1>3 DEF File, Entry
<1>5. next \notin DOMAIN table /\ next \in Nat \ {0}
  BY DEF SftpInv, TableOK
<1>6. Files' = Files \cup {next} /\ \A h \in Files : h # next /\ table'[h] = table[h]
  BY <1>1, <1>4, <1>5 DEF Files
<1>7. RemoteFiles' = RemoteFiles \cup {req.num}
  BY <1>1, <1>4, <1>6 DEF RemoteFiles
<1>8. req.num \notin RemoteFiles /\ req.num \notin told.files
  BY <1>1, <1>3 DEF SftpInv, Fresh
<1>9. told'.files = told.files \cup {req.num} /\ told'.parts = told.parts
        /\ told' \in [files : SUBSET Requests, parts : SUBSET (Requests \X (1 .. MaxParts))]
  BY <1>2, <1>3 DEF SftpInv, HistoryOK
<1>10. RequestOK' /\ CallsOK' /\ TakenSoFar' /\ ~HasOpened' /\ Closed' = {}
  BY <1>1, AnswerEnds
<1>11. TableOK'
  <2>1. next' \in Nat /\ DOMAIN table' \subseteq 1 .. next' - 1 /\ DOMAIN table' = DOMAIN table \cup {next}
    BY <1>1, <1>5 DEF SftpInv, TableOK
  <2>2. table' \in [DOMAIN table' -> Entry]
    BY <1>1, <1>4 DEF SftpInv, TableOK
  <2>3. \A h \in Files' : table'[h].remote \in Requests
    BY <1>1, <1>3, <1>4, <1>6 DEF SftpInv, TableOK
  <2>4. \A h1, h2 \in Files' : table'[h1].remote = table'[h2].remote => h1 = h2
    <3>1. \A h \in Files : table'[h].remote # req.num
      BY <1>6, <1>8 DEF RemoteFiles
    <3>2. table'[next].remote = req.num
      BY <1>1, <1>4
    <3> QED
      BY <1>6, <3>1, <3>2 DEF SftpInv, TableOK
  <2> QED
    BY <1>2, <2>1, <2>2, <2>3, <2>4 DEF TableOK
<1>12. HistoryOK' /\ CopyIsTaken' /\ OkMeansSaved'
  BY <1>9 DEF SftpInv, HistoryOK, CopyIsTaken, OkMeansSaved
<1>13. Fresh'
  <2>1. hacker' => answers' = req.num
    BY <1>1, <1>2 DEF SftpInv, ThreadInv
  <2> QED
    BY <1>1, <1>2, <1>3, <1>7, <1>9, <2>1 DEF SftpInv, Fresh
<1>14. OpenCopies'
  <2>1. \A r \in told'.files : copies'[r].state = "open" => r \in RemoteFiles'
    BY <1>7, <1>9 DEF SftpInv, OpenCopies
  <2>2. \A h \in Files' : copies'[table'[h].remote].state # "none" => Copied(table'[h].mode)
    <3>1. copies[req.num].state # "none" => Copied(req.mode)
      BY <1>1, <1>3 DEF SftpInv, Fresh
    <3>2. table'[next].remote = req.num /\ table'[next].mode = req.mode
      BY <1>1, <1>4
    <3> QED
      BY <1>6, <3>1, <3>2 DEF SftpInv, OpenCopies
  <2> QED
    BY <2>1, <2>2 DEF OpenCopies
<1>15. HandlesOK'
  <2>1. Opened' = {} /\ (link => Opened = {req.num} /\ Closed = {})
    BY <1>10, CallAtHand DEF Opened, Closed
  <2> QED
    BY <1>2, <1>7, <1>10, <2>1 DEF SftpInv, HandlesOK
<1>16. ThreadInv'
  BY EveryStep DEF SftpInv
<1> QED
  BY <1>10, <1>11, <1>12, <1>13, <1>14, <1>15, <1>16 DEF SftpInv

\* And for a folder.
LEMMA FolderKeeps ==
    ASSUME SftpInv, [Next]_vars, pc = "got", req.op = "opendir", Handle(Folder),
           link => ~HasOpened, UNCHANGED <<hacker, link, container, copies, history>>
    PROVE  SftpInv'
<1>1. /\ table' = [n \in DOMAIN table \cup {next} |-> IF n = next THEN Folder ELSE table[n]]
      /\ next' = next + 1 /\ Answer("handle") /\ FromHacker
  BY DEF Handle, NextHandle
<1>2. /\ pc' = "read" /\ told' = told
      /\ answers' = IF hacker THEN answers + 1 ELSE answers
  BY <1>1 DEF Answer, Counted
<1>3. Folder \in Entry /\ Folder.kind = "folder"
  BY DEF Folder, Entry, SftpInv, RequestOK, Modes
<1>4. next \notin DOMAIN table /\ next \in Nat \ {0}
  BY DEF SftpInv, TableOK
<1>5. Files' = Files /\ \A h \in Files : table'[h] = table[h]
  BY <1>1, <1>3, <1>4 DEF Files
<1>6. RemoteFiles' = RemoteFiles
  BY <1>5 DEF RemoteFiles
<1>7. RequestOK' /\ CallsOK' /\ TakenSoFar' /\ ~HasOpened' /\ Closed' = {}
  BY <1>1, AnswerEnds
<1>8. TableOK'
  <2>1. next' \in Nat /\ DOMAIN table' \subseteq 1 .. next' - 1 /\ DOMAIN table' = DOMAIN table \cup {next}
    BY <1>1, <1>4 DEF SftpInv, TableOK
  <2>2. table' \in [DOMAIN table' -> Entry]
    BY <1>1, <1>3 DEF SftpInv, TableOK
  <2> QED
    BY <1>2, <1>5, <2>1, <2>2 DEF SftpInv, TableOK
<1>9. HistoryOK' /\ CopyIsTaken' /\ OkMeansSaved'
  BY <1>2 DEF SftpInv, HistoryOK, CopyIsTaken, OkMeansSaved
<1>10. Fresh'
  <2>1. hacker' => answers' = req.num
    BY <1>1, <1>2 DEF SftpInv, ThreadInv
  <2> QED
    BY <1>1, <1>2, <1>6, <2>1 DEF SftpInv, Fresh, RequestOK
<1>11. OpenCopies'
  BY <1>2, <1>5, <1>6 DEF SftpInv, OpenCopies
<1>12. HandlesOK'
  <2>1. Opened' = {} /\ (link => Opened = {} /\ Closed = {})
    BY <1>1, <1>7, CallAtHand DEF Opened, Closed
  <2> QED
    BY <1>2, <1>6, <1>7, <2>1 DEF SftpInv, HandlesOK
<1>13. ThreadInv'
  BY EveryStep DEF SftpInv
<1> QED
  BY <1>7, <1>8, <1>9, <1>10, <1>11, <1>12, <1>13 DEF SftpInv

LEMMA GotOpenKeeps ==
    ASSUME SftpInv, [Next]_vars, GotOpen
    PROVE  SftpInv'
<1>1. /\ pc = "got" /\ Call \in {"open", "size"} /\ req.op = "open" /\ FromHacker
      /\ UNCHANGED <<hacker, link, container, copies, history>>
  BY CallAtHand DEF GotOpen
<1>2. CASE Call = "open" /\ reply # "ok" /\ Refused /\ UNCHANGED handles
  BY <1>1, <1>2, RefusedKeeps
<1>3. CASE Call = "open" /\ reply = "ok" /\ Continue(<<"size">>) /\ UNCHANGED handles
  <2>1. pc' = "call" /\ todo' = <<"size">> /\ reply' = "none" /\ UNCHANGED <<req, sent>>
    BY <1>3 DEF Continue
  <2>2. TodoOK' /\ Call' = "size"
    BY <1>1, <2>1 DEF TodoOK, PathOps, Call
  <2> QED
    BY <1>1, <1>3, <2>1, <2>2, ContinueKeeps DEF HasOpened, Opens, TakenSoFar
<1>4. CASE (Call = "size" \/ reply = "ok") /\ Handle(File)
  BY <1>1, <1>4, FileKeeps DEF HasOpened, Opens
<1> QED
  BY <1>2, <1>3, <1>4 DEF GotOpen

LEMMA GotListingKeeps ==
    ASSUME SftpInv, [Next]_vars, GotListing
    PROVE  SftpInv'
<1>1. /\ pc = "got" /\ Call \in {"opendir", "readdir", "close"} /\ req.op = "opendir" /\ FromHacker
      /\ UNCHANGED <<hacker, link, container, copies, lost>>
  BY CallAtHand DEF GotListing
<1>2. abandoned' = IF Call = "readdir" /\ reply \notin {"ok", "eof"}
                   THEN abandoned \cup {req.num} ELSE abandoned
  BY DEF GotListing
<1>3. todo \in {<<"opendir", "readdir", "close">>, <<"readdir", "close">>, <<"close">>}
  BY <1>1, CallAtHand DEF TodoOK, PathOps
<1>4. ASSUME NEW calls, Continue(calls)
      PROVE  pc' = "call" /\ todo' = calls /\ reply' = "none" /\ UNCHANGED <<req, sent>>
  BY <1>4 DEF Continue
<1>5. CASE Call = "opendir" /\ reply = "ok" /\ Continue(Tail(todo)) /\ UNCHANGED handles
  <2>1. todo = <<"opendir", "readdir", "close">>
    BY <1>3, <1>5 DEF Call
  <2>2. pc' = "call" /\ todo' = <<"readdir", "close">> /\ reply' = "none" /\ UNCHANGED <<req, sent>>
    BY <1>4, <1>5, <2>1, Tails
  <2>3. TodoOK' /\ Call' = "readdir"
    BY <1>1, <2>2 DEF TodoOK, PathOps, Call
  <2> QED
    BY <1>1, <1>2, <1>5, <2>2, <2>3, ContinueKeeps DEF HasOpened, Opens, TakenSoFar
<1>6. CASE /\ Call = "readdir" /\ reply = "ok"
           /\ req' = [req EXCEPT !.size = @ + 1]
           /\ pc' = "call" /\ reply' = "none" /\ UNCHANGED <<todo, sent, handles>>
  <2>1. /\ req'.op = req.op /\ req'.num = req.num /\ req'.mode = req.mode
        /\ req'.handle = req.handle /\ req'.size = req.size + 1
    BY <1>6 DEF SftpInv, ThreadInv, IsRequest
  <2>2. TodoOK'
    BY <1>1, <1>3, <1>6, <2>1 DEF TodoOK, PathOps
  <2>3. Call' = "readdir"
    BY <1>6 DEF Call
  <2> QED
    BY <1>1, <1>2, <1>6, <2>1, <2>2, <2>3, ContinueKeeps DEF HasOpened, Opens, TakenSoFar
<1>7. CASE Call = "readdir" /\ reply = "eof" /\ Continue(<<"close">>) /\ UNCHANGED handles
  <2>1. pc' = "call" /\ todo' = <<"close">> /\ reply' = "none" /\ UNCHANGED <<req, sent>>
    BY <1>4, <1>7
  <2>2. TodoOK' /\ Call' = "close"
    BY <1>1, <2>1 DEF TodoOK, PathOps, Call
  <2> QED
    BY <1>1, <1>2, <1>7, <2>1, <2>2, ContinueKeeps DEF HasOpened, Opens, TakenSoFar
<1>8. CASE Call = "close" /\ reply = "ok" /\ Handle(Folder)
  BY <1>1, <1>2, <1>8, FolderKeeps DEF HasOpened, Opens
<1>9. CASE reply # "ok" /\ ~(Call = "readdir" /\ reply = "eof") /\ Refused /\ UNCHANGED handles
  BY <1>1, <1>2, <1>9, RefusedKeeps
<1>10. AfterListing = <<"close">>
  BY DEF AfterListing
<1> QED
  BY <1>5, <1>6, <1>7, <1>8, <1>9, <1>10 DEF GotListing

LEMMA GotReadKeeps ==
    ASSUME SftpInv, [Next]_vars, GotRead \/ GotHash
    PROVE  SftpInv'
<1>1. /\ pc = "got" /\ Call \in {"read", "hash"} /\ FromHacker /\ req.op \in {"read", "check"}
      /\ UNCHANGED <<handles, hacker, link, container, copies, history>>
  BY CallAtHand DEF GotRead, GotHash
<1>2. ~HasOpened /\ Times(Call) /\ Call = (IF req.op = "check" THEN "hash" ELSE "read")
        /\ req.size \in Nat
  BY <1>1, CallAtHand DEF HasOpened, Opens, TodoOK, PathOps, SftpInv, RequestOK
<1>3. ASSUME todo' = todo \/ (todo' = Tail(todo) /\ Tail(todo) # <<>>),
             pc' = "call", reply' = "none", UNCHANGED <<req, sent>>
      PROVE  SftpInv'
  <2> DEFINE call == Call
  <2>1. todo' \in Seq({call}) /\ todo' # <<>> /\ Len(todo') <= req.size /\ Head(todo') = call
    BY <1>2, <1>3, TimesTail DEF Times
  <2>2. Call' = call /\ Times(call)'
    BY <1>3, <2>1 DEF Call, Times
  <2>3. TodoOK'
    BY <1>1, <1>2, <1>3, <2>2 DEF TodoOK, PathOps
  <2> QED
    BY <1>1, <1>2, <1>3, <2>2, <2>3, ContinueKeeps DEF HasOpened, Opens, TakenSoFar
<1>4. CASE \E kind \in {"data", "eof"} : Answer(kind)
  BY <1>1, <1>2, <1>4, PlainAnswer
<1>5. CASE reply \in {"error", "dropped"} /\ Refused
  BY <1>1, <1>5, RefusedKeeps
<1>6. CASE Tail(todo) # <<>> /\ Continue(Tail(todo))
  BY <1>3, <1>6 DEF Continue
<1>7. CASE Continue(todo)
  BY <1>3, <1>7 DEF Continue
<1> QED
  BY <1>4, <1>5, <1>6, <1>7 DEF GotRead, GotHash

LEMMA GotWriteKeeps ==
    ASSUME SftpInv, [Next]_vars, GotWrite
    PROVE  SftpInv'
<1>1. /\ pc = "got" /\ Call = "write" /\ req.op = "write" /\ FromHacker
      /\ UNCHANGED <<handles, hacker, link, container, history>>
  BY CallAtHand DEF GotWrite
<1>2. /\ ~HasOpened /\ Times("write") /\ req.size \in 1 .. MaxParts
      /\ req.handle \in Files /\ req.num \in Requests
  BY <1>1, CallAtHand DEF HasOpened, Opens, TodoOK, PathOps, SftpInv, RequestOK, FileOps
<1>3. /\ Head(todo) = "write" /\ Tail(todo) \in Seq({"write"})
      /\ Len(todo) \in Nat \ {0} /\ Len(Tail(todo)) = Len(todo) - 1
      /\ Tail(todo) = <<>> <=> Len(todo) = 1
  BY <1>2, TimesTail DEF Times
<1>4. CASE reply = "ok" /\ Tail(todo) # <<>> /\ Continue(Tail(todo)) /\ copies' = Saved
  <2>1. /\ pc' = "call" /\ todo' = Tail(todo) /\ reply' = "none" /\ UNCHANGED <<req, sent>>
        /\ copies' = copies
    BY <1>4 DEF Continue, Saved
  <2>2. Times("write")' /\ Part' = Part + 1 /\ Part \in Int
    BY <1>2, <1>3, <1>4, <2>1 DEF Times, Part
  <2>3. Call' = "write"
    BY <1>3, <1>4, <2>1, TimesTail DEF Call
  <2>4. TodoOK'
    BY <1>1, <2>1, <2>2 DEF TodoOK, PathOps
  <2>5. TakenSoFar'
    BY <1>1, <1>2, <1>4, <2>1, <2>2 DEF SftpInv, TakenSoFar
  <2> QED
    BY <1>1, <1>2, <2>1, <2>3, <2>4, <2>5, ContinueKeeps DEF HasOpened, Opens
<1>5. CASE Answer("error") /\ UNCHANGED copies
  BY <1>1, <1>2, <1>5, PlainAnswer
<1>6. CASE reply # "ok" /\ Refused /\ copies' = Saved
  BY <1>1, <1>6, RefusedKeeps DEF Saved
<1>7. CASE reply = "ok" /\ Tail(todo) = <<>> /\ Answer(Written) /\ copies' = Saved
  <2>1. CASE ~Copied(table[req.handle].mode)
    <3>1. Answer("failure") /\ copies' = copies
      BY <1>7, <2>1 DEF Written, Saved
    <3> QED
      BY <1>1, <1>2, <3>1, PlainAnswer
  <2>2. CASE Copied(table[req.handle].mode)
    <3> DEFINE r == table[req.handle].remote
    <3>1. r \in Requests
      BY <1>2 DEF SftpInv, TableOK
    <3>2. Answer("ok") /\ copies' = [copies EXCEPT ![r].parts = @ \cup Parts]
      BY <1>7, <2>2 DEF Written, Saved
    <3>3. /\ pc' = "read" /\ told' = [told EXCEPT !.parts = @ \cup Parts]
          /\ answers' = IF hacker THEN answers + 1 ELSE answers
      BY <1>1, <3>2 DEF Answer, Counted
    <3>4. Parts \subseteq taken
      BY <1>1, <1>2, <1>3, <1>7 DEF SftpInv, TakenSoFar, Parts, Part
    <3>5. Parts \subseteq Requests \X (1 .. MaxParts)
      BY <3>4 DEF SftpInv, HistoryOK
    <3>6. /\ copies' \in [Requests -> [state : {"none", "open", "reported"},
                                       parts : SUBSET (Requests \X (1 .. MaxParts))]]
          /\ \A q \in Requests : copies'[q].state = copies[q].state
          /\ \A q \in Requests : copies'[q].parts = copies[q].parts \cup (IF q = r THEN Parts ELSE {})
      BY <3>1, <3>2, <3>5 DEF SftpInv, HistoryOK
    <3>7. told'.files = told.files /\ told'.parts = told.parts \cup Parts
            /\ told' \in [files : SUBSET Requests, parts : SUBSET (Requests \X (1 .. MaxParts))]
      BY <3>3, <3>5 DEF SftpInv, HistoryOK
    <3>8. RequestOK' /\ CallsOK' /\ TakenSoFar' /\ ~HasOpened' /\ Closed' = {}
      BY <1>1, <3>2, AnswerEnds
    <3>9. Files' = Files /\ RemoteFiles' = RemoteFiles
      BY <1>1 DEF Files, RemoteFiles
    <3>10. TableOK' /\ HistoryOK'
      BY <1>1, <3>3, <3>6, <3>7, <3>9 DEF SftpInv, TableOK, HistoryOK
    <3>11. CopyIsTaken'
      BY <1>1, <3>4, <3>6 DEF SftpInv, CopyIsTaken
    <3>12. OkMeansSaved'
      <4>1. \A p \in Parts : p \in copies'[r].parts
        BY <3>1, <3>6
      <4>2. \A p : (\E q \in Requests : p \in copies[q].parts) =>
                      \E q \in Requests : p \in copies'[q].parts
        BY <3>6
      <4>3. \A p \in told'.parts : p \in UNION {copies'[q].parts : q \in Requests}
        BY <3>1, <3>7, <4>1, <4>2 DEF SftpInv, OkMeansSaved
      <4>4. told'.parts \subseteq taken'
        BY <1>1, <3>4, <3>7 DEF SftpInv, OkMeansSaved
      <4> QED
        BY <4>3, <4>4 DEF OkMeansSaved
    <3>13. OpenCopies'
      BY <1>1, <3>6, <3>7, <3>9 DEF SftpInv, OpenCopies, HistoryOK, TableOK
    <3>14. Fresh'
      <4>1. hacker' => answers' = req.num
        BY <1>1, <3>3 DEF SftpInv, ThreadInv
      <4> QED
        BY <1>1, <1>2, <3>3, <3>6, <3>7, <3>9, <4>1 DEF SftpInv, Fresh
    <3>15. HandlesOK'
      <4>1. Opened' = {} /\ Opened = {} /\ Closed = {}
        BY <1>1, <1>2, <3>8 DEF Opened, Closed
      <4> QED
        BY <1>1, <3>3, <3>8, <3>9, <4>1 DEF SftpInv, HandlesOK
    <3>16. ThreadInv'
      BY EveryStep DEF SftpInv
    <3> QED
      BY <3>8, <3>10, <3>11, <3>12, <3>13, <3>14, <3>15, <3>16 DEF SftpInv
  <2> QED
    BY <2>1, <2>2
<1> QED
  BY <1>4, <1>5, <1>6, <1>7 DEF GotWrite

LEMMA GotCloseKeeps ==
    ASSUME SftpInv, [Next]_vars, GotClose
    PROVE  SftpInv'
<1>1. /\ pc = "got" /\ Call = "fclose" /\ req.op \in {"close", "finish"} /\ req.handle \in Files
      /\ UNCHANGED <<next, hacker, link, container, abandoned>>
  BY CallAtHand DEF GotClose, SftpInv, RequestOK, FileOps
<1>2. ~HasOpened
  BY <1>1 DEF HasOpened, Opens
<1>3. CASE reply = "dropped" /\ req.op = "close" /\ Answer("failure") /\ UNCHANGED <<table, copies, lost>>
  <2>1. ~link
    BY <1>3 DEF SftpInv, CallsOK
  <2> QED
    BY <1>1, <1>2, <1>3, <2>1, PlainAnswer
<1>4. CASE /\ reply = "dropped" /\ pc' = "ended" /\ lost'
           /\ UNCHANGED <<table, copies, req, todo, reply, sent>>
  <2>1. Files' = Files /\ RemoteFiles' = RemoteFiles
    BY <1>4 DEF Files, RemoteFiles
  <2>2. RequestOK' /\ TakenSoFar' /\ HandlesOK' /\ CallsOK'
    BY <1>1, <1>4 DEF SftpInv, RequestOK, TakenSoFar, HandlesOK, CallsOK
  <2>3. TableOK' /\ HistoryOK' /\ OpenCopies' /\ CopyIsTaken' /\ OkMeansSaved'
    BY <1>1, <1>4, DataStays
  <2>4. Fresh' /\ ThreadInv'
    BY <1>4, EveryStep DEF SftpInv, Fresh
  <2> QED
    BY <2>2, <2>3, <2>4 DEF SftpInv
<1>5. CASE /\ reply # "dropped" /\ table' = Without(req.handle) /\ copies' = Reported(req.handle)
           /\ UNCHANGED lost
           /\ IF req.op = "close" THEN Answer("ok")
              ELSE /\ pc' = "finish" /\ req' = NoRequest /\ todo' = <<>> /\ reply' = "none"
                   /\ UNCHANGED sent
  <2> DEFINE r == table[req.handle].remote
  <2>1. r \in Requests /\ r \in RemoteFiles
    BY <1>1 DEF SftpInv, TableOK, RemoteFiles
  <2>2. /\ pc' \in {"read", "finish"} /\ told' = told /\ reply' = "none"
        /\ req.op = "close" => pc' = "read" /\ answers' = (IF hacker THEN answers + 1 ELSE answers)
        /\ req.op = "finish" => pc' = "finish"
    BY <1>1, <1>5 DEF Answer, Counted
  <2>3. /\ DOMAIN table' \subseteq DOMAIN table /\ table' \in [DOMAIN table' -> Entry]
        /\ Files' = Files \ {req.handle} /\ \A h \in Files' : table'[h] = table[h]
    BY <1>1, <1>5 DEF SftpInv, TableOK, Files, Without
  <2>4. RemoteFiles' = RemoteFiles \ {r}
    BY <1>1, <2>3 DEF SftpInv, TableOK, RemoteFiles
  <2>5. /\ copies' \in [Requests -> [state : {"none", "open", "reported"},
                                     parts : SUBSET (Requests \X (1 .. MaxParts))]]
        /\ \A q \in Requests : copies'[q].parts = copies[q].parts
        /\ \A q \in Requests : q # r => copies'[q] = copies[q]
        /\ copies'[r].state # "open"
    <3>1. CASE Copied(table[req.handle].mode)
      BY <1>5, <2>1, <3>1 DEF Reported, Mode, SftpInv, HistoryOK
    <3>2. CASE ~Copied(table[req.handle].mode)
      <4>1. copies' = copies
        BY <1>5, <3>2 DEF Reported, Mode
      <4> QED
        BY <1>1, <3>2, <4>1 DEF SftpInv, HistoryOK, OpenCopies
    <3> QED
      BY <3>1, <3>2
  <2>6. RequestOK' /\ CallsOK' /\ TakenSoFar' /\ ~HasOpened' /\ Closed' = {}
    BY <1>1, <2>2 DEF SftpInv, RequestOK, CallsOK, TakenSoFar, HasOpened, Closed
  <2>7. TableOK'
    BY <1>1, <2>2, <2>3 DEF SftpInv, TableOK
  <2>8. HistoryOK' /\ CopyIsTaken' /\ OkMeansSaved'
    BY <1>1, <2>2, <2>5 DEF SftpInv, HistoryOK, CopyIsTaken, OkMeansSaved
  <2>9. OpenCopies'
    <3>1. \A q \in told.files : copies'[q].state = "open" => q \in RemoteFiles'
      BY <2>4, <2>5 DEF SftpInv, OpenCopies, HistoryOK
    <3>2. \A h \in Files' : table[h].remote \in Requests /\ table[h].remote # r
      BY <1>1, <2>3 DEF SftpInv, TableOK
    <3>3. \A h \in Files' : copies'[table'[h].remote].state # "none" => Copied(table'[h].mode)
      BY <2>3, <2>5, <3>2 DEF SftpInv, OpenCopies
    <3> QED
      BY <2>2, <3>1, <3>3 DEF OpenCopies
  <2>10. Fresh'
    <3>1. pc' = "read" /\ hacker' => answers' = req.num /\ FromHacker
      BY <1>1, <2>2 DEF SftpInv, ThreadInv
    <3>2. FromHacker => r < req.num
      BY <2>1 DEF SftpInv, Fresh, ThreadInv
    <3>3. CASE pc' = "read" /\ hacker'
      <4>1. \A q \in Requests : q > answers' =>
               q \notin RemoteFiles' /\ q \notin told'.files /\ copies'[q].state = "none"
        <5>1. answers' = req.num /\ FromHacker /\ req.num \in Nat
          BY <3>1, <3>3 DEF SftpInv, ThreadInv
        <5>2. \A q \in Requests : q > req.num => q \notin RemoteFiles /\ q \notin told.files
                                                  /\ copies[q].state = "none" /\ q # r
          BY <2>1, <3>2, <5>1 DEF SftpInv, Fresh
        <5> QED
          BY <2>1, <2>2, <2>4, <2>5, <5>1, <5>2
      <4> QED
        BY <3>3, <4>1 DEF Fresh
    <3> QED
      BY <2>2, <3>3 DEF Fresh
  <2>11. HandlesOK'
    <3>1. Opened' = {} /\ Opened = {} /\ Closed = {r}
      BY <1>1, <1>2, <2>6 DEF Opened, Closed
    <3> QED
      BY <1>1, <2>2, <2>4, <2>6, <3>1 DEF SftpInv, HandlesOK
  <2>12. ThreadInv'
    BY EveryStep DEF SftpInv
  <2> QED
    BY <2>6, <2>7, <2>8, <2>9, <2>10, <2>11, <2>12 DEF SftpInv
<1> QED
  BY <1>1, <1>3, <1>4, <1>5 DEF GotClose, Failure

-----------------------------------------------------------------------------
LEMMA SftpStays ==
    ASSUME SftpInv, [Next]_vars
    PROVE  SftpInv'
<1>1. CASE UNCHANGED vars
  <2>1. UNCHANGED <<server, handles, sent, hacker, link, container, copies, history>>
    BY <1>1 DEF vars
  <2>2. Files' = Files /\ RemoteFiles' = RemoteFiles
    BY <2>1 DEF Files, RemoteFiles
  <2>3. TodoOK' = TodoOK /\ Call' = Call /\ Part' = Part
    BY <2>1 DEF TodoOK, Times, Call, Part
  <2>4. RequestOK' /\ CallsOK' /\ TakenSoFar' /\ Fresh'
    BY <2>1, <2>2, <2>3 DEF SftpInv, RequestOK, CallsOK, TakenSoFar, Fresh
  <2>5. TableOK' /\ HistoryOK' /\ OpenCopies' /\ CopyIsTaken' /\ OkMeansSaved'
    BY <2>1, DataStays DEF SftpInv, TableOK
  <2>6. HandlesOK' /\ ThreadInv'
    BY <2>1, <2>3, HandlesStay, EveryStep DEF HasOpened, Opens, SftpInv
  <2> QED
    BY <2>4, <2>5, <2>6 DEF SftpInv
<1>2. CASE Thread
  BY <1>2, SessionKeeps, ProcessKeeps, ProcessFileKeeps, ProcessFolderKeeps, ProcessInvalidKeeps,
     CopyFailsKeeps, SendKeeps, GotPathKeeps, GotOpenKeeps, GotListingKeeps, GotReadKeeps,
     GotWriteKeeps, GotCloseKeeps DEF Thread, Got
<1> QED
  BY <1>1, <1>2, TakeKeeps, RepliesKeeps, LeavingKeeps, LinkFallsKeeps DEF Next

LEMMA SftpStarts == Init => SftpInv
<1> SUFFICES ASSUME Init PROVE SftpInv
  OBVIOUS
<1>1. Files = {} /\ RemoteFiles = {} /\ DOMAIN table = {}
  BY DEF Init, Files, RemoteFiles
<1>2. ThreadInv /\ RequestOK /\ CallsOK /\ TakenSoFar
  BY DEF Init, ThreadInv, IsRequest, NoRequest, RequestOK, CallsOK, TakenSoFar
<1>3. TableOK /\ HistoryOK
  BY <1>1 DEF Init, TableOK, HistoryOK
<1>4. Fresh /\ OpenCopies /\ CopyIsTaken /\ OkMeansSaved
  BY <1>1 DEF Init, Fresh, OpenCopies, CopyIsTaken, OkMeansSaved
<1>5. HandlesOK
  BY <1>1 DEF Init, HandlesOK, Opened, HasOpened
<1> QED
  BY <1>2, <1>3, <1>4, <1>5 DEF SftpInv

LEMMA SftpSuffices ==
    ASSUME SftpInv
    PROVE  CopySound /\ RemoteAccounted
<1>1. TypeOK
  <2>1. Asked => todo # <<>> /\ Call \in CallsOf(req.op)
    BY CallCases DEF SftpInv, CallsOK
  <2> QED
    BY <2>1 DEF TypeOK, SftpInv, CallsOK, TableOK, HistoryOK
<1>2. UploadsReported
  BY DEF UploadsReported, SftpInv, TableOK, OpenCopies, RemoteFiles
<1>3. RemoteAccounted
  <2>1. pc = "read" => Opened = {} /\ Closed = {}
    BY DEF Opened, HasOpened, Closed
  <2> QED
    BY <2>1 DEF RemoteAccounted, SftpInv, HandlesOK, RemoteFiles
<1> QED
  BY <1>1, <1>2, <1>3 DEF CopySound, SftpInv

(* The copy that wetland keeps of an upload holds nothing the container has not *)
(* taken, everything that was acknowledged, and is reported by the end of the   *)
(* session (sftp_server.write, stat_close, SFTPServer.finish_subsystem).        *)
THEOREM CopiesAreSound == Spec => []CopySound
<1> QED
  BY SftpStarts, SftpStays, SftpSuffices, PTL DEF Spec

(* Between requests the handles that are open in the container are those of the *)
(* hacker's open files and of listings that failed half-way.                    *)
THEOREM HandlesAccounted == Spec => []RemoteAccounted
<1> QED
  BY SftpStarts, SftpStays, SftpSuffices, PTL DEF Spec
=============================================================================
