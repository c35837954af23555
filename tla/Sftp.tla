-------------------------------- MODULE Sftp --------------------------------

(********************************************************************************)
(* The SFTP proxy: the thread of one SFTPServer of the hacker's connection, the *)
(* interface sftp_server of wetland behind it, and the SFTPClient that forwards *)
(* every operation to the container's own SFTP server.  An upload is written to *)
(* the container's file and to a copy that wetland keeps.  Requests are worked  *)
(* off one by one, so a request that waits in the hacker's channel is the next  *)
(* one taken.                                                                   *)
(********************************************************************************)
EXTENDS Naturals, Sequences, FiniteSets

CONSTANTS
    MaxRequests,   \* bound on the requests of the hacker
    MaxParts,      \* a write and a read take up to so many requests of 32768 bytes
    MaxBatches,    \* a folder has up to so many batches of 16 entries
    Ops            \* the requests the hacker makes

Modes == {"r", "w", "a", "rw"}
\* Requests by path that sftp_server forwards as one request.
PathOps == {"remove", "rename", "mkdir", "rmdir", "stat", "lstat", "readlink"}
HandleOps == {"close", "read", "write", "readdir", "fstat", "fsetstat", "check"}
AllOps == PathOps \cup HandleOps \cup {"open", "opendir", "setstat", "symlink", "other"}

ASSUME BoundsAssumption == MaxRequests \in Nat /\ MaxParts \in Nat \ {0} /\ MaxBatches \in Nat
ASSUME OpsAssumption == Ops \subseteq AllOps

Requests == 1 .. MaxRequests
None == 0

VARIABLES
    pc,        \* the thread: where it is
    req,       \* the request at hand: [num, op, handle, mode, size]
    todo,      \* requests to the container that are left for it
    reply,     \* the container's reply to the first of them
    table,     \* file_table and folder_table: handle -> what it stands for
    next,      \* next_handle
    answers,   \* number of answers sent
    told,      \* history: the open requests answered with a handle, and the parts of
               \*   writes answered with success
    hacker,    \* the hacker's channel is open
    link,      \* the container's channel is open
    remote,    \* the container's handles that are open, by the request that opened them
    taken,     \* parts of writes that the container has taken: <<copy, part>>
    copies,    \* the copy made for an open request: state and parts
    abandoned, \* history: handles of listings that failed half-way
    lost       \* history: the link fell while finish_subsystem waited for a close

server == <<pc, req, todo, reply>>
handles == <<table, next>>
container == <<remote, taken>>
history == <<abandoned, lost>>
sent == <<answers, told>>
vars == <<server, handles, sent, hacker, link, container, copies, history>>

NoRequest == [num |-> 0, op |-> "none", handle |-> None, mode |-> "r", size |-> 0]

Init ==
    /\ pc = "connect" /\ req = NoRequest /\ todo = <<>> /\ reply = "none"
    /\ table = [n \in {} |-> NoRequest] /\ next = 1
    /\ answers = 0 /\ told = [files |-> {}, parts |-> {}]
    /\ hacker = TRUE /\ link = TRUE
    /\ remote = {} /\ taken = {}
    /\ copies = [r \in Requests |-> [state |-> "none", parts |-> {}]]
    /\ abandoned = {} /\ lost = FALSE

(****************************************************************************)
(* Answers.                                                                 *)
(****************************************************************************)
Parts == {<<req.num, i>> : i \in 1 .. req.size}

\* Mutant: the failure of an answered request is answered too.
CountedTwice == answers + 2

Counted == answers + 1

\* A send to a hacker who is gone raises, twice, and nobody minds.
Answer(kind) ==
    /\ answers' = IF hacker THEN Counted ELSE answers
    /\ told' = CASE kind = "handle" /\ req.op = "open" -> [told EXCEPT !.files = @ \cup {req.num}]
                 [] kind = "ok" /\ req.op = "write" -> [told EXCEPT !.parts = @ \cup Parts]
                 [] OTHER -> told
    /\ pc' = "read" /\ req' = NoRequest /\ todo' = <<>> /\ reply' = "none"

\* start_subsystem catches whatever _process raises.
Failure == Answer("failure")

\* _convert_status raises EOFError for EOF and IOError for every other bad
\* status; sftp_server catches IOError.  A channel that ends while a reply is
\* awaited is an SSHException.
Refused == IF reply = "error" THEN Answer("error") ELSE Failure

(****************************************************************************)
(* The session's start and end.                                             *)
(****************************************************************************)
\* SFTPServer.__init__ opens the container's session, in the hacker's transport
\* thread.
Connect ==
    /\ pc = "connect"
    /\ \/ link /\ pc' = "version"
       \/ pc' = "ended"
    /\ UNCHANGED <<req, todo, reply, handles, sent, hacker, link, container, copies, history>>

\* Anything but INIT ends the thread.
SendServerVersion ==
    /\ pc = "version"
    /\ \/ hacker /\ pc' = "read"
       \/ pc' = "finish"
    /\ UNCHANGED <<req, todo, reply, handles, sent, hacker, link, container, copies, history>>

Files == {n \in DOMAIN table : table[n].kind = "file"}
Folders == DOMAIN table \ Files

\* Mutant: an empty recv is not taken for the end.
SeesEofNever == FALSE

\* EOF in _read_packet.
SeesEof == ~hacker

EndOfSession ==
    /\ pc = "read" /\ SeesEof
    /\ pc' = "finish"
    /\ UNCHANGED <<req, todo, reply, handles, sent, hacker, link, container, copies, history>>

\* finish_subsystem closes the files that were left open.
FinishSubsystem ==
    /\ pc = "finish"
    /\ IF Files = {} THEN pc' = "ended" /\ UNCHANGED <<req, todo>>
       ELSE \E h \in Files :
               /\ pc' = "call" /\ todo' = <<"fclose">>
               /\ req' = [NoRequest EXCEPT !.op = "finish", !.handle = h]
    /\ UNCHANGED <<reply, handles, sent, hacker, link, container, copies, history>>

HackerLeaves ==
    /\ hacker /\ hacker' = FALSE
    /\ UNCHANGED <<server, handles, sent, link, container, copies, history>>

(****************************************************************************)
(* _process, up to the first request to the container.                      *)
(****************************************************************************)
Repeat(call, n) == [i \in 1 .. n |-> call]

Writes(mode) == mode # "r"
Reads(mode) == mode \in {"r", "rw"}
\* O_WRONLY
Copied(mode) == mode \in {"w", "a"}

\* chattr sends a request for every attribute given; an SFTPFile in append mode
\* asks for its size.
OpenCalls(mode, size) ==
    Repeat("chattr", size) \o <<"open">> \o (IF mode = "a" THEN <<"size">> ELSE <<>>)

Inputs ==
    [op : PathOps \cup {"opendir", "symlink", "other"}, handle : {None}, mode : {"r"}, size : {0}]
        \cup [op : HandleOps, handle : 0 .. next - 1, mode : {"r"}, size : 1 .. MaxParts]
        \cup [op : {"open"}, handle : {None}, mode : Modes, size : 0 .. 1]
        \cup [op : {"setstat"}, handle : {None}, mode : {"r"}, size : 0 .. 2]

Sized == {"open", "setstat", "read", "write", "check"}

Take ==
    /\ pc = "read" /\ hacker /\ answers < MaxRequests
    /\ \E i \in Inputs :
          /\ i.op \in Ops /\ (i.op \in Sized \/ i.size <= 1)
          /\ req' = [num |-> answers + 1, op |-> i.op, handle |-> i.handle,
                     mode |-> i.mode, size |-> IF i.op \in Sized THEN i.size ELSE 0]
    /\ pc' = "process"
    /\ UNCHANGED <<todo, reply, handles, sent, hacker, link, container, copies, history>>

Ask(calls) == pc' = "call" /\ todo' = calls /\ UNCHANGED <<req, reply, sent>>

Process ==
    /\ pc = "process"
    /\ \/ req.op \in PathOps /\ Ask(<<"path">>)
       \/ req.op = "setstat" /\ req.size > 0 /\ Ask(Repeat("chattr", req.size))
       \/ req.op = "setstat" /\ req.size = 0 /\ Answer("ok")
       \/ req.op = "open" /\ Ask(OpenCalls(req.mode, req.size))
       \/ req.op = "opendir" /\ Ask(<<"opendir", "readdir", "close">>)
       \/ req.op = "other" /\ Answer("ok")      \* REALPATH, and what is not supported
       \/ req.op = "symlink" /\ Failure         \* join takes one argument
    /\ UNCHANGED <<handles, hacker, link, container, copies, history>>

ProcessFile ==
    /\ pc = "process" /\ req.handle \in Files
    /\ LET mode == table[req.handle].mode
       IN  \/ req.op = "fstat" /\ Ask(<<"path">>)
           \/ req.op = "close" /\ Ask(<<"fclose">>)
           \/ req.op = "read" /\ Reads(mode) /\ Ask(Repeat("read", req.size))
           \/ req.op = "check" /\ Reads(mode) /\ Ask(Repeat("hash", req.size))
           \/ req.op = "write" /\ Writes(mode) /\ Ask(Repeat("write", req.size))
           \/ req.op \in {"read", "check"} /\ ~Reads(mode) /\ Answer("unsupported")
           \/ req.op = "write" /\ ~Writes(mode) /\ Answer("unsupported")
           \/ req.op = "fsetstat" /\ Failure    \* an SFTPFile has no chattr
    /\ UNCHANGED <<handles, hacker, link, container, copies, history>>

Without(h) == [n \in DOMAIN table \ {h} |-> table[n]]

ProcessFolder ==
    /\ pc = "process" /\ req.handle \in Folders
    /\ \/ /\ req.op = "close" /\ Answer("ok")
          /\ table' = Without(req.handle)
       \/ /\ req.op = "readdir" /\ table[req.handle].left = 0 /\ Answer("eof")
          /\ UNCHANGED table
       \/ /\ req.op = "readdir" /\ table[req.handle].left > 0 /\ Answer("data")
          /\ table' = [table EXCEPT ![req.handle].left = @ - 1]
    /\ UNCHANGED <<next, hacker, link, container, copies, history>>

\* 'Invalid handle', which FSETSTAT does not send as a status.
ProcessInvalid ==
    /\ pc = "process" /\ req.op \in HandleOps
    /\ req.handle \notin CASE req.op = "close" -> DOMAIN table
                           [] req.op = "readdir" -> Folders
                           [] OTHER -> Files
    /\ Answer(IF req.op = "fsetstat" THEN "odd" ELSE "invalid")
    /\ UNCHANGED <<handles, hacker, link, container, copies, history>>

(****************************************************************************)
(* A request to the container.                                              *)
(****************************************************************************)
Call == Head(todo)

\* The copy is made just before the container's file is opened, and its folder
\* may not be writable.
MakesCopy == Call = "open" /\ Copied(req.mode)

CopyFails ==
    /\ pc = "call" /\ MakesCopy
    /\ Failure
    /\ UNCHANGED <<handles, hacker, link, container, copies, history>>

\* A send on a closed channel raises socket.error, which is an IOError.
Send ==
    /\ pc = "call"
    /\ copies' = IF MakesCopy THEN [copies EXCEPT ![req.num].state = "open"] ELSE copies
    /\ IF link THEN pc' = "wait" /\ UNCHANGED reply ELSE pc' = "got" /\ reply' = "error"
    /\ UNCHANGED <<req, todo, handles, sent, hacker, link, container, history>>

Part == req.size - Len(todo) + 1

Opens == Call \in {"open", "opendir"}

\* The container's server works the request off and replies.
ContainerReplies ==
    /\ pc = "wait" /\ link
    /\ \E r \in {"ok", "eof", "error"} :
          /\ Call = "readdir" /\ req.size = MaxBatches => r # "ok"
          /\ reply' = r
          /\ remote' = CASE r = "ok" /\ Opens  -> remote \cup {req.num}
                         [] Call = "close"  -> remote \ {req.num}
                         [] Call = "fclose" -> remote \ {table[req.handle].remote}
                         [] OTHER -> remote
          /\ taken' = IF r = "ok" /\ Call = "write" THEN taken \cup {<<req.num, Part>>} ELSE taken
    /\ pc' = "got"
    /\ UNCHANGED <<req, todo, handles, sent, hacker, link, copies, history>>

\* A reply that is under way may be lost with the channel.
LinkFalls ==
    /\ link /\ link' = FALSE
    /\ \/ pc = "wait" /\ reply' = "dropped" /\ pc' = "got"
       \/ pc = "got" /\ reply' = "dropped" /\ UNCHANGED pc
       \/ pc # "wait" /\ UNCHANGED <<pc, reply>>
    /\ UNCHANGED <<req, todo, handles, sent, hacker, container, copies, history>>

(****************************************************************************)
(* What the thread does with the reply.                                     *)
(****************************************************************************)
\* The next request to the container.
Continue(calls) ==
    pc' = "call" /\ todo' = calls /\ reply' = "none" /\ UNCHANGED <<req, sent>>

\* Mutant: every handle is called the same.
NextHandleStuck == next

NextHandle == next + 1

\* _send_handle_response
Handle(entry) ==
    /\ table' = [n \in DOMAIN table \cup {next} |-> IF n = next THEN entry ELSE table[n]]
    /\ next' = NextHandle
    /\ Answer("handle")

\* A forwarded request; chattr stops at the first that is refused, and the
\* result of the one in open is not looked at.
GotPath ==
    /\ pc = "got" /\ Call \in {"path", "chattr"}
    /\ \/ reply = "ok" /\ Tail(todo) # <<>> /\ Continue(Tail(todo))
       \/ reply = "ok" /\ Tail(todo) = <<>> /\ Answer("ok")
       \/ reply = "error" /\ req.op = "open" /\ Continue(OpenCalls(req.mode, 0))
       \/ reply # "ok" /\ ~(reply = "error" /\ req.op = "open") /\ Refused
    /\ UNCHANGED <<handles, hacker, link, container, copies, history>>

File == [kind |-> "file", mode |-> req.mode, remote |-> req.num, left |-> 0]

GotOpen ==
    /\ pc = "got" /\ Call \in {"open", "size"}
    /\ \/ Call = "open" /\ reply # "ok" /\ Refused /\ UNCHANGED handles
       \/ Call = "open" /\ reply = "ok" /\ req.mode = "a" /\ Continue(<<"size">>)
          /\ UNCHANGED handles
       \/ Call = "open" /\ reply = "ok" /\ req.mode # "a" /\ Handle(File)
       \/ Call = "size" /\ Handle(File)       \* whatever the reply is
    /\ UNCHANGED <<hacker, link, container, copies, history>>

\* Mutant: the container's handle of a listing is not closed.
AfterListingLeft == <<>>

\* Mutant: the end of the folder is not noticed.
AfterListingAgain == <<"readdir", "close">>

AfterListing == <<"close">>

Folder == [kind |-> "folder", mode |-> "r", remote |-> None, left |-> req.size]

\* listdir_attr: an EOF ends the listing, and any other failure leaves its handle
\* open.
GotListing ==
    /\ pc = "got" /\ Call \in {"opendir", "readdir", "close"}
    /\ abandoned' = IF Call = "readdir" /\ reply \notin {"ok", "eof"}
                    THEN abandoned \cup {req.num} ELSE abandoned
    /\ \/ Call = "opendir" /\ reply = "ok" /\ Continue(Tail(todo)) /\ UNCHANGED handles
       \/ /\ Call = "readdir" /\ reply = "ok"
          /\ req' = [req EXCEPT !.size = @ + 1]
          /\ pc' = "call" /\ reply' = "none" /\ UNCHANGED <<todo, sent, handles>>
       \/ /\ Call = "readdir" /\ reply = "eof"
          /\ IF AfterListing = <<>> THEN Handle(Folder)
             ELSE Continue(AfterListing) /\ UNCHANGED handles
       \/ Call = "close" /\ reply = "ok" /\ Handle(Folder)
       \/ reply # "ok" /\ ~(Call = "readdir" /\ reply = "eof") /\ Refused /\ UNCHANGED handles
    /\ UNCHANGED <<hacker, link, container, copies, lost>>

\* BufferedFile.read takes EOF for the end of what there is.
GotRead ==
    /\ pc = "got" /\ Call = "read"
    /\ \/ reply = "ok" /\ Tail(todo) # <<>> /\ Continue(Tail(todo))
       \/ reply = "ok" /\ Tail(todo) = <<>> /\ Answer("data")
       \/ reply = "eof" /\ Answer(IF Len(todo) = req.size THEN "eof" ELSE "data")
       \/ reply \in {"error", "dropped"} /\ Refused
    /\ UNCHANGED <<handles, hacker, link, container, copies, history>>

\* _check_file counts what it has read, and reads again when that was nothing.
GotHash ==
    /\ pc = "got" /\ Call = "hash"
    /\ \/ reply = "ok" /\ Tail(todo) # <<>> /\ Continue(Tail(todo))
       \/ reply = "ok" /\ Tail(todo) = <<>> /\ Answer("data")
       \/ reply = "eof" /\ Continue(todo)
       \/ reply \in {"error", "dropped"} /\ Refused
    /\ UNCHANGED <<handles, hacker, link, container, copies, history>>

\* Mutant: the copy is written first.
SavedFirst ==
    IF ~Copied(table[req.handle].mode) THEN copies
    ELSE [copies EXCEPT ![table[req.handle].remote].parts = @ \cup Parts]

\* The copy is written when the container has taken everything.
Saved ==
    IF reply = "ok" /\ Tail(todo) = <<>> /\ Copied(table[req.handle].mode)
    THEN [copies EXCEPT ![table[req.handle].remote].parts = @ \cup Parts] ELSE copies

\* Mutant: a reply is not looked at.
WrittenBlindly == "ok"

\* A handle in mode r+ has no copy, and None has no seek.
Written == IF Copied(table[req.handle].mode) THEN "ok" ELSE "failure"

GotWrite ==
    /\ pc = "got" /\ Call = "write"
    /\ \/ reply = "ok" /\ Tail(todo) # <<>> /\ Continue(Tail(todo)) /\ copies' = Saved
       \/ reply = "ok" /\ Tail(todo) = <<>> /\ Answer(Written) /\ copies' = Saved
       \/ reply = "ok" /\ Tail(todo) = <<>> /\ Written = "ok"       \* the disk is full
          /\ Answer("error") /\ UNCHANGED copies
       \/ reply # "ok" /\ Refused /\ copies' = Saved
    /\ UNCHANGED <<handles, hacker, link, container, history>>

Mode(h) == table[h].mode

\* Mutant: the copy is not reported.
ReportedNot(h) == copies

Reported(h) ==
    IF Copied(Mode(h)) THEN [copies EXCEPT ![table[h].remote].state = "reported"] ELSE copies

\* remote_sftp_handle.close: SFTPFile.close minds nothing but a dropped channel;
\* finish_subsystem gives up then.
GotClose ==
    /\ pc = "got" /\ Call = "fclose"
    /\ IF reply = "dropped"
       THEN /\ UNCHANGED <<table, copies>>
            /\ IF req.op = "close" THEN Failure /\ UNCHANGED lost
               ELSE /\ pc' = "ended" /\ lost' = TRUE
                    /\ UNCHANGED <<req, todo, reply, sent>>
       ELSE /\ table' = Without(req.handle) /\ copies' = Reported(req.handle)
            /\ UNCHANGED lost
            /\ IF req.op = "close" THEN Answer("ok")
               ELSE /\ pc' = "finish" /\ req' = NoRequest /\ todo' = <<>> /\ reply' = "none"
                    /\ UNCHANGED sent
    /\ UNCHANGED <<next, hacker, link, container, abandoned>>

Got == GotPath \/ GotOpen \/ GotListing \/ GotRead \/ GotHash \/ GotWrite \/ GotClose
-----------------------------------------------------------------------------
Thread ==
    \/ Connect \/ SendServerVersion \/ EndOfSession \/ FinishSubsystem
    \/ Process \/ ProcessFile \/ ProcessFolder \/ ProcessInvalid
    \/ CopyFails \/ Send \/ Got

Next == Thread \/ Take \/ ContainerReplies \/ HackerLeaves \/ LinkFalls

Spec == Init /\ [][Next]_vars

\* The thread runs, and the container answers while its channel is open.
FairSpec == Spec /\ WF_vars(Thread) /\ WF_vars(ContainerReplies)
-----------------------------------------------------------------------------
Busy == pc \in {"process", "call", "wait", "got"}

CallsOf(op) ==
    CASE op = "open" -> {"chattr", "open", "size"}
      [] op = "opendir" -> {"opendir", "readdir", "close"}
      [] op = "setstat" -> {"chattr"}
      [] op = "check" -> {"hash"}
      [] op \in {"read", "write"} -> {op}
      [] op \in {"close", "finish"} -> {"fclose"}
      [] OTHER -> {"path"}

TypeOK ==
    /\ reply \in {"none", "ok", "eof", "error", "dropped"}
    /\ pc \in {"call", "wait", "got"} => todo # <<>> /\ Call \in CallsOf(req.op)
    /\ pc = "got" => reply # "none"
    /\ DOMAIN table \subseteq 1 .. next - 1
    /\ remote \subseteq Requests /\ taken \subseteq Requests \X (1 .. MaxParts)

(* Between requests the container holds no handle open but those of the files the *)
(* hacker has open, and those of listings that failed half-way; and a file the    *)
(* hacker has open is open in the container.                                      *)
RemoteAccounted ==
    link /\ pc = "read" =>
        LET files == {table[h].remote : h \in Files}
        IN  files \subseteq remote /\ remote \subseteq files \cup abandoned

(* Nothing is in a copy that the container has not taken.                   *)
CopyIsTaken == \A r \in Requests : copies[r].parts \subseteq taken

(* A write that was answered with success is in the container's file and in the *)
(* copy.                                                                        *)
OkMeansSaved ==
    told.parts \subseteq taken /\ told.parts \subseteq UNION {copies[r].parts : r \in Requests}

(* When the session has ended, the copy of every file that was opened has been  *)
(* reported, unless the container's channel fell while a file was being closed. *)
UploadsReported ==
    pc = "ended" /\ ~lost => \A r \in told.files : copies[r].state # "open"

(* Every request is answered in the end, or the session is over: but check-file *)
(* beyond the end of a file reads for ever.                                     *)
RequestAnswered == (Busy /\ req.op # "check") ~> ~Busy

(* A hacker who leaves ends the session.                                    *)
SessionEnds == (~hacker /\ req.op # "check") ~> pc = "ended"

(* The thread answers every request exactly once, in order.                 *)
Abstract == INSTANCE Replies WITH
    current  <- IF hacker /\ Busy /\ req.op # "finish" THEN req.num ELSE 0,
    answered <- answers,
    ended    <- ~hacker \/ pc \in {"finish", "ended"} \/ req.op = "finish"

AnsweredOnce == Abstract!Spec

(* A copy holds what the container has, all that was acknowledged, and is      *)
(* reported.                                                                   *)
CopySound == TypeOK /\ CopyIsTaken /\ OkMeansSaved /\ UploadsReported

(* The thread gets on: to the answer of each request, and to the session's end.*)
ThreadGetsOn == RequestAnswered /\ SessionEnds
=============================================================================
