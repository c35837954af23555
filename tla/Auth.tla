-------------------------------- MODULE Auth --------------------------------

(****************************************************************************)
(* Password authentication of wetland.  Every SSH connection runs           *)
(* ssh_server.check_auth_password in its own transport thread; all of them  *)
(* share one `blacklist` (a collections.defaultdict that maps an address to *)
(* its failed logins, and the key -1 to the address of the hacker who came  *)
(* in) and one `whitelist` that the MQTT thread rewrites in place.  Nothing *)
(* is locked, so each read and each store of a shared object is a step.     *)
(*                                                                          *)
(* defaultdict.__missing__ calls a Python lambda and stores its result      *)
(* afterwards: reading an absent key is two steps, and the second one       *)
(* overwrites whatever another thread stored in between.                    *)
(****************************************************************************)
EXTENDS Naturals, Sequences, FiniteSets

CONSTANTS
    Conns,          \* SSH connections
    IPs,            \* addresses hackers connect from
    IpOf,           \* the address of each connection
    NoIp,           \* blacklist[-1] = 0: no hacker has come in
    Hacker,         \* the key -1 of blacklist
    WhitelistMode,  \* [wetland] whitelist (with the mqtt plugin enabled)
    BlacklistMode,  \* [wetland] blacklist
    InitialList,    \* the whitelist the server starts with
    Lists,          \* the lists an MQTT message may carry
    MaxUpdates,     \* bound on the MQTT messages
    FreeFails,      \* the 3 of `blacklist[ip] > 3`
    AuthFailLimit   \* the 10 of AuthHandler._send_auth_result

ASSUME ConnsAssumption == IsFiniteSet(Conns) /\ IpOf \in [Conns -> IPs]
ASSUME KeyAssumption   == Hacker \notin IPs /\ NoIp \notin IPs
ASSUME ModeAssumption  == WhitelistMode \in BOOLEAN /\ BlacklistMode \in BOOLEAN
ASSUME ListAssumption  == InitialList \in Seq(IPs) /\ Lists \subseteq Seq(IPs)
ASSUME BoundAssumption == /\ MaxUpdates \in Nat
                          /\ FreeFails \in Nat
                          /\ AuthFailLimit \in Nat \ {0}

VARIABLES
    whitelist,   \* tcp_server.whitelist
    toAppend,    \* what on_message still has to append
    clearing,    \* "yes" while on_message is in its `del` loop
    updates,     \* messages received so far
    present,     \* the keys blacklist holds
    winner,      \* blacklist[-1]
    fails,       \* blacklist[ip]
    pc,          \* where the thread of each connection is
    loaded,      \* the value `blacklist[ip] += 1` has read
    failCount,   \* AuthHandler.auth_fail_count
    up,          \* the transport to the docker is active
    asked,       \* password requests sshd has not answered, oldest first
    offered,     \* the password being tried
    accepted,    \* sshd has accepted a password on this transport
    via,         \* history: the branch that let the connection in
    refused,     \* history: failed logins that line 77 has to count
    granted,     \* history: tries lines 67-68 allowed to a non-winner
    published    \* history: addresses of every list so far

listVars  == <<whitelist, toAppend, clearing, updates, published>>
dictVars  == <<present, winner, fails>>
sshdVars  == <<up, asked, accepted>>
histVars  == <<via, refused, granted>>
vars == <<listVars, dictVars, pc, loaded, failCount, sshdVars, offered, histVars>>

PCs == {"idle", "gate", "gateMissing", "listed", "rootLogin", "rootWait",
        "accounts", "claim", "come", "comeMissing", "isWinner", "quota",
        "quotaMissing", "try", "tryWait", "count", "countMissing", "store",
        "open", "openWait", "openClaim", "in", "dead"}

Passwords == {"good", "bad"}   \* what sshd would answer

Ways == {"none", "listed", "counted", "open"}

Elements(s) == {s[i] : i \in 1 .. Len(s)}

\* The server after the connections of `inside` came in, the last one from the
\* address w, and those of `gone` left.
Started(inside, gone, w) ==
    /\ whitelist = InitialList
    /\ toAppend = <<>>
    /\ clearing = "no"
    /\ updates = IF inside = {} THEN 0 ELSE MaxUpdates
    /\ published = Elements(InitialList) \cup {IpOf[c] : c \in inside}
    /\ present = IF w = NoIp THEN {} ELSE {Hacker}
    /\ winner = w
    /\ fails = [ip \in IPs |-> 0]
    /\ pc = [c \in Conns |-> IF c \in inside THEN "in" ELSE IF c \in gone THEN "dead" ELSE "idle"]
    /\ loaded = [c \in Conns |-> 0]
    /\ failCount = [c \in Conns |-> 0]
    /\ up = [c \in Conns |-> TRUE]
    /\ asked = [c \in Conns |-> <<>>]
    /\ offered = [c \in Conns |-> "bad"]
    /\ accepted = [c \in Conns |-> c \in inside]
    /\ via = [c \in Conns |-> IF c \in inside THEN "listed" ELSE "none"]
    /\ refused = [ip \in IPs |-> 0]
    /\ granted = [c \in Conns |-> 0]

Init == Started({}, {}, NoIp)

(****************************************************************************)
(* The MQTT thread: on_message empties the list one element at a time, then *)
(* appends the new one.                                                     *)
(****************************************************************************)
ReceiveList(l) ==
    /\ WhitelistMode /\ clearing = "no" /\ toAppend = <<>>
    /\ updates < MaxUpdates
    /\ updates' = updates + 1
    /\ clearing' = "yes"
    /\ toAppend' = l
    /\ published' = published \cup Elements(l)
    /\ UNCHANGED <<whitelist, dictVars, pc, loaded, failCount, sshdVars, offered, histVars>>

DeleteFirst ==
    /\ clearing = "yes"
    /\ IF whitelist = <<>>
       THEN clearing' = "no" /\ UNCHANGED whitelist
       ELSE whitelist' = Tail(whitelist) /\ UNCHANGED clearing
    /\ UNCHANGED <<toAppend, updates, published, dictVars, pc, loaded, failCount,
                   sshdVars, offered, histVars>>

AppendNext ==
    /\ clearing = "no" /\ toAppend # <<>>
    /\ whitelist' = Append(whitelist, Head(toAppend))
    /\ toAppend' = Tail(toAppend)
    /\ UNCHANGED <<clearing, updates, published, dictVars, pc, loaded, failCount,
                   sshdVars, offered, histVars>>

(****************************************************************************)
(* What a connection's thread does at the end of a request.                 *)
(****************************************************************************)
GoTo(c, l) == pc' = [pc EXCEPT ![c] = l]

\* Mutant: the limit on failed requests is forgotten.
AnswerFailedForever(c) ==
    /\ failCount' = [failCount EXCEPT ![c] = @ + 1]
    /\ GoTo(c, "idle")

\* _send_auth_result(AUTH_FAILED); the tenth failure disconnects.
AnswerFailed(c) ==
    /\ failCount' = [failCount EXCEPT ![c] = @ + 1]
    /\ GoTo(c, IF failCount[c] + 1 >= AuthFailLimit THEN "dead" ELSE "idle")

\* _send_auth_result(AUTH_SUCCESSFUL)
AnswerSuccessful(c, way) ==
    /\ via' = [via EXCEPT ![c] = way]
    /\ GoTo(c, "in")
    /\ UNCHANGED failCount

AfterGate == IF BlacklistMode THEN "come" ELSE "open"

\* A password request enters check_auth_password.
UserauthRequest(c, password) ==
    /\ pc[c] = "idle"
    /\ offered' = [offered EXCEPT ![c] = password]
    /\ GoTo(c, IF WhitelistMode THEN "gate" ELSE AfterGate)
    /\ UNCHANGED <<listVars, dictVars, loaded, failCount, sshdVars, histVars>>

\* `none`, publickey and every other method fail without asking anybody.
OtherMethod(c) ==
    /\ pc[c] = "idle"
    /\ AnswerFailed(c)
    /\ UNCHANGED <<listVars, dictVars, loaded, sshdVars, offered, histVars>>

\* The hacker leaves, or changes user name between two tries.
Disconnect(c) ==
    /\ pc[c] = "idle"
    /\ GoTo(c, "dead")
    /\ UNCHANGED <<listVars, dictVars, loaded, failCount, sshdVars, offered, histVars>>

(****************************************************************************)
(* `not self.blacklist[-1]` (line 47) and `self.blacklist[-1]` (line 65).   *)
(****************************************************************************)
Branch(c, here, value) ==
    GoTo(c, IF here = "gate"
            THEN IF value = NoIp THEN "listed" ELSE AfterGate
            ELSE IF value = NoIp THEN "open" ELSE "isWinner")

ReadWinner(c, here, missing) ==
    /\ pc[c] = here
    /\ IF Hacker \in present THEN Branch(c, here, winner) ELSE GoTo(c, missing)
    /\ UNCHANGED <<listVars, dictVars, loaded, failCount, sshdVars, offered, histVars>>

StoreDefaultWinner(c, here, missing) ==
    /\ pc[c] = missing
    /\ present' = present \cup {Hacker}
    /\ winner' = NoIp
    /\ Branch(c, here, NoIp)
    /\ UNCHANGED <<listVars, fails, loaded, failCount, sshdVars, offered, histVars>>

(****************************************************************************)
(* The whitelist branch, lines 48-63.  An exception here is not caught: it  *)
(* ends the thread of the hacker's transport.                               *)
(****************************************************************************)
\* Mutant: the address is not looked up in the list.
CheckListedAnyone(c) ==
    /\ pc[c] = "listed"
    /\ GoTo(c, "rootLogin")
    /\ UNCHANGED <<listVars, dictVars, loaded, failCount, sshdVars, offered, histVars>>

CheckListed(c) ==
    /\ pc[c] = "listed"
    /\ IF IpOf[c] \in Elements(whitelist)
       THEN GoTo(c, "rootLogin") /\ UNCHANGED failCount
       ELSE AnswerFailed(c)
    /\ UNCHANGED <<listVars, dictVars, loaded, sshdVars, offered, histVars>>

\* open_session or exec_command may raise.
CreateAccount(c) ==
    /\ pc[c] = "accounts"
    /\ \/ up[c] /\ GoTo(c, "claim")
       \/ GoTo(c, "dead")
    /\ UNCHANGED <<listVars, dictVars, loaded, failCount, sshdVars, offered, histVars>>

\* Lines 60-63 (whitelist branch) and 98-102 (last branch).
Claim(c, here, way) ==
    /\ pc[c] = here
    /\ present' = present \cup {Hacker}
    /\ winner' = IpOf[c]
    /\ AnswerSuccessful(c, way)
    /\ UNCHANGED <<listVars, fails, loaded, sshdVars, offered, refused, granted>>

(****************************************************************************)
(* The blacklist branch, lines 65-83.                                       *)
(****************************************************************************)
CheckWinner(c) ==
    /\ pc[c] = "isWinner"
    /\ GoTo(c, IF IpOf[c] = winner THEN "try" ELSE "quota")
    /\ UNCHANGED <<listVars, dictVars, loaded, failCount, sshdVars, offered, histVars>>

\* Mutant: the limit is off by one.
AdmitOneMore(c, n) ==
    IF n > FreeFails + 1
    THEN AnswerFailed(c) /\ UNCHANGED granted
    ELSE /\ granted' = [granted EXCEPT ![c] = @ + 1]
         /\ GoTo(c, "try")
         /\ UNCHANGED failCount

Admit(c, n) ==
    IF n > FreeFails
    THEN AnswerFailed(c) /\ UNCHANGED granted
    ELSE /\ granted' = [granted EXCEPT ![c] = @ + 1]
         /\ GoTo(c, "try")
         /\ UNCHANGED failCount

CheckQuota(c) ==
    /\ pc[c] = "quota"
    /\ IF IpOf[c] \in present
       THEN Admit(c, fails[IpOf[c]])
       ELSE GoTo(c, "quotaMissing") /\ UNCHANGED <<failCount, granted>>
    /\ UNCHANGED <<listVars, dictVars, loaded, sshdVars, offered, via, refused>>

\* Mutant: a new address starts with a failed login.
StoreDefaultOne(c) ==
    /\ present' = present \cup {IpOf[c]}
    /\ fails' = [fails EXCEPT ![IpOf[c]] = 1]
    /\ UNCHANGED winner

StoreDefault(c) ==
    /\ present' = present \cup {IpOf[c]}
    /\ fails' = [fails EXCEPT ![IpOf[c]] = 0]
    /\ UNCHANGED winner

StoreDefaultQuota(c) ==
    /\ pc[c] = "quotaMissing"
    /\ StoreDefault(c)
    /\ Admit(c, 0)
    /\ UNCHANGED <<listVars, loaded, sshdVars, offered, via, refused>>

\* `self.blacklist[self.hacker_ip] += 1`: a read, then a store.
LoadFails(c) ==
    /\ pc[c] = "count"
    /\ IF IpOf[c] \in present
       THEN GoTo(c, "store") /\ loaded' = [loaded EXCEPT ![c] = fails[IpOf[c]]]
       ELSE GoTo(c, "countMissing") /\ UNCHANGED loaded
    /\ UNCHANGED <<listVars, dictVars, failCount, sshdVars, offered, histVars>>

LoadMissing(c) ==
    /\ pc[c] = "countMissing"
    /\ StoreDefault(c)
    /\ loaded' = [loaded EXCEPT ![c] = 0]
    /\ GoTo(c, "store")
    /\ UNCHANGED <<listVars, failCount, sshdVars, offered, histVars>>

StoreFails(c) ==
    /\ pc[c] = "store"
    /\ fails' = [fails EXCEPT ![IpOf[c]] = loaded[c] + 1]
    /\ loaded' = [loaded EXCEPT ![c] = 0]
    /\ AnswerFailed(c)
    /\ UNCHANGED <<listVars, present, winner, sshdVars, offered, histVars>>

(****************************************************************************)
(* docker_trans.auth_password: Transport.auth_password installs a fresh     *)
(* AuthHandler, sends the request and waits 30 s.  sshd answers requests in *)
(* order, and an answer goes to whatever handler is installed when it       *)
(* arrives: a late one is taken for the answer to the next request.         *)
(****************************************************************************)
LoginPlaces == {"rootLogin", "try", "open"}

WaitOf(here) == CASE here = "rootLogin" -> "rootWait"
                  [] here = "try"       -> "tryWait"
                  [] here = "open"      -> "openWait"

\* Mutant: the exception of the root login is swallowed.
LoginFailedSwallowed(c, here) ==
    \/ /\ here = "rootLogin"
       /\ GoTo(c, "accounts")
       /\ UNCHANGED <<failCount, refused>>
    \/ /\ here = "try"
       /\ GoTo(c, "count")
       /\ refused' = [refused EXCEPT ![IpOf[c]] = @ + 1]
       /\ UNCHANGED failCount
    \/ /\ here = "open"
       /\ AnswerFailed(c)
       /\ UNCHANGED refused

\* What follows a login that raised, from each of the three places.
LoginFailed(c, here) ==
    \/ /\ here = "rootLogin"
       /\ GoTo(c, "dead")
       /\ UNCHANGED <<failCount, refused>>
    \/ /\ here = "try"
       /\ GoTo(c, "count")
       /\ refused' = [refused EXCEPT ![IpOf[c]] = @ + 1]
       /\ UNCHANGED failCount
    \/ /\ here = "open"
       /\ AnswerFailed(c)
       /\ UNCHANGED refused

LoginSucceeded(c, here) ==
    \/ /\ here = "rootLogin"
       /\ GoTo(c, "accounts")
       /\ UNCHANGED <<failCount, via>>
    \/ here = "try" /\ AnswerSuccessful(c, "counted")
    \/ /\ here = "open"
       /\ GoTo(c, "openClaim")
       /\ UNCHANGED <<failCount, via>>

\* Mutant: the address becomes the winner before sshd has answered.
AskDockerClaiming(c, here) ==
    /\ pc[c] = here /\ up[c]
    /\ asked' = [asked EXCEPT ![c] = Append(@, offered[c])]
    /\ GoTo(c, WaitOf(here))
    /\ winner' = IpOf[c]
    /\ present' = present \cup {Hacker}
    /\ UNCHANGED <<listVars, fails, loaded, failCount, up, accepted, offered, histVars>>

AskDocker(c, here) ==
    /\ pc[c] = here
    /\ IF up[c]
       THEN /\ asked' = [asked EXCEPT ![c] =
                   Append(@, IF here = "rootLogin" THEN "good" ELSE offered[c])]
            /\ GoTo(c, WaitOf(here))
            /\ UNCHANGED <<failCount, refused>>
       ELSE /\ LoginFailed(c, here)
            /\ UNCHANGED asked
    /\ UNCHANGED <<listVars, dictVars, loaded, up, accepted, offered, via, granted>>

\* auth_timeout, or the docker's transport went away.
LoginTimeout(c, here) ==
    /\ pc[c] = WaitOf(here)
    /\ LoginFailed(c, here)
    /\ UNCHANGED <<listVars, dictVars, loaded, sshdVars, offered, via, granted>>

\* sshd answers its oldest request; once it has accepted one it ignores the rest.
TakeAnswer(c) ==
    /\ up[c] /\ asked[c] # <<>> /\ ~accepted[c]
    /\ asked' = [asked EXCEPT ![c] = Tail(@)]
    /\ accepted' = [accepted EXCEPT ![c] = Head(asked[c]) = "good"]
    /\ UNCHANGED <<listVars, dictVars, loaded, up, offered, granted>>

LoginAnswered(c, here) ==
    /\ pc[c] = WaitOf(here)
    /\ TakeAnswer(c)
    /\ IF Head(asked[c]) = "good"
       THEN LoginSucceeded(c, here) /\ UNCHANGED refused
       ELSE LoginFailed(c, here) /\ UNCHANGED via

\* The answer finds nobody waiting.
LateAnswer(c) ==
    /\ pc[c] \notin {"rootWait", "tryWait", "openWait", "in", "dead"}
    /\ TakeAnswer(c)
    /\ UNCHANGED <<pc, failCount, via, refused>>

DockerDrop(c) ==
    /\ up[c] /\ pc[c] \notin {"in", "dead"}
    /\ up' = [up EXCEPT ![c] = FALSE]
    /\ asked' = [asked EXCEPT ![c] = <<>>]
    /\ UNCHANGED <<listVars, dictVars, pc, loaded, failCount, accepted, offered, histVars>>

Login(c) ==
    \E here \in LoginPlaces :
        AskDocker(c, here) \/ LoginTimeout(c, here) \/ LoginAnswered(c, here)

Request(c) ==
    \/ \E password \in Passwords : UserauthRequest(c, password)
    \/ OtherMethod(c)
    \/ Disconnect(c)

ReadHacker(c) ==
    \/ ReadWinner(c, "gate", "gateMissing")
    \/ ReadWinner(c, "come", "comeMissing")
    \/ StoreDefaultWinner(c, "gate", "gateMissing")
    \/ StoreDefaultWinner(c, "come", "comeMissing")

WhitelistBranch(c) ==
    CheckListed(c) \/ CreateAccount(c) \/ Claim(c, "claim", "listed")

BlacklistBranch(c) ==
    \/ CheckWinner(c) \/ CheckQuota(c) \/ StoreDefaultQuota(c)
    \/ LoadFails(c) \/ LoadMissing(c) \/ StoreFails(c)

OpenBranch(c) == Claim(c, "openClaim", "open")

Mqtt == (\E l \in Lists : ReceiveList(l)) \/ DeleteFirst \/ AppendNext

Next ==
    \/ Mqtt
    \/ \E c \in Conns :
         \/ Request(c) \/ ReadHacker(c) \/ WhitelistBranch(c) \/ BlacklistBranch(c)
         \/ OpenBranch(c) \/ Login(c) \/ LateAnswer(c) \/ DockerDrop(c)

Spec == Init /\ [][Next]_vars
-----------------------------------------------------------------------------

(* Type correctness of the shared objects and of every thread.              *)
TypeOK ==
    /\ whitelist \in Seq(IPs) /\ toAppend \in Seq(IPs)
    /\ clearing \in {"yes", "no"} /\ updates \in Nat /\ published \subseteq IPs
    /\ present \subseteq IPs \cup {Hacker}
    /\ winner \in IPs \cup {NoIp}
    /\ fails \in [IPs -> Nat]
    /\ pc \in [Conns -> PCs]
    /\ loaded \in [Conns -> Nat]
    /\ failCount \in [Conns -> 0 .. AuthFailLimit]
    /\ up \in [Conns -> BOOLEAN]
    /\ asked \in [Conns -> Seq(Passwords)]
    /\ offered \in [Conns -> Passwords]
    /\ accepted \in [Conns -> BOOLEAN]
    /\ via \in [Conns -> Ways]
    /\ refused \in [IPs -> Nat]
    /\ granted \in [Conns -> Nat]

(* With the whitelist on, nobody is in unless a connection from an address  *)
(* that some list named came in through the whitelist branch, whatever the  *)
(* interleaving of logins, of the updates of the list (lines 32-39 of       *)
(* tcpServer.py) and of the default stores of the defaultdict.              *)
ListedFirst ==
    WhitelistMode =>
        \A c \in Conns : via[c] # "none" =>
            \E d \in Conns : via[d] = "listed" /\ IpOf[d] \in published

(* blacklist[-1] is 0 or the address of a connection that came in through   *)
(* line 60 or line 101: the exemption of line 67 is never given to an       *)
(* address that did not log in.                                             *)
WinnerCameIn ==
    winner # NoIp => \E c \in Conns : IpOf[c] = winner /\ via[c] \in {"listed", "open"}

(* The unlocked `+= 1` and the default stores may lose failed logins of an   *)
(* address but never invent one: nobody reaches the limit of line 68 without *)
(* having failed that often.                                                 *)
NeverOvercounted == \A ip \in IPs : fails[ip] <= refused[ip]

(* An address with a single connection gets FreeFails + 1 tries at the      *)
(* docker while it is not the winner (lines 67-78), not one more.           *)
LoneQuota ==
    \A c \in Conns :
        (\A d \in Conns : IpOf[d] = IpOf[c] => d = c) => granted[c] <= FreeFails + 1

(* wetland tells a hacker "successful" only if the docker's sshd accepted a *)
(* password on the transport of that connection, late answers included: a   *)
(* session without a container behind it is never opened.                   *)
DockerLetIn == \A c \in Conns : via[c] # "none" => accepted[c]

(* The count of failed logins that check_auth_password compares with its limit *)
(* is right as far as races let it: never too high, and exact for a connection *)
(* that shares its address with nobody.                                        *)
FailuresCounted == NeverOvercounted /\ LoneQuota
=============================================================================
