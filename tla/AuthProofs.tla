----------------------------- MODULE AuthProofs -----------------------------

(* Proofs about Auth, for any number of connections, addresses and lists.   *)
EXTENDS Auth, FiniteSetTheorems, TLAPS

(* A thread that still takes requests has failed less often than the limit  *)
(* of _send_auth_result; TypeOK is not inductive without it.                *)
BelowLimit == \A c \in Conns : pc[c] # "dead" => failCount[c] < AuthFailLimit

TypeInv == TypeOK /\ BelowLimit

(* The elements of a list are addresses.                                    *)
LEMMA ElementsType == \A l \in Seq(IPs) : Elements(l) \subseteq IPs
BY DEF Elements

LEMMA TypeInvInit == Init => TypeInv
<1> SUFFICES ASSUME Init PROVE TypeInv
  OBVIOUS
<1>1. published \subseteq IPs
  BY ListAssumption, ElementsType DEF Init, Started
<1>2. BelowLimit
  BY BoundAssumption DEF Init, Started, BelowLimit
<1>3. /\ whitelist \in Seq(IPs) /\ toAppend \in Seq(IPs)
      /\ clearing \in {"yes", "no"} /\ updates \in Nat
  BY ListAssumption DEF Init, Started
<1>4. asked \in [Conns -> Seq(Passwords)]
  BY DEF Init, Started
<1>5. /\ present \subseteq IPs \cup {Hacker} /\ winner \in IPs \cup {NoIp}
      /\ fails \in [IPs -> Nat] /\ refused \in [IPs -> Nat]
      /\ loaded \in [Conns -> Nat] /\ granted \in [Conns -> Nat]
      /\ failCount \in [Conns -> 0 .. AuthFailLimit]
  BY BoundAssumption DEF Init, Started
<1>6. /\ pc \in [Conns -> PCs] /\ via \in [Conns -> Ways]
      /\ up \in [Conns -> BOOLEAN] /\ accepted \in [Conns -> BOOLEAN]
      /\ offered \in [Conns -> Passwords]
  BY DEF Init, Started, PCs, Ways, Passwords
<1> QED
  BY <1>1, <1>2, <1>3, <1>4, <1>5, <1>6 DEF TypeInv, TypeOK

(* What a refusal does to the thread that sends it.                         *)
LEMMA AnswerFailedType ==
    ASSUME TypeInv, NEW c \in Conns, pc[c] # "dead", AnswerFailed(c)
    PROVE  /\ failCount' \in [Conns -> 0 .. AuthFailLimit]
           /\ pc' \in [Conns -> PCs]
           /\ BelowLimit'
<1> AuthFailLimit \in Nat /\ failCount[c] \in Nat /\ failCount[c] < AuthFailLimit
  BY BoundAssumption DEF TypeInv, TypeOK, BelowLimit
<1>1. failCount' \in [Conns -> 0 .. AuthFailLimit]
  BY DEF AnswerFailed, TypeInv, TypeOK
<1>2. pc' \in [Conns -> PCs]
  BY DEF AnswerFailed, GoTo, TypeInv, TypeOK, PCs
<1>3. BelowLimit'
  BY DEF AnswerFailed, GoTo, TypeInv, TypeOK, BelowLimit
<1> QED
  BY <1>1, <1>2, <1>3

(* What the comparison of line 68 does to the thread that makes it.         *)
LEMMA AdmitType ==
    ASSUME TypeInv, NEW c \in Conns, pc[c] # "dead", NEW n, Admit(c, n)
    PROVE  /\ failCount' \in [Conns -> 0 .. AuthFailLimit]
           /\ pc' \in [Conns -> PCs]
           /\ granted' \in [Conns -> Nat]
           /\ BelowLimit'
<1>1. CASE n > FreeFails
  BY <1>1, AnswerFailedType DEF Admit, TypeInv, TypeOK
<1>2. CASE ~(n > FreeFails)
  <2>1. granted' = [granted EXCEPT ![c] = @ + 1] /\ GoTo(c, "try") /\ UNCHANGED failCount
    BY <1>2 DEF Admit
  <2> QED
    BY <2>1 DEF GoTo, TypeInv, TypeOK, PCs, BelowLimit
<1> QED
  BY <1>1, <1>2

(* What a login that raised does to the thread that made it.                *)
LEMMA LoginFailedType ==
    ASSUME TypeInv, NEW c \in Conns, pc[c] # "dead",
           NEW here \in LoginPlaces, LoginFailed(c, here)
    PROVE  /\ failCount' \in [Conns -> 0 .. AuthFailLimit]
           /\ pc' \in [Conns -> PCs]
           /\ refused' \in [IPs -> Nat]
           /\ BelowLimit'
<1>1. CASE here = "rootLogin"
  BY <1>1 DEF LoginFailed, GoTo, TypeInv, TypeOK, PCs, BelowLimit
<1>2. CASE here = "try"
  <2>1. /\ GoTo(c, "count") /\ UNCHANGED failCount
        /\ refused' = [refused EXCEPT ![IpOf[c]] = @ + 1]
    BY <1>2 DEF LoginFailed
  <2>2. refused' \in [IPs -> Nat]
    BY <2>1, ConnsAssumption DEF TypeInv, TypeOK
  <2> QED
    BY <2>1, <2>2 DEF GoTo, TypeInv, TypeOK, PCs, BelowLimit
<1>3. CASE here = "open"
  BY <1>3, AnswerFailedType DEF LoginFailed, TypeInv, TypeOK
<1> QED
  BY <1>1, <1>2, <1>3 DEF LoginPlaces

(* Every step keeps the types and the limit on failed requests.             *)
LEMMA TypeInvStep == TypeInv /\ [Next]_vars => TypeInv'
<1> SUFFICES ASSUME TypeInv, [Next]_vars PROVE TypeInv'
  OBVIOUS
<1> IpOf \in [Conns -> IPs]
  BY ConnsAssumption
<1> USE DEF TypeInv, BelowLimit, TypeOK, listVars, dictVars, sshdVars, histVars, PCs, Ways, GoTo
<1>1. CASE Mqtt
  <2>1. ASSUME NEW l \in Lists, ReceiveList(l) PROVE TypeInv'
    <3>1. l \in Seq(IPs) /\ Elements(l) \subseteq IPs
      BY ElementsType, ListAssumption
    <3> QED
      BY <2>1, <3>1 DEF ReceiveList
  <2>2. CASE DeleteFirst
    <3>1. CASE whitelist = <<>>
      BY <2>2, <3>1 DEF DeleteFirst
    <3>2. CASE whitelist # <<>>
      <4>1. whitelist' = Tail(whitelist) /\ UNCHANGED clearing
        BY <2>2, <3>2 DEF DeleteFirst
      <4>2. Tail(whitelist) \in Seq(IPs)
        BY <3>2
      <4> QED
        BY <2>2, <4>1, <4>2 DEF DeleteFirst
    <3> QED
      BY <3>1, <3>2
  <2>3. CASE AppendNext
    BY <2>3 DEF AppendNext
  <2> QED
    BY <1>1, <2>1, <2>2, <2>3 DEF Mqtt
<1>2. ASSUME NEW c \in Conns, Request(c) PROVE TypeInv'
  <2>1. ASSUME NEW p \in Passwords, UserauthRequest(c, p) PROVE TypeInv'
    BY <2>1, ModeAssumption DEF UserauthRequest, AfterGate
  <2>2. CASE OtherMethod(c)
    BY <2>2, AnswerFailedType DEF OtherMethod
  <2>3. CASE Disconnect(c)
    BY <2>3 DEF Disconnect
  <2> QED
    BY <1>2, <2>1, <2>2, <2>3 DEF Request
<1>3. ASSUME NEW c \in Conns, ReadHacker(c) PROVE TypeInv'
  BY <1>3 DEF ReadHacker, ReadWinner, StoreDefaultWinner, Branch, AfterGate
<1>4. ASSUME NEW c \in Conns, WhitelistBranch(c) PROVE TypeInv'
  <2>1. CASE CheckListed(c)
    BY <2>1, AnswerFailedType DEF CheckListed
  <2>2. CASE CreateAccount(c)
    BY <2>2 DEF CreateAccount
  <2>3. CASE Claim(c, "claim", "listed")
    BY <2>3 DEF Claim, AnswerSuccessful
  <2> QED
    BY <1>4, <2>1, <2>2, <2>3 DEF WhitelistBranch
<1>5. ASSUME NEW c \in Conns, BlacklistBranch(c) PROVE TypeInv'
  <2>1. CASE CheckWinner(c)
    BY <2>1 DEF CheckWinner
  <2>2. CASE CheckQuota(c)
    <3>1. CASE IpOf[c] \in present
      <4>1. Admit(c, fails[IpOf[c]]) /\ pc[c] # "dead"
        BY <2>2, <3>1 DEF CheckQuota
      <4> QED
        BY <2>2, <4>1, AdmitType DEF CheckQuota
    <3>2. CASE IpOf[c] \notin present
      BY <2>2, <3>2 DEF CheckQuota
    <3> QED
      BY <3>1, <3>2
  <2>3. CASE StoreDefaultQuota(c)
    <3>1. Admit(c, 0) /\ pc[c] # "dead"
      BY <2>3 DEF StoreDefaultQuota
    <3> QED
      BY <2>3, <3>1, AdmitType DEF StoreDefaultQuota, StoreDefault
  <2>4. CASE LoadFails(c)
    <3>1. loaded' \in [Conns -> Nat]
      <4>1. fails[IpOf[c]] \in Nat
        OBVIOUS
      <4>2. loaded' = loaded \/ loaded' = [loaded EXCEPT ![c] = fails[IpOf[c]]]
        BY <2>4 DEF LoadFails
      <4> QED
        BY <4>1, <4>2
    <3>2. pc' \in [Conns -> PCs] /\ BelowLimit'
      <4>1. GoTo(c, "store") \/ GoTo(c, "countMissing")
        BY <2>4 DEF LoadFails
      <4>2. pc[c] # "dead" /\ UNCHANGED failCount
        BY <2>4 DEF LoadFails
      <4> QED
        BY <4>1, <4>2
    <3>3. UNCHANGED <<listVars, dictVars, failCount, sshdVars, offered, histVars>>
      BY <2>4 DEF LoadFails
    <3> QED
      BY <3>1, <3>2, <3>3
  <2>5. CASE LoadMissing(c)
    BY <2>5 DEF LoadMissing, StoreDefault
  <2>6. CASE StoreFails(c)
    <3>1. AnswerFailed(c) /\ pc[c] # "dead"
      BY <2>6 DEF StoreFails
    <3>2. fails' \in [IPs -> Nat] /\ loaded' \in [Conns -> Nat]
      BY <2>6 DEF StoreFails
    <3> QED
      BY <2>6, <3>1, <3>2, AnswerFailedType DEF StoreFails
  <2> QED
    BY <1>5, <2>1, <2>2, <2>3, <2>4, <2>5, <2>6 DEF BlacklistBranch
<1>6. ASSUME NEW c \in Conns, OpenBranch(c) PROVE TypeInv'
  BY <1>6 DEF OpenBranch, Claim, AnswerSuccessful
<1>7. ASSUME NEW c \in Conns, Login(c) PROVE TypeInv'
  <2>1. PICK here \in LoginPlaces :
           AskDocker(c, here) \/ LoginTimeout(c, here) \/ LoginAnswered(c, here)
    BY <1>7 DEF Login
  <2> USE DEF LoginPlaces, WaitOf
  <2>2. CASE AskDocker(c, here)
    <3>1. CASE up[c]
      <4>1. asked' \in [Conns -> Seq(Passwords)]
        <5> DEFINE sent == IF here = "rootLogin" THEN "good" ELSE offered[c]
        <5>1. sent \in Passwords
          BY DEF Passwords
        <5>2. Append(asked[c], sent) \in Seq(Passwords)
          BY <5>1
        <5>3. asked' = [asked EXCEPT ![c] = Append(@, sent)]
          BY <2>2, <3>1 DEF AskDocker
        <5> QED
          BY <5>2, <5>3
      <4>2. /\ GoTo(c, WaitOf(here)) /\ pc[c] # "dead"
            /\ UNCHANGED <<listVars, dictVars, loaded, up, accepted, offered, histVars, failCount>>
        BY <2>2, <3>1 DEF AskDocker
      <4> QED
        BY <4>1, <4>2
    <3>2. CASE ~up[c]
      <4>1. LoginFailed(c, here) /\ pc[c] # "dead"
        BY <2>2, <3>2 DEF AskDocker
      <4> QED
        BY <2>2, <3>2, <4>1, LoginFailedType DEF AskDocker
    <3> QED
      BY <3>1, <3>2
  <2>3. CASE LoginTimeout(c, here)
    <3>1. LoginFailed(c, here) /\ pc[c] # "dead"
      BY <2>3 DEF LoginTimeout
    <3> QED
      BY <2>3, <3>1, LoginFailedType DEF LoginTimeout
  <2>4. CASE LoginAnswered(c, here)
    <3>1. asked' \in [Conns -> Seq(Passwords)] /\ accepted' \in [Conns -> BOOLEAN]
      BY <2>4 DEF LoginAnswered, TakeAnswer
    <3>2. pc[c] # "dead"
      BY <2>4 DEF LoginAnswered
    <3>3. CASE LoginSucceeded(c, here) /\ UNCHANGED refused
      BY <3>1, <3>3, <2>4 DEF LoginAnswered, TakeAnswer, LoginSucceeded, AnswerSuccessful
    <3>4. CASE LoginFailed(c, here) /\ UNCHANGED via
      <4>1. /\ failCount' \in [Conns -> 0 .. AuthFailLimit]
            /\ pc' \in [Conns -> PCs]
            /\ refused' \in [IPs -> Nat]
            /\ BelowLimit'
        BY <3>2, <3>4, LoginFailedType
      <4>2. UNCHANGED <<listVars, dictVars, loaded, up, offered, granted>>
        BY <2>4 DEF LoginAnswered, TakeAnswer
      <4> QED
        BY <3>1, <3>4, <4>1, <4>2
    <3> QED
      BY <2>4, <3>3, <3>4 DEF LoginAnswered
  <2> QED
    BY <2>1, <2>2, <2>3, <2>4
<1>8. ASSUME NEW c \in Conns, LateAnswer(c) PROVE TypeInv'
  <2>1. asked' \in [Conns -> Seq(Passwords)] /\ accepted' \in [Conns -> BOOLEAN]
    BY <1>8 DEF LateAnswer, TakeAnswer
  <2>2. /\ UNCHANGED <<listVars, dictVars, pc, loaded, failCount, up, offered>>
        /\ UNCHANGED <<via, refused, granted>>
    BY <1>8 DEF LateAnswer, TakeAnswer
  <2> QED
    BY <2>1, <2>2
<1>9. ASSUME NEW c \in Conns, DockerDrop(c) PROVE TypeInv'
  BY <1>9 DEF DockerDrop
<1>10. CASE UNCHANGED vars
  BY <1>10 DEF vars
<1> QED
  BY <1>1, <1>2, <1>3, <1>4, <1>5, <1>6, <1>7, <1>8, <1>9, <1>10 DEF Next

(* Type correctness of the shared whitelist and blacklist and of every      *)
(* thread of check_auth_password.                                           *)
THEOREM TypeCorrect == Spec => []TypeOK
<1>1. TypeInv => TypeOK
  BY DEF TypeInv
<1> QED
  BY <1>1, TypeInvInit, TypeInvStep, PTL DEF Spec

-----------------------------------------------------------------------------

(****************************************************************************)
(* Who comes in.  CameInv strengthens ListedFirst, WinnerCameIn and         *)
(* DockerLetIn to an inductive invariant: a thread on its way through a     *)
(* branch already carries the reason why it is there.                       *)
(****************************************************************************)
InListedBranch == {"rootLogin", "rootWait", "accounts", "claim"}

PastGate == {"come", "comeMissing", "isWinner", "quota", "quotaMissing", "try",
             "tryWait", "count", "countMissing", "store", "open", "openWait", "openClaim"}

LetIn == {"accounts", "claim", "openClaim"}

SomeListed == \E d \in Conns : via[d] = "listed" /\ IpOf[d] \in published

CameInv ==
    /\ Elements(whitelist) \subseteq published
    /\ Elements(toAppend) \subseteq published
    /\ \A c \in Conns : via[c] # "none" => pc[c] = "in"
    /\ \A c \in Conns : pc[c] \in InListedBranch => IpOf[c] \in published
    /\ \A c \in Conns : pc[c] \in LetIn \/ via[c] # "none" => accepted[c]
    /\ WinnerCameIn
    /\ WhitelistMode /\ winner # NoIp => SomeListed
    /\ WhitelistMode => \A c \in Conns :
           pc[c] \in PastGate \/ via[c] # "none" => SomeListed

LEMMA CameInvInit == Init => CameInv
<1> SUFFICES ASSUME Init PROVE CameInv
  OBVIOUS
<1>1. Elements(whitelist) \subseteq published
  BY DEF Init, Started
<1>2. Elements(toAppend) \subseteq published
  BY DEF Init, Started, Elements
<1> QED
  BY <1>1, <1>2 DEF Init, Started, CameInv, WinnerCameIn, InListedBranch, PastGate, LetIn

(* A thread moves on without coming in.                                     *)
LEMMA ThreadMoves ==
    ASSUME TypeInv, CameInv, NEW c \in Conns, NEW l, pc[c] # "in", GoTo(c, l),
           UNCHANGED <<whitelist, toAppend, published, via>>,
           winner' = winner \/ winner' = NoIp,
           \A d \in Conns : accepted[d] => accepted'[d],
           l \in InListedBranch => IpOf[c] \in published,
           l \in LetIn => accepted'[c],
           WhitelistMode /\ l \in PastGate => pc[c] \in PastGate \/ winner # NoIp
    PROVE  CameInv'
<1> USE DEF TypeInv, TypeOK, GoTo
<1>1. \A d \in Conns : pc'[d] = IF d = c THEN l ELSE pc[d]
  OBVIOUS
<1>2. via[c] = "none"
  BY DEF CameInv
<1>3. \A d \in Conns : via'[d] # "none" => pc'[d] = "in"
  BY <1>1, <1>2 DEF CameInv
<1>4. \A d \in Conns : pc'[d] \in InListedBranch => IpOf[d] \in published'
  BY <1>1 DEF CameInv
<1>5. \A d \in Conns : pc'[d] \in LetIn \/ via'[d] # "none" => accepted'[d]
  BY <1>1, <1>2 DEF CameInv
<1>6. WinnerCameIn'
  BY DEF CameInv, WinnerCameIn
<1>7. SomeListed => SomeListed'
  BY DEF SomeListed
<1>8. WhitelistMode /\ winner' # NoIp => SomeListed'
  BY <1>7 DEF CameInv
<1>9. WhitelistMode => \A d \in Conns :
          pc'[d] \in PastGate \/ via'[d] # "none" => SomeListed'
  BY <1>1, <1>2, <1>7 DEF CameInv
<1>10. Elements(whitelist)' \subseteq published' /\ Elements(toAppend)' \subseteq published'
  BY DEF CameInv, Elements
<1> QED
  BY <1>3, <1>4, <1>5, <1>6, <1>8, <1>9, <1>10 DEF CameInv

(* A thread comes in: through the whitelist branch, through the last branch *)
(* (both make it the winner) or through the blacklist branch.               *)
LEMMA ThreadComesIn ==
    ASSUME TypeInv, CameInv, NEW c \in Conns, NEW way \in Ways \ {"none"}, GoTo(c, "in"),
           UNCHANGED <<whitelist, toAppend, published>>,
           via' = [via EXCEPT ![c] = way],
           \/ way = "listed"  /\ winner' = IpOf[c] /\ pc[c] = "claim"
           \/ way = "open"    /\ winner' = IpOf[c] /\ pc[c] \in PastGate
           \/ way = "counted" /\ winner' = winner  /\ pc[c] \in PastGate,
           \A d \in Conns : accepted[d] => accepted'[d],
           accepted'[c]
    PROVE  CameInv'
<1> USE DEF TypeInv, TypeOK, GoTo
<1>1. \A d \in Conns : /\ pc'[d] = IF d = c THEN "in" ELSE pc[d]
                       /\ via'[d] = IF d = c THEN way ELSE via[d]
  OBVIOUS
<1>2. via[c] = "none"
  BY DEF CameInv, PastGate
<1>3. \A d \in Conns : via'[d] # "none" => pc'[d] = "in"
  BY <1>1 DEF CameInv
<1>4. \A d \in Conns : pc'[d] \in InListedBranch => IpOf[d] \in published'
  BY <1>1 DEF CameInv, InListedBranch
<1>5. \A d \in Conns : pc'[d] \in LetIn \/ via'[d] # "none" => accepted'[d]
  BY <1>1 DEF CameInv, LetIn
<1>6. WinnerCameIn'
  BY <1>1, <1>2 DEF CameInv, WinnerCameIn
<1>7. WhitelistMode => SomeListed'
  <2>1. SomeListed => SomeListed'
    BY <1>1, <1>2 DEF SomeListed
  <2>2. way = "listed" => SomeListed'
    BY <1>1 DEF SomeListed, CameInv, InListedBranch
  <2>3. WhitelistMode /\ pc[c] \in PastGate => SomeListed
    BY DEF CameInv
  <2> QED
    BY <2>1, <2>2, <2>3
<1>8. Elements(whitelist)' \subseteq published' /\ Elements(toAppend)' \subseteq published'
  BY DEF CameInv, Elements
<1> QED
  BY <1>3, <1>4, <1>5, <1>6, <1>7, <1>8 DEF CameInv

LEMMA TailElements == \A s \in Seq(IPs) : s # <<>> => Elements(Tail(s)) \subseteq Elements(s)
BY DEF Elements

LEMMA AppendElements ==
    \A s \in Seq(IPs), ip \in IPs : Elements(Append(s, ip)) \subseteq Elements(s) \cup {ip}
BY DEF Elements

LEMMA HeadElements == \A s \in Seq(IPs) : s # <<>> => Head(s) \in Elements(s)
BY DEF Elements

(* The MQTT thread only brings addresses of published lists.                *)
LEMMA CameInvMqtt == ASSUME TypeInv, CameInv, Mqtt PROVE CameInv'
<1> USE DEF TypeInv, TypeOK, listVars, dictVars, sshdVars, histVars
<1>1. UNCHANGED <<dictVars, pc, accepted, via>> /\ published \subseteq published'
  BY DEF Mqtt, ReceiveList, DeleteFirst, AppendNext
<1>2. Elements(whitelist') \subseteq published' /\ Elements(toAppend') \subseteq published'
  <2>1. ASSUME NEW l \in Lists, ReceiveList(l)
        PROVE Elements(whitelist') \subseteq published' /\ Elements(toAppend') \subseteq published'
    BY <2>1 DEF ReceiveList, CameInv
  <2>2. CASE DeleteFirst
    <3>1. CASE whitelist = <<>>
      BY <2>2, <3>1 DEF DeleteFirst, CameInv
    <3>2. CASE whitelist # <<>>
      <4>1. whitelist' = Tail(whitelist) /\ UNCHANGED <<toAppend, published>>
        BY <2>2, <3>2 DEF DeleteFirst
      <4>2. Elements(Tail(whitelist)) \subseteq Elements(whitelist)
        BY <3>2, TailElements
      <4> QED
        BY <4>1, <4>2 DEF CameInv
    <3> QED
      BY <3>1, <3>2
  <2>3. CASE AppendNext
    <3>1. /\ whitelist' = Append(whitelist, Head(toAppend)) /\ toAppend' = Tail(toAppend)
          /\ toAppend # <<>> /\ UNCHANGED published
      BY <2>3 DEF AppendNext
    <3>2. Head(toAppend) \in Elements(toAppend) /\ Head(toAppend) \in IPs
      BY <3>1, HeadElements
    <3>3. Elements(Append(whitelist, Head(toAppend))) \subseteq Elements(whitelist) \cup {Head(toAppend)}
      BY <3>2, AppendElements
    <3>4. Elements(Tail(toAppend)) \subseteq Elements(toAppend)
      BY <3>1, TailElements
    <3> QED
      BY <3>1, <3>2, <3>3, <3>4 DEF CameInv
  <2> QED
    BY <2>1, <2>2, <2>3 DEF Mqtt
<1>3. SomeListed => SomeListed'
  BY <1>1 DEF SomeListed
<1>4. WinnerCameIn'
  BY <1>1 DEF CameInv, WinnerCameIn
<1> QED
  BY <1>1, <1>2, <1>3, <1>4 DEF CameInv

(* sshd moves alone: a late answer, or the end of the connection to it.     *)
LEMMA CameInvSshd ==
    ASSUME TypeInv, CameInv, UNCHANGED <<listVars, dictVars, pc, via>>,
           \A d \in Conns : accepted[d] => accepted'[d]
    PROVE  CameInv'
<1>1. SomeListed => SomeListed'
  BY DEF SomeListed, listVars
<1>2. WinnerCameIn'
  BY DEF CameInv, WinnerCameIn, dictVars
<1>3. Elements(whitelist)' \subseteq published' /\ Elements(toAppend)' \subseteq published'
  BY DEF CameInv, listVars, Elements
<1>4. /\ WhitelistMode /\ winner' # NoIp => SomeListed'
      /\ WhitelistMode => \A c \in Conns :
             pc'[c] \in PastGate \/ via'[c] # "none" => SomeListed'
  BY <1>1 DEF CameInv, dictVars
<1>5. /\ \A c \in Conns : via'[c] # "none" => pc'[c] = "in"
      /\ \A c \in Conns : pc'[c] \in InListedBranch => IpOf[c] \in published'
      /\ \A c \in Conns : pc'[c] \in LetIn \/ via'[c] # "none" => accepted'[c]
  BY DEF CameInv, listVars
<1> QED
  BY <1>2, <1>3, <1>4, <1>5 DEF CameInv

LEMMA CameInvStep == TypeInv /\ CameInv /\ [Next]_vars => CameInv'
<1> SUFFICES ASSUME TypeInv, CameInv, [Next]_vars PROVE CameInv'
  OBVIOUS
<1> USE ModeAssumption
    DEF listVars, dictVars, sshdVars, histVars, InListedBranch, PastGate, LetIn
<1>1. CASE Mqtt
  BY <1>1, CameInvMqtt
<1>2. ASSUME NEW c \in Conns, Request(c) PROVE CameInv'
  <2>1. PICK l : GoTo(c, l) /\ (WhitelistMode => l \notin PastGate) /\ l \notin InListedBranch \cup LetIn
    BY <1>2 DEF Request, UserauthRequest, OtherMethod, Disconnect, AnswerFailed, AfterGate
  <2>2. UNCHANGED <<listVars, dictVars, accepted, via>> /\ pc[c] # "in"
    BY <1>2 DEF Request, UserauthRequest, OtherMethod, Disconnect
  <2> QED
    BY <2>1, <2>2, ThreadMoves
<1>3. ASSUME NEW c \in Conns, ReadHacker(c) PROVE CameInv'
  <2>1. /\ UNCHANGED <<listVars, accepted, via>> /\ pc[c] # "in"
        /\ winner' = winner \/ winner' = NoIp
    BY <1>3 DEF ReadHacker, ReadWinner, StoreDefaultWinner
  <2>2. PICK l : /\ GoTo(c, l) /\ l \notin InListedBranch \cup LetIn
                 /\ l \in PastGate => pc[c] \in PastGate \/ winner # NoIp
    BY <1>3 DEF ReadHacker, ReadWinner, StoreDefaultWinner, Branch, AfterGate
  <2> QED
    BY <2>1, <2>2, ThreadMoves
<1>4. ASSUME NEW c \in Conns, WhitelistBranch(c) PROVE CameInv'
  <2>1. CASE CheckListed(c)
    <3>1. PICK l : /\ GoTo(c, l) /\ l \notin PastGate \cup LetIn
                   /\ l \in InListedBranch => IpOf[c] \in Elements(whitelist)
      BY <2>1 DEF CheckListed, AnswerFailed
    <3>2. UNCHANGED <<listVars, dictVars, accepted, via>> /\ pc[c] # "in"
      BY <2>1 DEF CheckListed
    <3>3. l \in InListedBranch => IpOf[c] \in published
      BY <3>1 DEF CameInv
    <3> QED
      BY <3>1, <3>2, <3>3, ThreadMoves
  <2>2. CASE CreateAccount(c)
    <3>1. PICK l \in {"claim", "dead"} : GoTo(c, l)
      BY <2>2 DEF CreateAccount
    <3>2. UNCHANGED <<listVars, dictVars, accepted, via>> /\ pc[c] = "accounts"
      BY <2>2 DEF CreateAccount
    <3>3. accepted[c] /\ IpOf[c] \in published
      BY <3>2 DEF CameInv
    <3> QED
      BY <3>1, <3>2, <3>3, ThreadMoves
  <2>3. CASE Claim(c, "claim", "listed")
    <3>1. accepted[c]
      BY <2>3 DEF CameInv, Claim
    <3> QED
      BY <2>3, <3>1, ThreadComesIn DEF Claim, AnswerSuccessful, Ways
  <2> QED
    BY <1>4, <2>1, <2>2, <2>3 DEF WhitelistBranch
<1>5. ASSUME NEW c \in Conns, BlacklistBranch(c) PROVE CameInv'
  <2>1. /\ UNCHANGED <<listVars, winner, accepted, via>> /\ pc[c] \in PastGate
    BY <1>5
       DEF BlacklistBranch, CheckWinner, CheckQuota, StoreDefaultQuota, LoadFails, LoadMissing,
           StoreFails, StoreDefault
  <2>2. PICK l : GoTo(c, l) /\ l \notin InListedBranch \cup LetIn
    BY <1>5
       DEF BlacklistBranch, CheckWinner, CheckQuota, StoreDefaultQuota, LoadFails, LoadMissing,
           StoreFails, Admit, AnswerFailed
  <2> QED
    BY <2>1, <2>2, ThreadMoves
<1>6. ASSUME NEW c \in Conns, OpenBranch(c) PROVE CameInv'
  <2>1. accepted[c]
    BY <1>6 DEF CameInv, OpenBranch, Claim
  <2> QED
    BY <1>6, <2>1, ThreadComesIn DEF OpenBranch, Claim, AnswerSuccessful, Ways
<1>7. ASSUME NEW c \in Conns, NEW here \in LoginPlaces,
             AskDocker(c, here) \/ LoginTimeout(c, here) \/ LoginAnswered(c, here)
      PROVE CameInv'
  <2> USE DEF LoginPlaces, WaitOf
  <2>1. /\ UNCHANGED <<listVars, dictVars>>
        /\ pc[c] # "in"
        /\ here = "rootLogin" => pc[c] \in InListedBranch
        /\ here # "rootLogin" => pc[c] \in PastGate
    BY <1>7 DEF AskDocker, LoginTimeout, LoginAnswered, TakeAnswer
  <2>2. \A d \in Conns : accepted[d] => accepted'[d]
    BY <1>7 DEF AskDocker, LoginTimeout, LoginAnswered, TakeAnswer, TypeInv, TypeOK
  <2>3. IpOf[c] \in published \/ here # "rootLogin"
    BY <2>1 DEF CameInv
  <2>4. CASE LoginFailed(c, here) /\ UNCHANGED via
    <3>1. PICK l : GoTo(c, l) /\ l \notin InListedBranch \cup LetIn
                 /\ (l \in PastGate => here # "rootLogin")
      BY <2>4 DEF LoginFailed, AnswerFailed
    <3> QED
      BY <2>1, <2>2, <2>4, <3>1, ThreadMoves
  <2>5. CASE GoTo(c, WaitOf(here)) /\ UNCHANGED via
    BY <2>1, <2>2, <2>3, <2>5, ThreadMoves
  <2>6. CASE LoginSucceeded(c, here) /\ accepted'[c]
    <3>1. CASE here = "rootLogin"
      BY <2>1, <2>2, <2>3, <2>6, <3>1, ThreadMoves DEF LoginSucceeded
    <3>2. CASE here = "open"
      BY <2>1, <2>2, <2>6, <3>2, ThreadMoves DEF LoginSucceeded
    <3>3. CASE here = "try"
      BY <2>1, <2>2, <2>6, <3>3, ThreadComesIn DEF LoginSucceeded, AnswerSuccessful, Ways
    <3> QED
      BY <3>1, <3>2, <3>3
  <2>7. \/ LoginFailed(c, here) /\ UNCHANGED via
        \/ GoTo(c, WaitOf(here)) /\ UNCHANGED via
        \/ LoginSucceeded(c, here) /\ accepted'[c]
    BY <1>7 DEF AskDocker, LoginTimeout, LoginAnswered, TakeAnswer, TypeInv, TypeOK
  <2> QED
    BY <2>4, <2>5, <2>6, <2>7
<1>8. ASSUME NEW c \in Conns, LateAnswer(c) \/ DockerDrop(c) PROVE CameInv'
  <2>1. \A d \in Conns : accepted[d] => accepted'[d]
    BY <1>8 DEF LateAnswer, DockerDrop, TakeAnswer, TypeInv, TypeOK
  <2> QED
    BY <1>8, <2>1, CameInvSshd DEF LateAnswer, DockerDrop, TakeAnswer
<1>9. CASE UNCHANGED vars
  BY <1>9, CameInvSshd DEF vars
<1> QED
  BY <1>1, <1>2, <1>3, <1>4, <1>5, <1>6, <1>7, <1>8, <1>9 DEF Next, Login

LEMMA CameInvHolds == Spec => []CameInv
BY CameInvInit, CameInvStep, TypeInvInit, TypeInvStep, PTL DEF Spec

(* With the whitelist on, the first one in came from an address some list   *)
(* named (lines 47-63 of sshServer.py against lines 32-39 of tcpServer.py). *)
THEOREM FirstIsListed == Spec => []ListedFirst
<1>1. CameInv => ListedFirst
  BY DEF CameInv, ListedFirst, SomeListed
<1> QED
  BY <1>1, CameInvHolds, PTL

(* blacklist[-1] names somebody who logged in through line 60 or line 101.  *)
THEOREM WinnerIsIn == Spec => []WinnerCameIn
<1>1. CameInv => WinnerCameIn
  BY DEF CameInv
<1> QED
  BY <1>1, CameInvHolds, PTL

(* Nobody is told "successful" without a password sshd accepted.            *)
THEOREM DockerDecides == Spec => []DockerLetIn
<1>1. CameInv => DockerLetIn
  BY DEF CameInv, DockerLetIn
<1> QED
  BY <1>1, CameInvHolds, PTL

-----------------------------------------------------------------------------

(****************************************************************************)
(* The count of failed logins.  CountInv strengthens FailuresCounted: what  *)
(* an address has failed and its threads have not stored yet is not in its  *)
(* count, nor in a value that one of them has loaded.                       *)
(****************************************************************************)
Counting == {"count", "countMissing", "store"}

\* Threads of an address that have a failed login to count.
Uncounted(ip) == {c \in Conns : IpOf[c] = ip /\ pc[c] \in Counting}

NeverAhead ==
    /\ \A ip \in IPs : fails[ip] + Cardinality(Uncounted(ip)) <= refused[ip]
    /\ \A c \in Conns : pc[c] = "store" =>
           loaded[c] + Cardinality(Uncounted(IpOf[c])) <= refused[IpOf[c]]

Lone(c) == \A d \in Conns : IpOf[d] = IpOf[c] => d = c

\* A try that was granted is one whose failure is counted, or will be, or which
\* was the last of its connection.
Tried == {"try", "tryWait", "in", "dead"} \cup Counting

LoneCount(c) ==
    /\ granted[c] <= FreeFails + 1
    /\ granted[c] <= fails[IpOf[c]] + IF pc[c] \in Tried THEN 1 ELSE 0
    /\ IpOf[c] \notin present => fails[IpOf[c]] = 0
    /\ pc[c] \in {"quotaMissing", "countMissing"} => IpOf[c] \notin present
    /\ pc[c] = "store" => IpOf[c] \in present /\ loaded[c] = fails[IpOf[c]]

CountInv == NeverAhead /\ \A c \in Conns : Lone(c) => LoneCount(c)

LEMMA CountInvInit == Init => CountInv
<1> SUFFICES ASSUME Init PROVE CountInv
  OBVIOUS
<1>1. /\ \A ip \in IPs : fails[ip] = 0 /\ refused[ip] = 0
      /\ \A c \in Conns : pc[c] = "idle" /\ granted[c] = 0 /\ IpOf[c] \in IPs
  BY ConnsAssumption DEF Init, Started
<1>2. \A ip \in IPs : Uncounted(ip) = {}
  BY <1>1 DEF Uncounted, Counting
<1>3. NeverAhead
  <2>1. \A ip \in IPs : Cardinality(Uncounted(ip)) = 0
    BY <1>2, FS_EmptySet
  <2> QED
    BY <1>1, <2>1 DEF NeverAhead
<1>4. \A c \in Conns : LoneCount(c)
  BY <1>1, BoundAssumption DEF LoneCount, Tried, Counting
<1> QED
  BY <1>3, <1>4 DEF CountInv

LEMMA UncountedFinite ==
    ASSUME NEW ip
    PROVE  IsFiniteSet(Uncounted(ip)) /\ Cardinality(Uncounted(ip)) \in Nat
<1>1. Uncounted(ip) \in SUBSET Conns
  BY DEF Uncounted
<1> QED
  BY <1>1, ConnsAssumption, FS_Subset, FS_CardinalityType

\* One thread moves: only its address may have one more or one less to count.
LEMMA UncountedMoves ==
    ASSUME TypeInv, NEW c \in Conns, NEW l, GoTo(c, l), NEW ip \in IPs
    PROVE  Cardinality(Uncounted(ip)') =
             IF ip # IpOf[c] THEN Cardinality(Uncounted(ip))
             ELSE Cardinality(Uncounted(ip))
                  + (IF l \in Counting THEN 1 ELSE 0) - (IF pc[c] \in Counting THEN 1 ELSE 0)
<1>1. \A d \in Conns : pc'[d] = IF d = c THEN l ELSE pc[d]
  BY DEF GoTo, TypeInv, TypeOK
<1>2. IsFiniteSet(Uncounted(ip)) /\ Cardinality(Uncounted(ip)) \in Nat
  BY UncountedFinite
<1>3. CASE ip # IpOf[c]
  <2>1. Uncounted(ip)' = Uncounted(ip)
    BY <1>1, <1>3 DEF Uncounted
  <2> QED
    BY <1>3, <2>1
<1>4. CASE ip = IpOf[c] /\ l \in Counting
  <2>1. Uncounted(ip)' = Uncounted(ip) \cup {c} /\ (c \in Uncounted(ip) <=> pc[c] \in Counting)
    BY <1>1, <1>4 DEF Uncounted
  <2>2. Cardinality(Uncounted(ip) \cup {c}) =
          IF c \in Uncounted(ip) THEN Cardinality(Uncounted(ip)) ELSE Cardinality(Uncounted(ip)) + 1
    BY <1>2, FS_AddElement
  <2> QED
    BY <1>2, <1>4, <2>1, <2>2
<1>5. CASE ip = IpOf[c] /\ l \notin Counting
  <2>1. Uncounted(ip)' = Uncounted(ip) \ {c} /\ (c \in Uncounted(ip) <=> pc[c] \in Counting)
    BY <1>1, <1>5 DEF Uncounted
  <2>2. Cardinality(Uncounted(ip) \ {c}) =
          IF c \in Uncounted(ip) THEN Cardinality(Uncounted(ip)) - 1 ELSE Cardinality(Uncounted(ip))
    BY <1>2, FS_RemoveElement
  <2> QED
    BY <1>2, <1>5, <2>1, <2>2
<1> QED
  BY <1>3, <1>4, <1>5

\* A step that counts nothing: a thread goes on, and blacklist[-1] may be stored.
LEMMA NotCounting ==
    ASSUME TypeInv, TypeInv', CountInv, NEW c \in Conns, NEW l, GoTo(c, l),
           UNCHANGED <<fails, loaded, refused, granted>>, present' \in {present, present \cup {Hacker}},
           pc[c] \notin Counting, l \notin Counting,
           l = "quotaMissing" => IpOf[c] \notin present',
           pc[c] \in Tried => l \in Tried
    PROVE  CountInv'
<1>0. IpOf \in [Conns -> IPs]
  BY ConnsAssumption
<1>1. \A d \in Conns : pc'[d] = IF d = c THEN l ELSE pc[d]
  BY DEF GoTo, TypeInv, TypeOK
<1>2. \A ip \in IPs : Cardinality(Uncounted(ip)') = Cardinality(Uncounted(ip))
  BY UncountedMoves, UncountedFinite
<1>3. NeverAhead'
  <2>1. \A ip \in IPs : fails'[ip] + Cardinality(Uncounted(ip)') <= refused'[ip]
    BY <1>2 DEF CountInv, NeverAhead
  <2>2. ASSUME NEW d \in Conns, pc'[d] = "store"
        PROVE  loaded'[d] + Cardinality(Uncounted(IpOf[d])') <= refused'[IpOf[d]]
    BY <1>0, <1>1, <1>2, <2>2 DEF CountInv, NeverAhead, Counting
  <2> QED
    BY <2>1, <2>2 DEF NeverAhead
<1>4. ASSUME NEW d \in Conns, Lone(d) PROVE LoneCount(d)'
  <2>1. LoneCount(d)
    BY <1>4 DEF CountInv
  <2>2. IpOf[d] \in present' <=> IpOf[d] \in present
    BY <1>0, KeyAssumption
  <2>3. /\ granted[d] \in Nat /\ fails[IpOf[d]] \in Nat
    BY <1>0 DEF TypeInv, TypeOK
  <2>4. CASE d # c
    BY <1>1, <2>1, <2>2, <2>4 DEF LoneCount
  <2>5. CASE d = c
    BY <1>1, <2>1, <2>2, <2>3, <2>5 DEF LoneCount, Counting, Tried
  <2> QED
    BY <2>4, <2>5
<1> QED
  BY <1>3, <1>4 DEF CountInv, Lone

\* A step of a thread that changes what is known of its own address.
LEMMA OwnAddress ==
    ASSUME TypeInv, TypeInv', CountInv, NEW c \in Conns, NEW l, GoTo(c, l),
           \A ip \in IPs : ip # IpOf[c] =>
              fails'[ip] = fails[ip] /\ refused'[ip] = refused[ip] /\ (ip \in present' <=> ip \in present),
           \A d \in Conns : d # c => loaded'[d] = loaded[d] /\ granted'[d] = granted[d],
           NeverAhead', Lone(c) => LoneCount(c)'
    PROVE  CountInv'
<1>0. IpOf \in [Conns -> IPs]
  BY ConnsAssumption
<1>1. \A d \in Conns : pc'[d] = IF d = c THEN l ELSE pc[d]
  BY DEF GoTo, TypeInv, TypeOK
<1>2. ASSUME NEW d \in Conns, Lone(d) PROVE LoneCount(d)'
  <2>1. CASE d # c
    <3>1. IpOf[c] # IpOf[d] /\ LoneCount(d)
      BY <1>2, <2>1 DEF Lone, CountInv
    <3> QED
      BY <1>0, <1>1, <2>1, <3>1 DEF LoneCount
  <2> QED
    BY <1>2, <2>1
<1> QED
  BY <1>2 DEF CountInv, Lone

LEMMA QuotaCounts ==
    ASSUME TypeInv, TypeInv', CountInv, NEW c \in Conns, CheckQuota(c) \/ StoreDefaultQuota(c)
    PROVE  CountInv'
<1> USE DEF dictVars
<1>0. IpOf \in [Conns -> IPs] /\ IpOf[c] \in IPs /\ IpOf[c] # Hacker /\ FreeFails \in Nat
  BY ConnsAssumption, KeyAssumption, BoundAssumption
<1>1. UNCHANGED <<loaded, refused>> /\ pc[c] \in {"quota", "quotaMissing"}
  BY DEF CheckQuota, StoreDefaultQuota
<1>2. /\ fails \in [IPs -> Nat] /\ refused \in [IPs -> Nat] /\ granted \in [Conns -> Nat]
      /\ fails' \in [IPs -> Nat] /\ granted' \in [Conns -> Nat]
  BY DEF TypeInv, TypeOK
<1>3. PICK l : GoTo(c, l) /\ l \in {"quotaMissing", "try", "idle", "dead"}
  BY DEF CheckQuota, StoreDefaultQuota, Admit, AnswerFailed
<1>4. \A d \in Conns : pc'[d] = IF d = c THEN l ELSE pc[d]
  BY <1>3 DEF GoTo, TypeInv, TypeOK
<1>5. \A ip \in IPs : Cardinality(Uncounted(ip)') = Cardinality(Uncounted(ip))
                      /\ Cardinality(Uncounted(ip)) \in Nat
  BY <1>1, <1>3, UncountedMoves, UncountedFinite DEF Counting
<1>6. \A ip \in IPs : fails'[ip] = fails[ip] \/ fails'[ip] = 0
  BY <1>2 DEF CheckQuota, StoreDefaultQuota, StoreDefault
<1>7. NeverAhead'
  <2>1. \A ip \in IPs : fails'[ip] + Cardinality(Uncounted(ip)') <= refused'[ip]
    BY <1>1, <1>2, <1>5, <1>6 DEF CountInv, NeverAhead
  <2>2. ASSUME NEW d \in Conns, pc'[d] = "store"
        PROVE  loaded'[d] + Cardinality(Uncounted(IpOf[d])') <= refused'[IpOf[d]]
    BY <1>0, <1>1, <1>3, <1>4, <1>5, <2>2 DEF CountInv, NeverAhead
  <2> QED
    BY <2>1, <2>2 DEF NeverAhead
<1>8. /\ \A ip \in IPs : ip # IpOf[c] => fails'[ip] = fails[ip] /\ (ip \in present' <=> ip \in present)
      /\ \A d \in Conns : d # c => granted'[d] = granted[d]
  BY <1>2 DEF CheckQuota, StoreDefaultQuota, StoreDefault, Admit
<1>9. ASSUME Lone(c) PROVE LoneCount(c)'
  <2>1. LoneCount(c)
    BY <1>9 DEF CountInv
  <2>2. pc[c] \notin Tried
    BY <1>1 DEF Tried, Counting
  <2>3. CASE pc'[c] = "quotaMissing"
    <3>1. UNCHANGED <<fails, present, granted>> /\ IpOf[c] \notin present
      BY <2>3, <1>3, <1>4
         DEF CheckQuota, StoreDefaultQuota, Admit, AnswerFailed, GoTo, TypeInv, TypeOK
    <3> QED
      BY <1>2, <2>1, <2>2, <2>3, <3>1 DEF LoneCount, Tried, Counting
  <2>4. CASE pc'[c] # "quotaMissing"
    <3>1. IpOf[c] \in present' /\ fails'[IpOf[c]] = fails[IpOf[c]]
          /\ \E n \in {fails[IpOf[c]], 0} : n = fails[IpOf[c]] /\ Admit(c, n)
      <4>1. CASE CheckQuota(c)
        BY <1>4, <2>4, <4>1 DEF CheckQuota, GoTo, TypeInv, TypeOK
      <4>2. CASE StoreDefaultQuota(c)
        BY <1>0, <1>2, <2>1, <4>2 DEF StoreDefaultQuota, StoreDefault, LoneCount
      <4> QED
        BY <4>1, <4>2
    <3>2. \/ fails[IpOf[c]] <= FreeFails /\ granted'[c] = granted[c] + 1 /\ pc'[c] = "try"
          \/ granted'[c] = granted[c]
      BY <1>0, <1>2, <1>4, <3>1 DEF Admit, GoTo, TypeInv, TypeOK
    <3>3. pc'[c] \notin {"quotaMissing", "countMissing", "store"}
      BY <1>3, <1>4, <2>4
    <3> QED
      BY <1>0, <1>2, <2>1, <2>2, <3>1, <3>2, <3>3 DEF LoneCount, Tried, Counting
  <2> QED
    BY <2>3, <2>4
<1> QED
  BY <1>1, <1>3, <1>7, <1>8, <1>9, OwnAddress

LEMMA FailureCounts ==
    ASSUME TypeInv, TypeInv', CountInv, NEW c \in Conns, pc[c] \in {"try", "tryWait"},
           UNCHANGED <<fails, loaded, present, granted>>, LoginFailed(c, "try")
    PROVE  CountInv'
<1>0. IpOf \in [Conns -> IPs] /\ IpOf[c] \in IPs
  BY ConnsAssumption
<1>1. GoTo(c, "count") /\ refused' = [refused EXCEPT ![IpOf[c]] = @ + 1]
  BY DEF LoginFailed
<1>2. fails \in [IPs -> Nat] /\ refused \in [IPs -> Nat] /\ loaded \in [Conns -> Nat]
  BY DEF TypeInv, TypeOK
<1>3. \A d \in Conns : pc'[d] = IF d = c THEN "count" ELSE pc[d]
  BY <1>1 DEF GoTo, TypeInv, TypeOK
<1>4. \A ip \in IPs : /\ Cardinality(Uncounted(ip)) \in Nat
                      /\ Cardinality(Uncounted(ip)') = Cardinality(Uncounted(ip)) + IF ip = IpOf[c] THEN 1 ELSE 0
                      /\ refused'[ip] = refused[ip] + IF ip = IpOf[c] THEN 1 ELSE 0
  BY <1>1, <1>2, UncountedMoves, UncountedFinite DEF Counting
<1>5. NeverAhead'
  <2>1. \A ip \in IPs : fails'[ip] + Cardinality(Uncounted(ip)') <= refused'[ip]
    BY <1>2, <1>4 DEF CountInv, NeverAhead
  <2>2. ASSUME NEW d \in Conns, pc'[d] = "store"
        PROVE  loaded'[d] + Cardinality(Uncounted(IpOf[d])') <= refused'[IpOf[d]]
    <3>1. loaded[d] + Cardinality(Uncounted(IpOf[d])) <= refused[IpOf[d]] /\ IpOf[d] \in IPs
      BY <1>0, <1>3, <2>2 DEF CountInv, NeverAhead
    <3> QED
      BY <1>2, <1>4, <3>1
  <2> QED
    BY <2>1, <2>2 DEF NeverAhead
<1>6. Lone(c) => LoneCount(c)'
  BY <1>3 DEF CountInv, LoneCount, Tried, Counting
<1> QED
  BY <1>1, <1>4, <1>5, <1>6, <1>2, OwnAddress

LEMMA LoadCounts ==
    ASSUME TypeInv, TypeInv', CountInv, NEW c \in Conns, LoadFails(c) \/ LoadMissing(c)
    PROVE  CountInv'
<1> USE DEF dictVars, histVars
<1>0. IpOf \in [Conns -> IPs] /\ IpOf[c] \in IPs
  BY ConnsAssumption
<1>1. UNCHANGED <<refused, granted>> /\ pc[c] \in {"count", "countMissing"}
  BY DEF LoadFails, LoadMissing
<1>2. /\ fails \in [IPs -> Nat] /\ refused \in [IPs -> Nat] /\ loaded \in [Conns -> Nat]
      /\ fails' \in [IPs -> Nat] /\ granted \in [Conns -> Nat]
  BY DEF TypeInv, TypeOK
<1>3. PICK l : GoTo(c, l) /\ l \in {"countMissing", "store"}
  BY DEF LoadFails, LoadMissing
<1>4. \A d \in Conns : pc'[d] = IF d = c THEN l ELSE pc[d]
  BY <1>3 DEF GoTo, TypeInv, TypeOK
<1>5. \A ip \in IPs : Cardinality(Uncounted(ip)') = Cardinality(Uncounted(ip))
                      /\ Cardinality(Uncounted(ip)) \in Nat
  BY <1>1, <1>3, UncountedMoves, UncountedFinite DEF Counting
<1>6. \A ip \in IPs : fails'[ip] = fails[ip] \/ fails'[ip] = 0
  BY <1>2 DEF LoadFails, LoadMissing, StoreDefault
<1>7. /\ l = "store" => loaded'[c] = fails'[IpOf[c]] /\ IpOf[c] \in present'
      /\ l = "countMissing" => IpOf[c] \notin present' /\ fails' = fails
      /\ \A d \in Conns : d # c => loaded'[d] = loaded[d]
      /\ present' = present \/ fails'[IpOf[c]] = 0
  <2>1. pc'[c] = l
    BY <1>4
  <2>2. CASE LoadFails(c)
    <3>1. UNCHANGED <<present, fails>>
      BY <2>2 DEF LoadFails
    <3>2. CASE IpOf[c] \in present
      <4>1. GoTo(c, "store") /\ loaded' = [loaded EXCEPT ![c] = fails[IpOf[c]]]
        BY <2>2, <3>2 DEF LoadFails
      <4>2. l = "store"
        BY <2>1, <4>1 DEF GoTo, TypeInv, TypeOK
      <4> QED
        BY <1>2, <3>1, <3>2, <4>1, <4>2
    <3>3. CASE IpOf[c] \notin present
      <4>1. GoTo(c, "countMissing") /\ UNCHANGED loaded
        BY <2>2, <3>3 DEF LoadFails
      <4>2. l = "countMissing"
        BY <2>1, <4>1 DEF GoTo, TypeInv, TypeOK
      <4> QED
        BY <3>1, <3>3, <4>1, <4>2
    <3> QED
      BY <3>2, <3>3
  <2>3. CASE LoadMissing(c)
    <3>1. /\ GoTo(c, "store") /\ loaded' = [loaded EXCEPT ![c] = 0]
          /\ present' = present \cup {IpOf[c]} /\ fails' = [fails EXCEPT ![IpOf[c]] = 0]
      BY <2>3 DEF LoadMissing, StoreDefault
    <3>2. l = "store"
      BY <2>1, <3>1 DEF GoTo, TypeInv, TypeOK
    <3> QED
      BY <1>0, <1>2, <3>1, <3>2
  <2> QED
    BY <2>2, <2>3
<1>8. NeverAhead'
  <2>1. \A ip \in IPs : fails'[ip] + Cardinality(Uncounted(ip)') <= refused'[ip]
    BY <1>1, <1>2, <1>5, <1>6 DEF CountInv, NeverAhead
  <2>2. ASSUME NEW d \in Conns, pc'[d] = "store"
        PROVE  loaded'[d] + Cardinality(Uncounted(IpOf[d])') <= refused'[IpOf[d]]
    <3>1. CASE d = c
      BY <1>0, <1>4, <1>7, <2>1, <2>2, <3>1
    <3>2. CASE d # c
      BY <1>0, <1>1, <1>4, <1>5, <1>7, <2>2, <3>2 DEF CountInv, NeverAhead
    <3> QED
      BY <3>1, <3>2
  <2> QED
    BY <2>1, <2>2 DEF NeverAhead
<1>9. /\ \A ip \in IPs : ip # IpOf[c] => fails'[ip] = fails[ip] /\ (ip \in present' <=> ip \in present)
  BY <1>2 DEF LoadFails, LoadMissing, StoreDefault
<1>10. ASSUME Lone(c) PROVE LoneCount(c)'
  <2>1. LoneCount(c)
    BY <1>10 DEF CountInv
  <2>2. fails'[IpOf[c]] = fails[IpOf[c]]
    BY <1>0, <1>2, <2>1 DEF LoadFails, LoadMissing, StoreDefault, LoneCount
  <2>3. IpOf[c] \notin present' => fails'[IpOf[c]] = 0
    BY <1>7, <2>1, <2>2 DEF LoneCount
  <2> QED
    BY <1>1, <1>3, <1>4, <1>7, <2>1, <2>2, <2>3 DEF LoneCount, Tried, Counting
<1> QED
  BY <1>1, <1>3, <1>7, <1>8, <1>9, <1>10, OwnAddress

LEMMA StoreCounts ==
    ASSUME TypeInv, TypeInv', CountInv, NEW c \in Conns, StoreFails(c)
    PROVE  CountInv'
<1> USE DEF dictVars, histVars
<1>0. IpOf \in [Conns -> IPs] /\ IpOf[c] \in IPs
  BY ConnsAssumption
<1>1. /\ UNCHANGED <<present, refused, granted>> /\ pc[c] = "store"
      /\ fails' = [fails EXCEPT ![IpOf[c]] = loaded[c] + 1] /\ loaded' = [loaded EXCEPT ![c] = 0]
  BY DEF StoreFails
<1>2. /\ fails \in [IPs -> Nat] /\ refused \in [IPs -> Nat] /\ loaded \in [Conns -> Nat]
      /\ granted \in [Conns -> Nat]
  BY DEF TypeInv, TypeOK
<1>3. PICK l : GoTo(c, l) /\ l \in {"idle", "dead"}
  BY DEF StoreFails, AnswerFailed
<1>4. \A d \in Conns : pc'[d] = IF d = c THEN l ELSE pc[d]
  BY <1>3 DEF GoTo, TypeInv, TypeOK
<1>5. \A ip \in IPs : /\ Cardinality(Uncounted(ip)) \in Nat /\ Cardinality(Uncounted(ip)') \in Nat
                      /\ Cardinality(Uncounted(ip)') = Cardinality(Uncounted(ip)) - IF ip = IpOf[c] THEN 1 ELSE 0
  <2>1. \A ip \in IPs : Cardinality(Uncounted(ip)) \in Nat
    BY UncountedFinite
  <2>2. IpOf[c] \in IPs /\ c \in Uncounted(IpOf[c])
    BY <1>0, <1>1 DEF Uncounted, Counting
  <2>3. Cardinality(Uncounted(IpOf[c])) # 0
    BY <2>2, UncountedFinite, FS_EmptySet
  <2> QED
    BY <1>1, <1>3, <2>1, <2>3, UncountedMoves DEF Counting
<1>6. NeverAhead'
  <2>1. loaded[c] + Cardinality(Uncounted(IpOf[c])) <= refused[IpOf[c]]
    BY <1>1 DEF CountInv, NeverAhead
  <2>2. ASSUME NEW ip \in IPs PROVE fails'[ip] + Cardinality(Uncounted(ip)') <= refused'[ip]
    <3>1. fails[ip] + Cardinality(Uncounted(ip)) <= refused[ip]
      BY DEF CountInv, NeverAhead
    <3>2. fails'[ip] = IF ip = IpOf[c] THEN loaded[c] + 1 ELSE fails[ip]
      BY <1>1, <1>2
    <3> QED
      BY <1>0, <1>1, <1>2, <1>5, <2>1, <3>1, <3>2
  <2>3. ASSUME NEW d \in Conns, pc'[d] = "store"
        PROVE  loaded'[d] + Cardinality(Uncounted(IpOf[d])') <= refused'[IpOf[d]]
    <3>1. d # c /\ pc[d] = "store" /\ IpOf[d] \in IPs /\ loaded'[d] = loaded[d]
      BY <1>0, <1>1, <1>2, <1>3, <1>4, <2>3
    <3>2. loaded[d] + Cardinality(Uncounted(IpOf[d])) <= refused[IpOf[d]]
      BY <3>1 DEF CountInv, NeverAhead
    <3> QED
      BY <1>1, <1>2, <1>5, <3>1, <3>2
  <2> QED
    BY <2>2, <2>3 DEF NeverAhead
<1>7. ASSUME Lone(c) PROVE LoneCount(c)'
  <2>1. LoneCount(c)
    BY <1>7 DEF CountInv
  <2>2. fails'[IpOf[c]] = fails[IpOf[c]] + 1 /\ fails[IpOf[c]] \in Nat
    BY <1>0, <1>1, <1>2, <2>1 DEF LoneCount
  <2>3. IpOf[c] \in present
    BY <1>1, <2>1 DEF LoneCount
  <2> QED
    BY <1>1, <1>2, <1>3, <1>4, <2>1, <2>2, <2>3 DEF LoneCount, Tried, Counting
<1>8. /\ \A ip \in IPs : ip # IpOf[c] => fails'[ip] = fails[ip]
      /\ \A d \in Conns : d # c => loaded'[d] = loaded[d]
  BY <1>1, <1>2
<1> QED
  BY <1>1, <1>3, <1>6, <1>7, <1>8, OwnAddress

\* A step in which no thread of a connection moves.
LEMMA NobodyCounts ==
    ASSUME TypeInv, CountInv, UNCHANGED <<pc, fails, loaded, present, refused, granted>>
    PROVE  CountInv'
<1>1. \A ip : Uncounted(ip)' = Uncounted(ip)
  BY DEF Uncounted
<1> QED
  BY <1>1 DEF CountInv, NeverAhead, LoneCount, Lone

LEMMA CountInvStep == TypeInv /\ CountInv /\ [Next]_vars => CountInv'
<1> SUFFICES ASSUME TypeInv, CountInv, [Next]_vars PROVE CountInv'
  OBVIOUS
<1> USE DEF listVars, dictVars, sshdVars, histVars
<1>0. TypeInv'
  BY TypeInvStep
<1>1. CASE Mqtt \/ UNCHANGED vars
  BY <1>1, NobodyCounts DEF Mqtt, ReceiveList, DeleteFirst, AppendNext, vars
<1>2. ASSUME NEW c \in Conns, LateAnswer(c) \/ DockerDrop(c) PROVE CountInv'
  BY <1>2, NobodyCounts DEF LateAnswer, DockerDrop, TakeAnswer
<1>3. ASSUME NEW c \in Conns,
             Request(c) \/ ReadHacker(c) \/ WhitelistBranch(c) \/ OpenBranch(c) \/ CheckWinner(c)
      PROVE  CountInv'
  <2>1. /\ UNCHANGED <<fails, loaded, refused, granted>>
        /\ present' \in {present, present \cup {Hacker}}
    BY <1>3
       DEF Request, UserauthRequest, OtherMethod, Disconnect, ReadHacker, ReadWinner,
           StoreDefaultWinner, WhitelistBranch, CheckListed, CreateAccount, OpenBranch, Claim,
           CheckWinner, AnswerFailed, AnswerSuccessful
  <2>2. /\ pc[c] \notin Counting /\ pc[c] \notin Tried
    BY <1>3
       DEF Request, UserauthRequest, OtherMethod, Disconnect, ReadHacker, ReadWinner,
           StoreDefaultWinner, WhitelistBranch, CheckListed, CreateAccount, OpenBranch, Claim,
           CheckWinner, Counting, Tried
  <2>3. PICK l : GoTo(c, l) /\ l \notin Counting \cup {"quotaMissing"}
    BY <1>3
       DEF Request, UserauthRequest, OtherMethod, Disconnect, ReadHacker, ReadWinner,
           StoreDefaultWinner, WhitelistBranch, CheckListed, CreateAccount, OpenBranch, Claim,
           CheckWinner, AnswerFailed, AnswerSuccessful, AfterGate, Branch, Counting
  <2> QED
    BY <1>0, <2>1, <2>2, <2>3, NotCounting
<1>4. ASSUME NEW c \in Conns, BlacklistBranch(c) PROVE CountInv'
  BY <1>0, <1>3, <1>4, QuotaCounts, LoadCounts, StoreCounts DEF BlacklistBranch
<1>5. ASSUME NEW c \in Conns, NEW here \in LoginPlaces,
             AskDocker(c, here) \/ LoginTimeout(c, here) \/ LoginAnswered(c, here)
      PROVE CountInv'
  <2> USE DEF LoginPlaces, WaitOf
  <2>1. /\ UNCHANGED <<fails, loaded, present, granted>>
        /\ pc[c] \in {here, WaitOf(here)}
    BY <1>5 DEF AskDocker, LoginTimeout, LoginAnswered, TakeAnswer
  <2>2. \/ LoginFailed(c, here)
        \/ GoTo(c, WaitOf(here)) /\ UNCHANGED refused
        \/ LoginSucceeded(c, here) /\ UNCHANGED refused
    BY <1>5 DEF AskDocker, LoginTimeout, LoginAnswered
  <2>3. CASE here = "try" /\ LoginFailed(c, here)
    BY <1>0, <2>1, <2>3, FailureCounts
  <2>4. CASE ~(here = "try" /\ LoginFailed(c, here))
    <3>1. UNCHANGED refused
      BY <2>2, <2>4 DEF LoginFailed
    <3>2. PICK l : /\ GoTo(c, l) /\ l \notin Counting \cup {"quotaMissing"}
                   /\ here = "try" => l \in Tried
      BY <2>2, <2>4
         DEF LoginFailed, LoginSucceeded, AnswerFailed, AnswerSuccessful, Counting, Tried
    <3>3. pc[c] \notin Counting /\ (pc[c] \in Tried => here = "try")
      BY <2>1 DEF Counting, Tried
    <3> QED
      BY <1>0, <2>1, <3>1, <3>2, <3>3, NotCounting
  <2> QED
    BY <2>3, <2>4
<1> QED
  BY <1>1, <1>2, <1>3, <1>4, <1>5 DEF Next, Login

(* The count that line 68 compares with its limit: an address is never at the   *)
(* limit without having failed that often, for any number of connections and    *)
(* any interleaving of the unlocked `+= 1` and the default stores, and one that *)
(* a connection has for itself gets the tries it is given, not one more.        *)
THEOREM CountIsRight == Spec => []FailuresCounted
<1>1. TypeInv /\ CountInv => FailuresCounted
  <2> SUFFICES ASSUME TypeInv, CountInv PROVE NeverOvercounted /\ LoneQuota
    BY DEF FailuresCounted
  <2>1. NeverOvercounted
    <3> SUFFICES ASSUME NEW ip \in IPs PROVE fails[ip] <= refused[ip]
      BY DEF NeverOvercounted
    <3>1. fails[ip] + Cardinality(Uncounted(ip)) <= refused[ip]
      BY DEF CountInv, NeverAhead
    <3>2. fails[ip] \in Nat /\ refused[ip] \in Nat
      BY DEF TypeInv, TypeOK
    <3> QED
      BY <3>1, <3>2, UncountedFinite
  <2>2. LoneQuota
    BY DEF CountInv, LoneQuota, Lone, LoneCount
  <2> QED
    BY <2>1, <2>2
<1> QED
  BY <1>1, CountInvInit, CountInvStep, TypeInvInit, TypeInvStep, PTL DEF Spec
=============================================================================
