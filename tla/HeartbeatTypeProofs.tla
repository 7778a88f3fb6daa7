-------------------------- MODULE HeartbeatTypeProofs --------------------------
(***************************************************************************)
(* Proofs about Heartbeat: the inductive invariant, what each step does to *)
(* the stream of a handler and to the connection of the client, and type   *)
(* correctness.                                                            *)
(*                                                                         *)
(* Clients that have read all they were sent know the volumes of their     *)
(* master: for every number of masters and volumes and every bound.        *)
(*                                                                         *)
(* The notices that are under way to the client, and the one its master is *)
(* about to send, form one sequence.  For every address and volume, what   *)
(* the sequence says last of it is what the master has registered.         *)
(***************************************************************************)
EXTENDS Heartbeat, Integers, TLAPS

Addrs == {"none", "server", "port0"}

Adds(n, a, v) == n.addr = a /\ v \in n.new
Drops(n, a, v) == n.addr = a /\ v \in n.deleted

SomeAdd(p, a, v) == \E i \in 1..Len(p) : Adds(p[i], a, v)
SomeDrop(p, a, v) == \E i \in 1..Len(p) : Drops(p[i], a, v)

\* Whatever p drops it adds again later; whatever it adds it drops again later.
AddedLast(p, a, v) ==
  \A i \in 1..Len(p) : Drops(p[i], a, v) => \E j \in 1..Len(p) : i < j /\ Adds(p[j], a, v)
DroppedLast(p, a, v) ==
  \A i \in 1..Len(p) : Adds(p[i], a, v) => \E j \in 1..Len(p) : i < j /\ Drops(p[j], a, v)

\* The handler of a stream: between messages there is nothing left to send, and
\* what it has to send agrees with the volumes of its data node.
StreamOK(s) ==
  /\ s.out.leader = NoMaster
  /\ s.task \in {"none", "read", "stop"} => s.out = Nothing
  /\ s.addr = "none" => s.vids = {}
  /\ s.task \in {"none", "tell"} => s.addr = "none"
  /\ s.out.new \subseteq s.vids /\ s.out.deleted \cap s.vids = {}
  /\ s.task # "tell" /\ s.out # Nothing => s.out.addr = s.addr
StreamInv == \A m \in Masters : StreamOK(stream[m])

Following == link.state \in {"registered", "reading"}

\* A notice that is no hint, and does not drop what it adds.
Plain(n) == n.leader = NoMaster /\ n.new \cap n.deleted = {}

\* The connection of the client: notices are plain as long as the master leads, and
\* the first connection begins without locations.
LinkInv ==
  /\ link.state # "off" => link.master \in Masters /\ link.count # 0
  /\ Following => \A i \in 1..Len(link.queue) : Plain(link.queue[i])
  /\ link.count = 0 \/ (link.count = 1 /\ link.state = "registered") => locs = {}

HasIt(a, v) == stream[link.master].addr = a /\ v \in stream[link.master].vids

\* What p says of a volume, after the locations of the client, agrees with the master.
Agrees(p, a, v) ==
  /\ HasIt(a, v) =>
       AddedLast(p, a, v) /\ (link.state = "reading" => <<a, v>> \in locs \/ SomeAdd(p, a, v))
  /\ ~HasIt(a, v) /\ link.count = 1 =>
       DroppedLast(p, a, v) /\ (<<a, v>> \in locs => SomeDrop(p, a, v))

Pending == Append(link.queue, stream[link.master].out)
ClientInv == Following => \A a \in Addrs, v \in Vids : Agrees(Pending, a, v)

IInv == TypeOK /\ StreamInv /\ LinkInv /\ ClientInv

\* What the assumptions say of the setting.
LEMMA SettingFacts ==
  ASSUME setting \in Settings
  PROVE  /\ Seeds \in Seq(Masters) /\ Len(Seeds) \in Nat \ {0} /\ DOMAIN Seeds = 1..Len(Seeds)
         /\ \A i \in DOMAIN Seeds : Seeds[i] \in Masters /\ NextPos(i) \in DOMAIN Seeds
         /\ 1 \in DOMAIN Seeds /\ Cluster \subseteq Masters
         /\ setting.vids \subseteq Vids /\ setting.views \in Nat /\ setting.breaks \in Nat
<1>1. Seeds \in Seq(Masters) /\ Seeds # <<>> /\ setting.vids \subseteq Vids /\ setting.views \in Nat /\ setting.breaks \in Nat
  BY ConstantsAssumption DEF Seeds
<1>2. Len(Seeds) \in Nat \ {0} /\ DOMAIN Seeds = 1..Len(Seeds)
  BY <1>1
<1>3. \A i \in DOMAIN Seeds : Seeds[i] \in Masters
  BY <1>1
<1>4. \A i \in DOMAIN Seeds : NextPos(i) \in DOMAIN Seeds
  BY <1>2 DEF NextPos
<1> QED BY <1>1, <1>2, <1>3, <1>4 DEF Cluster

\* The empty notice is a notice.
LEMMA NothingType == Nothing \in Notices
BY DEF Nothing, Notice, Notices, Leaders

\* A stream that is not open is a stream.
LEMMA NoStreamType == NoStream \in StreamType
BY NothingType DEF NoStream, StreamType

\* A stream that do_heartbeat has just opened.
LEMMA SetOpened ==
  ASSUME NEW t, t = [NoStream EXCEPT !.open = TRUE, !.task = "read"]
  PROVE  t \in StreamType /\ t.task = "read" /\ t.addr = "none" /\ t.vids = {} /\ t.out = Nothing
<1>1. \A s \in StreamType : \A r : r = [s EXCEPT !.open = TRUE, !.task = "read"] =>
        r \in StreamType /\ r.task = "read" /\ r.addr = s.addr /\ r.vids = s.vids /\ r.out = s.out
  BY ZenonT(30) DEF StreamType
<1>2. NoStream.addr = "none" /\ NoStream.vids = {} /\ NoStream.out = Nothing
  BY DEF NoStream
<1> QED BY <1>1, <1>2, NoStreamType, Zenon

\* The types hold at the start.
LEMMA TypeInit == Init => TypeOK
<1> SUFFICES ASSUME Init PROVE TypeOK OBVIOUS
<1>1. setting \in Settings BY DEF Init
<1>2. view \in [Masters -> Leaders]
  BY <1>1, SettingFacts DEF Init, Leaders
<1>3. NoStream \in StreamType
  BY NoStreamType
<1>4. NoLink \in LinkType
  BY <1>1, SettingFacts DEF NoLink, LinkType, Leaders
<1> QED BY <1>1, <1>2, <1>3, <1>4, SettingFacts DEF Init, TypeOK, Leaders

\* Changing one stream keeps the type of the streams.
LEMMA StreamChange ==
  ASSUME stream \in [Masters -> StreamType], NEW m \in Masters, NEW t \in StreamType,
         stream' = [stream EXCEPT ![m] = t]
  PROVE  /\ stream' \in [Masters -> StreamType] /\ stream'[m] = t
         /\ \A n \in Masters \ {m} : stream'[n] = stream[n]
OBVIOUS

\* The setting alone decides the list of masters and the type of the link.
LEMMA SameSetting ==
  ASSUME setting' = setting
  PROVE  Seeds' = Seeds /\ LinkType' = LinkType
BY DEF Seeds, LinkType

\* Steps of Raft and of the server that open at most a stream keep the types.
LEMMA ServerTypes ==
  ASSUME TypeOK,
         \/ \E m \in Cluster, l \in Cluster \cup {NoMaster} : ViewChanges(m, l)
         \/ \E v \in Vids : AddVolume(v) \/ Expire(v)
         \/ PassBy \/ Connect \/ ConnectFails
  PROVE  TypeOK'
<1> USE SettingFacts, SameSetting DEF TypeOK
<1>1. ASSUME NEW m \in Cluster, NEW l \in Cluster \cup {NoMaster}, ViewChanges(m, l) PROVE TypeOK'
  <2>1. l \in Leaders /\ m \in Masters BY DEF Leaders
  <2>2. view' \in [Masters -> Leaders] BY <1>1, <2>1 DEF ViewChanges
  <2> QED BY <1>1, <2>2 DEF ViewChanges, server, client
<1>2. ASSUME NEW v \in Vids, AddVolume(v) PROVE TypeOK'
  BY <1>2 DEF AddVolume, client
<1>3. ASSUME NEW v \in Vids, Expire(v) PROVE TypeOK'
  BY <1>3 DEF Expire, client
<1>4. ASSUME PassBy PROVE TypeOK'
  BY <1>4 DEF PassBy, client
<1>5. ASSUME Connect PROVE TypeOK'
  <2>1. [NoStream EXCEPT !.open = TRUE, !.task = "read"] \in StreamType
    BY SetOpened, Zenon
  <2>2. Seeds[pos] \in Masters OBVIOUS
  <2>3. stream' \in [Masters -> StreamType]
    BY <1>5, <2>1, <2>2, StreamChange DEF Connect
  <2> QED BY <1>5, <2>2, <2>3 DEF Connect, client, Leaders
<1>6. ASSUME ConnectFails PROVE TypeOK'
  BY SMTT(30), <1>6 DEF ConnectFails, client, Leaders
<1> QED BY <1>1, <1>2, <1>3, <1>4, <1>5, <1>6

\* Fields of a stream that are given values of their types.
LEMMA StreamFields ==
  ASSUME NEW s \in StreamType
  PROVE  /\ s.up \in Seq(Messages) /\ s.down \in Seq(Masters) /\ s.vids \subseteq Vids
         /\ s.addr \in Addrs /\ s.out \in Notices /\ s.open \in BOOLEAN
BY DEF StreamType, Addrs

\* What a step leaves alone of a stream: all that a client could notice.
Same(m) ==
  /\ stream'[m].task = stream[m].task /\ stream'[m].addr = stream[m].addr
  /\ stream'[m].vids = stream[m].vids /\ stream'[m].out = stream[m].out

\* The server's end of a stream.
LEMMA QuietSteps ==
  ASSUME TypeOK, Tick \/ SendNew \/ Answered \/ StreamOver \/ StreamBreaks
  PROVE  conn \in Masters /\ stream' \in [Masters -> StreamType] /\ \A m \in Masters : Same(m)
<1>1. conn \in Masters /\ stream[conn] \in StreamType
  BY DEF TypeOK, Leaders, Tick, SendNew, Send, Answered, StreamOver, StreamBreaks
<1>2. stream[conn].up \in Seq(Messages) /\ stream[conn].down \in Seq(Masters)
  BY <1>1, StreamFields
<1>3. stream \in [Masters -> StreamType]
  BY DEF TypeOK
<1>4. ASSUME NEW t \in StreamType, stream' = [stream EXCEPT ![conn] = t],
             t.task = stream[conn].task, t.addr = stream[conn].addr, t.vids = stream[conn].vids, t.out = stream[conn].out
      PROVE  stream' \in [Masters -> StreamType] /\ \A m \in Masters : Same(m)
  BY <1>1, <1>3, <1>4, StreamChange DEF Same
<1>5. ASSUME NEW msg \in Messages, Send(msg)
      PROVE  stream' \in [Masters -> StreamType] /\ \A m \in Masters : Same(m)
  <2> DEFINE q == Append(stream[conn].up, msg)
             t == [stream[conn] EXCEPT !.up = q]
  <2>1. q \in Seq(Messages) BY <1>2
  <2>2. stream' = [stream EXCEPT ![conn] = t] BY <1>5, Zenon DEF Send
  <2> HIDE DEF q
  <2>3. t = [stream[conn] EXCEPT !.up = q] OBVIOUS
  <2> HIDE DEF t
  <2>4. t \in StreamType /\ t.task = stream[conn].task /\ t.addr = stream[conn].addr
        /\ t.vids = stream[conn].vids /\ t.out = stream[conn].out
    BY <1>1, <2>1, <2>3 DEF StreamType
  <2> QED BY <1>4, <2>2, <2>4
<1>6. ASSUME NEW l, NEW m, Leave(l, m)
      PROVE  stream' \in [Masters -> StreamType] /\ \A k \in Masters : Same(k)
  <2> DEFINE q == <<>>
             t == [stream[conn] EXCEPT !.open = FALSE, !.down = q]
  <2>1. q \in Seq(Masters) OBVIOUS
  <2>2. stream' = [stream EXCEPT ![conn] = t] BY <1>6, Zenon DEF Leave
  <2> HIDE DEF q
  <2>3. t = [stream[conn] EXCEPT !.open = FALSE, !.down = q] OBVIOUS
  <2> HIDE DEF t
  <2>4. t \in StreamType /\ t.task = stream[conn].task /\ t.addr = stream[conn].addr
        /\ t.vids = stream[conn].vids /\ t.out = stream[conn].out
    BY <1>1, <2>1, <2>3 DEF StreamType
  <2> QED BY <1>4, <2>2, <2>4
<1>7. CASE Tick
  <2>1. Full(has) \in Messages BY DEF TypeOK, Full, Messages
  <2> QED BY <1>1, <1>5, <1>7, <2>1 DEF Tick
<1>8. CASE SendNew
  <2>1. New(Head(newVolumes)) \in Messages BY <1>8 DEF TypeOK, New, Messages, SendNew
  <2> QED BY <1>1, <1>5, <1>8, <2>1 DEF SendNew
<1>9. CASE Answered
  <2>1. CASE stream' = [stream EXCEPT ![conn].down = Tail(@)]
    <3> DEFINE q == Tail(stream[conn].down)
               t == [stream[conn] EXCEPT !.down = q]
    <3>1. q \in Seq(Masters) BY <1>2, <1>9 DEF Answered
    <3>2. stream' = [stream EXCEPT ![conn] = t] BY <2>1, Zenon
    <3> HIDE DEF q
    <3>3. t = [stream[conn] EXCEPT !.down = q] OBVIOUS
    <3> HIDE DEF t
    <3>4. t \in StreamType /\ t.task = stream[conn].task /\ t.addr = stream[conn].addr
          /\ t.vids = stream[conn].vids /\ t.out = stream[conn].out
      BY <1>1, <3>1, <3>3 DEF StreamType
    <3> QED BY <1>1, <1>4, <3>2, <3>4
  <2> QED BY <1>1, <1>6, <1>9, <2>1, Zenon DEF Answered
<1> QED BY <1>1, <1>6, <1>7, <1>8, <1>9, Zenon DEF StreamOver, StreamBreaks

\* Connect replaces a stream whose handler is gone.
LEMMA ConnectStep ==
  ASSUME TypeOK, Connect
  PROVE  \E m \in Masters : LET t == stream'[m] IN
           /\ m = Seeds[pos] /\ stream' \in [Masters -> StreamType] /\ \A n \in Masters \ {m} : stream'[n] = stream[n]
           /\ stream[m].task = "none"
           /\ t.task = "read" /\ t.addr = "none" /\ t.vids = {} /\ t.out = Nothing
<1> DEFINE m == Seeds[pos]
           t == [NoStream EXCEPT !.open = TRUE, !.task = "read"]
<1>1. m \in Masters BY SettingFacts DEF TypeOK
<1>2. t \in StreamType /\ t.task = "read" /\ t.addr = "none" /\ t.vids = {} /\ t.out = Nothing
  BY SetOpened, Zenon
<1>3. stream' = [stream EXCEPT ![m] = t] /\ stream[m].task = "none" BY Zenon DEF Connect
<1>4. stream \in [Masters -> StreamType] BY DEF TypeOK
<1> HIDE DEF t, m
<1>5. stream' \in [Masters -> StreamType] /\ stream'[m] = t /\ \A n \in Masters \ {m} : stream'[n] = stream[n]
  BY <1>1, <1>2, <1>3, <1>4, StreamChange
<1> QED BY <1>1, <1>2, <1>3, <1>5 DEF m

\* Every notice a handler makes is one.
LEMMA NoticeTypes ==
  ASSUME NEW a \in Addrs, NEW V \in SUBSET Vids, NEW W \in SUBSET Vids
  PROVE  Notice(a, V, W) \in Notices
BY DEF Notice, Notices, Leaders, Addrs

\* What Handle does to its stream.
LEMMA HandleStep ==
  ASSUME TypeOK, NEW m \in Masters, Handle(m)
  PROVE  LET s == stream[m]
             t == stream'[m]
             msg == Head(s.up) IN
         /\ stream' \in [Masters -> StreamType] /\ \A n \in Masters \ {m} : stream'[n] = stream[n]
         /\ msg \in Messages /\ s.task = "read" /\ t.task = "answer"
         /\ \/ t.addr = s.addr /\ t.vids = s.vids /\ t.out = s.out
            \/ s.addr = "none" /\ t.addr \in Addrs \ {"none"} /\ t.vids = s.vids /\ t.out = s.out
            \/ /\ s.addr # "none" /\ t.addr = s.addr
               /\ t.vids = VidsAfter(s, msg) /\ t.out = NoticeOf(s, msg)
<1> DEFINE s == stream[m]
           msg == Head(s.up)
           q == Tail(s.up)
           read == [s EXCEPT !.up = q, !.task = "answer"]
<1>1. stream \in [Masters -> StreamType] /\ s \in StreamType BY DEF TypeOK
<1>2. s.up \in Seq(Messages) /\ s.vids \subseteq Vids /\ s.addr \in Addrs BY <1>1, StreamFields
<1>3. s.task = "read" /\ s.up # <<>> BY Zenon DEF Handle
<1>4. msg \in Messages /\ q \in Seq(Messages) BY <1>2, <1>3
<1>5. PICK r : r = read OBVIOUS
<1> HIDE DEF q
<1>6. r \in StreamType /\ r.task = "answer" /\ r.addr = s.addr /\ r.vids = s.vids /\ r.out = s.out
  BY <1>1, <1>4, <1>5 DEF StreamType
<1>7. ASSUME NEW t \in StreamType, stream' = [stream EXCEPT ![m] = t]
      PROVE  /\ stream' \in [Masters -> StreamType] /\ stream'[m] = t
             /\ \A n \in Masters \ {m} : stream'[n] = stream[n]
  BY <1>1, <1>7, StreamChange
<1>8. CASE stream' = [stream EXCEPT ![m] = read]
  BY <1>3, <1>4, <1>5, <1>6, <1>7, <1>8
<1>9. CASE s.addr = "none" /\ stream' = [stream EXCEPT ![m] = [read EXCEPT !.addr = AddressIn(msg)]]
  <2>1. AddressIn(msg) \in Addrs \ {"none"} BY DEF AddressIn, Addrs
  <2>2. PICK a : a = AddressIn(msg) OBVIOUS
  <2>3. PICK t : t = [r EXCEPT !.addr = a] OBVIOUS
  <2>4. t \in StreamType /\ t.task = "answer" /\ t.addr = a /\ t.vids = s.vids /\ t.out = s.out
    BY <1>6, <2>1, <2>2, <2>3 DEF StreamType, Addrs
  <2>5. stream' = [stream EXCEPT ![m] = t] BY <1>5, <1>9, <2>2, <2>3, Zenon
  <2>6. stream' \in [Masters -> StreamType] /\ stream'[m] = t /\ \A n \in Masters \ {m} : stream'[n] = stream[n]
    BY <1>7, <2>4, <2>5
  <2> QED BY <1>3, <1>4, <1>9, <2>1, <2>2, <2>4, <2>6
<1>10. CASE s.addr # "none" /\ stream' = [stream EXCEPT ![m] =
               [read EXCEPT !.vids = VidsAfter(s, msg), !.out = NoticeOf(s, msg)]]
  <2>1. VidsAfter(s, msg) \in SUBSET Vids BY <1>2, <1>4 DEF VidsAfter, Messages
  <2>2. NoticeOf(s, msg) \in Notices
    BY <1>2, <1>4, <2>1, NoticeTypes DEF NoticeOf, Messages
  <2>3. PICK V \in SUBSET Vids : V = VidsAfter(s, msg) BY <2>1
  <2>4. PICK n \in Notices : n = NoticeOf(s, msg) BY <2>2
  <2>5. PICK t : t = [r EXCEPT !.vids = V, !.out = n] OBVIOUS
  <2>6. t \in StreamType /\ t.task = "answer" /\ t.addr = s.addr /\ t.vids = V /\ t.out = n
    BY <1>6, <2>5 DEF StreamType
  <2>7. stream' = [stream EXCEPT ![m] = t] BY <1>5, <1>10, <2>3, <2>4, <2>5, Zenon
  <2>8. stream' \in [Masters -> StreamType] /\ stream'[m] = t /\ \A k \in Masters \ {m} : stream'[k] = stream[k]
    BY <1>7, <2>6, <2>7
  <2> QED BY <1>3, <1>4, <1>10, <2>3, <2>4, <2>6, <2>8
<1> QED BY <1>8, <1>9, <1>10, Zenon DEF Handle, q

\* What Answer does to its stream.
LEMMA AnswerStep ==
  ASSUME TypeOK, NEW m \in Masters, Answer(m)
  PROVE  /\ stream' \in [Masters -> StreamType] /\ \A n \in Masters \ {m} : stream'[n] = stream[n]
         /\ stream[m].task = "answer" /\ stream'[m].task \in {"read", "stop"}
         /\ stream'[m].addr = stream[m].addr /\ stream'[m].vids = stream[m].vids /\ stream'[m].out = Nothing
<1> DEFINE s == stream[m]
<1>1. stream \in [Masters -> StreamType] /\ s \in StreamType BY DEF TypeOK
<1>2. s.down \in Seq(Masters) BY <1>1, StreamFields
<1>3. s.task = "answer" BY Zenon DEF Answer
<1>4. ASSUME NEW t \in StreamType, stream' = [stream EXCEPT ![m] = t]
      PROVE  /\ stream' \in [Masters -> StreamType] /\ stream'[m] = t
             /\ \A n \in Masters \ {m} : stream'[n] = stream[n]
  BY <1>1, <1>4, StreamChange
<1>5. CASE view[m] # NoMaster
  <2>1. view[m] \in Masters BY <1>5 DEF TypeOK, Leaders
  <2>2. PICK q : q = IF s.open THEN Append(s.down, view[m]) ELSE <<>> OBVIOUS
  <2>3. q \in Seq(Masters) BY <1>2, <2>1, <2>2
  <2>4. PICK t : t = [s EXCEPT !.out = Nothing, !.task = "read", !.down = q] OBVIOUS
  <2>5. t \in StreamType /\ t.task = "read" /\ t.addr = s.addr /\ t.vids = s.vids /\ t.out = Nothing
    BY <1>1, <2>3, <2>4, NothingType DEF StreamType
  <2>6. stream' = [stream EXCEPT ![m] = t] BY <1>5, <2>2, <2>4, Zenon DEF Answer
  <2>7. stream' \in [Masters -> StreamType] /\ stream'[m] = t /\ \A n \in Masters \ {m} : stream'[n] = stream[n]
    BY <1>4, <2>5, <2>6
  <2> QED BY <1>3, <2>5, <2>7
<1>6. CASE view[m] = NoMaster
  <2>1. PICK t : t = [s EXCEPT !.out = Nothing, !.task = "stop"] OBVIOUS
  <2>2. t \in StreamType /\ t.task = "stop" /\ t.addr = s.addr /\ t.vids = s.vids /\ t.out = Nothing
    BY <1>1, <2>1, NothingType DEF StreamType
  <2>3. stream' = [stream EXCEPT ![m] = t] BY <1>6, <2>1, Zenon DEF Answer
  <2>4. stream' \in [Masters -> StreamType] /\ stream'[m] = t /\ \A n \in Masters \ {m} : stream'[n] = stream[n]
    BY <1>4, <2>2, <2>3
  <2> QED BY <1>3, <2>2, <2>4
<1> QED BY <1>5, <1>6

\* A stream without messages.
LEMMA EmptyUp == <<>> \in Seq(Messages)
OBVIOUS

\* What InStreamEnds does to its stream.
LEMMA EndStep ==
  ASSUME TypeOK, NEW m \in Masters, InStreamEnds(m)
  PROVE  /\ stream' \in [Masters -> StreamType] /\ \A n \in Masters \ {m} : stream'[n] = stream[n]
         /\ stream[m].task = "read" /\ stream'[m].task = "stop"
         /\ stream'[m].addr = stream[m].addr /\ stream'[m].vids = stream[m].vids /\ stream'[m].out = stream[m].out
<1>1. stream \in [Masters -> StreamType] /\ stream[m] \in StreamType BY DEF TypeOK
<1>2. PICK q \in Seq(Messages) : q = <<>> BY EmptyUp, Zenon
<1>3. PICK t : t = [stream[m] EXCEPT !.task = "stop", !.up = q] OBVIOUS
<1>4. /\ t \in StreamType /\ t.task = "stop" /\ t.addr = stream[m].addr /\ t.vids = stream[m].vids
      /\ t.out = stream[m].out
  BY <1>1, <1>3 DEF StreamType
<1>5. stream' = [stream EXCEPT ![m] = t] /\ stream[m].task = "read" BY <1>2, <1>3, Zenon DEF InStreamEnds
<1> QED BY <1>1, <1>4, <1>5, StreamChange

\* What RemoveDataNode does to its stream.
LEMMA RemoveStep ==
  ASSUME TypeOK, NEW m \in Masters, RemoveDataNode(m)
  PROVE  /\ stream' \in [Masters -> StreamType] /\ \A n \in Masters \ {m} : stream'[n] = stream[n]
         /\ stream[m].task = "stop" /\ stream'[m].task = "tell"
         /\ stream'[m].addr = "none" /\ stream'[m].vids = {} /\ stream'[m].out = Gone(stream[m])
<1>1. stream \in [Masters -> StreamType] /\ stream[m] \in StreamType BY DEF TypeOK
<1>2. Gone(stream[m]) \in Notices BY <1>1, StreamFields, NoticeTypes DEF Gone
<1>3. PICK n \in Notices : n = Gone(stream[m]) BY <1>2
<1>4. PICK q \in Seq(Messages) : q = <<>> BY EmptyUp, Zenon
<1>5. PICK V \in SUBSET Vids : V = {} OBVIOUS
<1>6. PICK t : t = [stream[m] EXCEPT !.task = "tell", !.up = q, !.addr = "none", !.vids = V, !.out = n] OBVIOUS
<1>7. t \in StreamType /\ t.task = "tell" /\ t.addr = "none" /\ t.vids = V /\ t.out = n
  BY <1>1, <1>6 DEF StreamType
<1>8. stream' = [stream EXCEPT ![m] = t] /\ stream[m].task = "stop"
  BY <1>3, <1>4, <1>5, <1>6, Zenon DEF RemoveDataNode
<1> QED BY <1>1, <1>3, <1>5, <1>7, <1>8, StreamChange

\* What TellGone does to its stream.
LEMMA TellStep ==
  ASSUME TypeOK, NEW m \in Masters, TellGone(m)
  PROVE  /\ stream' \in [Masters -> StreamType] /\ \A n \in Masters \ {m} : stream'[n] = stream[n]
         /\ stream[m].task = "tell" /\ stream'[m].task = "none"
         /\ stream'[m].addr = stream[m].addr /\ stream'[m].vids = stream[m].vids /\ stream'[m].out = Nothing
<1>1. stream \in [Masters -> StreamType] /\ stream[m] \in StreamType BY DEF TypeOK
<1>2. PICK t : t = [stream[m] EXCEPT !.task = "none", !.out = Nothing] OBVIOUS
<1>3. /\ t \in StreamType /\ t.task = "none" /\ t.addr = stream[m].addr /\ t.vids = stream[m].vids
      /\ t.out = Nothing
  BY <1>1, <1>2, NothingType DEF StreamType
<1>4. stream' = [stream EXCEPT ![m] = t] /\ stream[m].task = "tell" BY <1>2, Zenon DEF TellGone
<1> QED BY <1>1, <1>3, <1>4, StreamChange

(***************************************************************************)
(* Steps of the client's connection                                        *)
(***************************************************************************)
\* The fields of the link have their types.
LEMMA LinkFields ==
  ASSUME link \in LinkType
  PROVE  /\ link.state \in {"off", "registered", "reading", "closing"} /\ link.master \in Leaders
         /\ link.queue \in Seq(Notices) /\ link.next \in DOMAIN Seeds /\ link.hint \in Leaders
         /\ link.sent \in 0..1 /\ link.count \in 0..2
BY DEF LinkType

\* What a notice does to the link.
LEMMA ToldStep ==
  ASSUME link \in LinkType, NEW m, NEW n \in Notices, link' = Told(m, n)
  PROVE  /\ link' \in LinkType
         /\ link'.state = link.state /\ link'.master = link.master /\ link'.count = link.count
         /\ link'.queue = IF link.master = m /\ Following /\ n.new \cup n.deleted # {}
                         THEN Append(link.queue, n) ELSE link.queue
<1>1. CASE link' = link /\ ~(link.master = m /\ Following /\ n.new \cup n.deleted # {})
  BY <1>1
<1>2. CASE link' = [link EXCEPT !.queue = Append(@, n)] /\ link.master = m /\ Following /\ n.new \cup n.deleted # {}
  <2>1. PICK q : q = Append(link.queue, n) OBVIOUS
  <2>2. q \in Seq(Notices) BY <2>1, LinkFields
  <2>3. link' = [link EXCEPT !.queue = q] BY <1>2, <2>1, Zenon
  <2>4. /\ link' \in LinkType /\ link'.state = link.state /\ link'.master = link.master
        /\ link'.count = link.count /\ link'.queue = q
    BY <2>2, <2>3 DEF LinkType
  <2> QED BY <1>2, <2>1, <2>4
<1> QED BY <1>1, <1>2, Zenon DEF Told, Following

\* The link after an error.
LEMMA RestartedFacts ==
  ASSUME setting \in Settings, link \in LinkType
  PROVE  Restarted \in LinkType /\ Restarted.state = "off" /\ Restarted.count = link.count
<1>1. PICK c \in 0..2 : c = link.count BY LinkFields
<1>2. NoLink \in LinkType /\ NoLink.state = "off"
  BY SettingFacts DEF NoLink, LinkType, Leaders
<1>3. PICK k : k = NoLink OBVIOUS
<1>4. PICK r : r = [k EXCEPT !.count = c] OBVIOUS
<1>5. r \in LinkType /\ r.state = k.state /\ r.count = c BY <1>2, <1>3, <1>4 DEF LinkType
<1>6. Restarted = r BY <1>1, <1>3, <1>4, Zenon DEF Restarted
<1> QED BY <1>1, <1>2, <1>3, <1>5, <1>6

\* What Register does to the link.
LEMMA RegisterStep ==
  ASSUME TypeOK, Register
  PROVE  /\ link' \in LinkType /\ link.state = "off" /\ link'.state = "registered"
         /\ link'.master \in Masters /\ link'.queue = <<>> /\ link'.count = IF link.count = 0 THEN 1 ELSE 2
<1>1. link \in LinkType /\ setting \in Settings BY DEF TypeOK
<1>2. PICK m : m = Target OBVIOUS
<1>3. m \in Masters
  BY <1>1, <1>2, LinkFields, SettingFacts DEF Target, Leaders
<1>4. PICK q \in Seq(Notices) : q = <<>>
  <2>1. <<>> \in Seq(Notices) OBVIOUS
  <2> QED BY <2>1, Zenon
<1>5. PICK c : c = IF link.count = 0 THEN 1 ELSE 2 OBVIOUS
<1>6. NoMaster \in Leaders /\ m \in Leaders /\ c \in 0..2 BY <1>3, <1>5 DEF Leaders
<1>7. link' = [link EXCEPT !.state = "registered", !.master = m, !.queue = q, !.hint = NoMaster, !.count = c]
  BY <1>2, <1>4, <1>5, Zenon DEF Register
<1>8. /\ link' \in LinkType /\ link'.state = "registered" /\ link'.master = m /\ link'.queue = q
      /\ link'.count = c
  BY <1>1, <1>6, <1>7 DEF LinkType
<1>9. link.state = "off" BY Zenon DEF Register
<1> QED BY <1>3, <1>4, <1>5, <1>8, <1>9

\* What SendLocations does to the link.
LEMMA SendLocationsStep ==
  ASSUME TypeOK, SendLocations, link.master \in Masters
  PROVE  /\ link' \in LinkType /\ link.state = "registered" /\ link'.state = "reading"
         /\ link'.master = link.master /\ link'.count = link.count
         /\ Snapshot(link.master) \in Notices
         /\ link'.queue = <<Snapshot(link.master)>> \o link.queue
<1>1. link \in LinkType /\ link.queue \in Seq(Notices) BY LinkFields DEF TypeOK
<1>2. Snapshot(link.master) \in Notices
  <2>1. stream[link.master] \in StreamType BY DEF TypeOK
  <2> QED BY <2>1, StreamFields, NoticeTypes DEF Snapshot
<1>3. PICK q : q = <<Snapshot(link.master)>> \o link.queue OBVIOUS
<1>4. q \in Seq(Notices)
  BY <1>1, <1>2, <1>3
<1>5. link.state = "registered" BY Zenon DEF SendLocations
<1>8. PICK one \in 0..1 : one = 1 OBVIOUS
<1>6. link' = [link EXCEPT !.state = "reading", !.queue = q, !.sent = one]
  BY <1>3, <1>8, Zenon DEF SendLocations, Subscribed
<1>7. /\ link' \in LinkType /\ link'.state = "reading" /\ link'.master = link.master
      /\ link'.count = link.count /\ link'.queue = q
  BY <1>1, <1>4, <1>6 DEF LinkType
<1> QED BY <1>2, <1>3, <1>5, <1>7

\* What LoseClient does to the link.
LEMMA LoseClientStep ==
  ASSUME TypeOK, LoseClient, link.master \in Masters
  PROVE  /\ link' \in LinkType /\ link.state = "reading" /\ link'.state = "closing"
         /\ link'.master = link.master /\ link'.count = link.count
<1>1. link \in LinkType /\ link.queue \in Seq(Notices) /\ link.sent \in 0..1 BY LinkFields DEF TypeOK
<1>2. PICK k \in link.sent..Len(link.queue) :
        link' = [link EXCEPT !.state = "closing",
          !.queue = IF view[link.master] = NoMaster THEN SubSeq(link.queue, 1, k)
                    ELSE Append(SubSeq(link.queue, 1, k), Leader(view[link.master]))]
  BY Zenon DEF LoseClient
<1>3. SubSeq(link.queue, 1, k) \in Seq(Notices)
  <2>1. k \in Int /\ k <= Len(link.queue) BY <1>1
  <2>2. \A i \in 1..k : link.queue[i] \in Notices BY <1>1, <2>1
  <2> QED BY <2>1, <2>2
<1>4. Leader(view[link.master]) \in Notices
  <2>1. view[link.master] \in Leaders BY DEF TypeOK
  <2> QED BY <2>1, NothingType DEF Leader, Notices
<1>5. PICK q : q = IF view[link.master] = NoMaster THEN SubSeq(link.queue, 1, k)
                   ELSE Append(SubSeq(link.queue, 1, k), Leader(view[link.master]))
  OBVIOUS
<1>6. q \in Seq(Notices) BY <1>3, <1>4, <1>5
<1>7. link' = [link EXCEPT !.state = "closing", !.queue = q] BY <1>2, <1>5, Zenon
<1>8. link.state = "reading" BY Zenon DEF LoseClient
<1> QED BY <1>1, <1>6, <1>7, <1>8 DEF LinkType

\* What Receive does to the link and the locations.
LEMMA ReceiveStep ==
  ASSUME TypeOK, Receive
  PROVE  /\ link' \in LinkType /\ link.state \in {"reading", "closing"} /\ link.queue # <<>>
         /\ Head(link.queue) \in Notices /\ link'.count = link.count
         /\ \/ /\ link'.state = link.state /\ link'.master = link.master /\ link'.queue = Tail(link.queue)
               /\ locs' = Applied(Head(link.queue))
            \/ Head(link.queue).leader # NoMaster /\ link'.state = "off" /\ locs' = locs
<1>1. link \in LinkType /\ link.queue \in Seq(Notices) BY LinkFields DEF TypeOK
<1>2. link.state \in {"reading", "closing"} /\ link.queue # <<>> BY Zenon DEF Receive
<1>3. PICK n \in Notices : n = Head(link.queue) BY <1>1, <1>2
<1>4. PICK q \in Seq(Notices) : q = Tail(link.queue)
  <2>1. Tail(link.queue) \in Seq(Notices) BY <1>1, <1>2
  <2> QED BY <2>1, Zenon
<1>7. PICK zero \in 0..1 : zero = 0 OBVIOUS
<1>5. CASE locs' = Applied(n) /\ link' = [link EXCEPT !.queue = q, !.sent = zero]
  <2>1. /\ link' \in LinkType /\ link'.state = link.state /\ link'.master = link.master
        /\ link'.queue = q /\ link'.count = link.count
    BY <1>1, <1>5 DEF LinkType
  <2> QED BY <1>2, <1>3, <1>4, <1>5, <2>1
<1>6. CASE /\ n.leader # NoMaster /\ locs' = locs
           /\ link' = [link EXCEPT !.state = "off", !.master = NoMaster, !.queue = <<>>,
                                   !.hint = n.leader, !.sent = 0]
  <2>1. PICK e \in Seq(Notices) : e = <<>>
    <3>1. <<>> \in Seq(Notices) OBVIOUS
    <3> QED BY <3>1, Zenon
  <2>2. PICK h \in Leaders : h = n.leader BY DEF Notices
  <2>3. link' = [link EXCEPT !.state = "off", !.master = NoMaster, !.queue = e, !.hint = h, !.sent = zero]
    BY <1>6, <1>7, <2>1, <2>2, Zenon
  <2>4. NoMaster \in Leaders BY DEF Leaders
  <2>5. link' \in LinkType /\ link'.state = "off" /\ link'.count = link.count
    BY <1>1, <2>3, <2>4 DEF LinkType
  <2> QED BY <1>2, <1>3, <1>6, <2>5
<1> QED BY <1>3, <1>4, <1>5, <1>6, <1>7, Zenon DEF Receive

\* What ClientStreamOver does to the link and the locations.
LEMMA ClientOverStep ==
  ASSUME TypeOK, ClientStreamOver
  PROVE  link' \in LinkType /\ link'.state = "off" /\ link'.count = link.count /\ locs' = {}
<1>1. link \in LinkType /\ setting \in Settings BY DEF TypeOK
<1>2. PICK r : r = Restarted OBVIOUS
<1>3. r \in LinkType /\ r.state = "off" /\ r.count = link.count BY <1>1, <1>2, RestartedFacts
<1>4. PICK i \in DOMAIN Seeds : i = NextPos(link.next) BY <1>1, LinkFields, SettingFacts
<1>5. link' = [r EXCEPT !.next = i] /\ locs' = {} BY <1>2, <1>4, Zenon DEF ClientStreamOver
<1> QED BY <1>3, <1>5 DEF LinkType

(***************************************************************************)
(* Type correctness                                                        *)
(***************************************************************************)
\* A step of a client's connection leaves the rest to the type of the link.
LEMMA ClientTypes ==
  ASSUME TypeOK, StreamInv, LinkInv, ClientStep \/ ClientBreaks
  PROVE  TypeOK'
<1> USE SameSetting DEF TypeOK
<1>1. link \in LinkType /\ setting \in Settings OBVIOUS
<1>2. link.state # "off" => link.master \in Masters BY DEF LinkInv
<1>3. CASE Register BY <1>3, RegisterStep DEF Register, server
<1>4. CASE Refused
  <2>1. link' \in LinkType BY <1>1, <1>4, RestartedFacts DEF Refused
  <2> QED BY <1>4, <2>1 DEF Refused, server
<1>5. CASE SendLocations
  <2>1. link.state = "registered" BY <1>5, Zenon DEF SendLocations
  <2>2. link.master \in Masters BY <1>2, <2>1, Zenon
  <2> QED BY <1>5, <2>2, SendLocationsStep DEF SendLocations, server
<1>6. CASE LoseClient
  <2>1. link.state = "reading" BY <1>6, Zenon DEF LoseClient
  <2>2. link.master \in Masters BY <1>2, <2>1, Zenon
  <2>3. link' \in LinkType BY <1>6, <2>2, LoseClientStep
  <2>4. UNCHANGED <<view, server, stream, locs, breaks, views>> BY <1>6, Zenon DEF LoseClient
  <2> QED BY <2>3, <2>4 DEF server
<1>7. CASE Receive
  <2>1. link' \in LinkType /\ Head(link.queue) \in Notices
        /\ (locs' = Applied(Head(link.queue)) \/ locs' = locs)
    BY <1>7, ReceiveStep
  <2>2. \A n \in Notices : Applied(n) \subseteq {"none", "server", "port0"} \X Vids
    BY DEF Applied, Notices
  <2>3. locs' \subseteq {"none", "server", "port0"} \X Vids
    BY <2>1, <2>2
  <2> QED BY <1>7, <2>1, <2>3 DEF Receive, server
<1>8. CASE ClientStreamOver BY <1>8, ClientOverStep DEF ClientStreamOver, server
<1>9. CASE ClientBreaks
  <2>1. breaks' \in 0..setting.breaks BY <1>9, SettingFacts DEF ClientBreaks
  <2> QED BY <1>1, <1>9, <2>1, RestartedFacts DEF ClientBreaks, server
<1> QED BY <1>3, <1>4, <1>5, <1>6, <1>7, <1>8, <1>9 DEF ClientStep

\* A step of a handler changes its stream, and the link through a notice.
LEMMA MasterTypes ==
  ASSUME TypeOK, NEW m \in Masters, MasterStep(m)
  PROVE  TypeOK'
<1> USE SameSetting DEF TypeOK
<1>1. stream[m].out \in Notices BY StreamFields
<1>2. CASE Handle(m)
  <2>1. stream' \in [Masters -> StreamType] BY <1>2, HandleStep
  <2> QED BY <1>2, <2>1 DEF Handle, server, client
<1>3. CASE Answer(m)
  <2>1. stream' \in [Masters -> StreamType] BY <1>3, AnswerStep
  <2>2. link' \in LinkType BY <1>1, <1>3, ToldStep DEF Answer
  <2> QED BY <1>3, <2>1, <2>2 DEF Answer, server
<1>4. CASE InStreamEnds(m)
  <2>1. stream' \in [Masters -> StreamType] BY <1>4, EndStep
  <2> QED BY <1>4, <2>1 DEF InStreamEnds, server, client
<1>5. CASE RemoveDataNode(m)
  <2>1. stream' \in [Masters -> StreamType] BY <1>5, RemoveStep
  <2> QED BY <1>5, <2>1 DEF RemoveDataNode, server, client
<1>6. CASE TellGone(m)
  <2>1. stream' \in [Masters -> StreamType] BY <1>6, TellStep
  <2>2. link' \in LinkType BY <1>1, <1>6, ToldStep DEF TellGone
  <2> QED BY <1>6, <2>1, <2>2 DEF TellGone, server
<1> QED BY <1>2, <1>3, <1>4, <1>5, <1>6 DEF MasterStep

\* A step of the server's end of a stream.
LEMMA QuietTypes ==
  ASSUME TypeOK, Tick \/ SendNew \/ Answered \/ StreamOver \/ StreamBreaks
  PROVE  TypeOK'
<1> USE SameSetting DEF TypeOK
<1>1. conn \in Masters /\ stream' \in [Masters -> StreamType] BY QuietSteps
<1>2. NextPos(pos) \in DOMAIN Seeds /\ NoMaster \in Leaders BY SettingFacts DEF Leaders
<1>3. stream[conn].down \in Seq(Masters) BY <1>1, StreamFields
<1>4. CASE Tick BY <1>1, <1>4 DEF Tick, server, client
<1>5. CASE SendNew
  <2>1. newVolumes' \in Seq(Vids) BY <1>5 DEF SendNew
  <2> QED BY <1>1, <1>5, <2>1 DEF SendNew, client
<1>6. CASE Answered
  <2>1. Head(stream[conn].down) \in Leaders BY <1>3, <1>6 DEF Answered, Leaders
  <2>2. pos' \in DOMAIN Seeds /\ newLeader' \in Leaders /\ current' \in Leaders /\ conn' \in Leaders
    BY <1>2, <1>6, <2>1 DEF Answered, Leave
  <2> QED BY <1>1, <1>6, <2>2 DEF Answered, client
<1>7. CASE StreamOver
  <2>1. pos' \in DOMAIN Seeds /\ newLeader' \in Leaders /\ current' \in Leaders /\ conn' \in Leaders
    BY <1>2, <1>7 DEF StreamOver, Leave
  <2> QED BY <1>1, <1>7, <2>1 DEF StreamOver, client
<1>8. CASE StreamBreaks
  <2>1. pos' \in DOMAIN Seeds /\ newLeader' \in Leaders /\ current' \in Leaders /\ conn' \in Leaders
    BY <1>2, <1>8 DEF StreamBreaks, Leave
  <2>2. breaks' \in 0..setting.breaks BY <1>8, SettingFacts DEF StreamBreaks
  <2> QED BY <1>1, <1>8, <2>1, <2>2 DEF StreamBreaks, client
<1> QED BY <1>4, <1>5, <1>6, <1>7, <1>8

\* Every step keeps the types.
LEMMA TypeStep ==
  ASSUME TypeOK, StreamInv, LinkInv, Next
  PROVE  TypeOK'
<1>1. Cluster \subseteq Masters BY SettingFacts DEF TypeOK
<1> QED BY <1>1, ServerTypes, QuietTypes, MasterTypes, ClientTypes, Zenon DEF Next, ServerStep

=============================================================================
