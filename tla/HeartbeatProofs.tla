---------------------------- MODULE HeartbeatProofs ----------------------------
(***************************************************************************)
(* Proofs about Heartbeat: the sequence of notices to the client, and the  *)
(* theorems.                                                               *)
(***************************************************************************)
EXTENDS HeartbeatTypeProofs

(***************************************************************************)
(* The handlers of the streams                                             *)
(***************************************************************************)
\* The empty notice is one a handler may hold with any data node.
LEMMA NothingFacts ==
  /\ Nothing.leader = NoMaster /\ Nothing.new = {} /\ Nothing.deleted = {} /\ Plain(Nothing)
  /\ \A a, v : ~Adds(Nothing, a, v) /\ ~Drops(Nothing, a, v)
BY DEF Nothing, Notice, Plain, Adds, Drops

\* Every step keeps StreamInv.
LEMMA StreamStep ==
  ASSUME TypeOK, StreamInv, LinkInv, Next
  PROVE  StreamInv'
<1>1. Cluster \subseteq Masters BY SettingFacts DEF TypeOK
<1>2. ASSUME UNCHANGED stream PROVE StreamInv' BY <1>2 DEF StreamInv, StreamOK
<1>3. ASSUME \A m \in Masters : Same(m) PROVE StreamInv' BY <1>3 DEF StreamInv, StreamOK, Same
<1>4. ASSUME NEW m \in Masters, \A n \in Masters \ {m} : stream'[n] = stream[n], StreamOK(stream'[m])
      PROVE  StreamInv'
  BY <1>4 DEF StreamInv, StreamOK
<1>5. CASE Connect
  <2>1. PICK m \in Masters : /\ \A n \in Masters \ {m} : stream'[n] = stream[n]
                            /\ stream'[m].task = "read" /\ stream'[m].addr = "none"
                            /\ stream'[m].vids = {} /\ stream'[m].out = Nothing
    BY <1>5, ConnectStep
  <2>2. StreamOK(stream'[m]) BY <2>1, NothingFacts DEF StreamOK
  <2> QED BY <1>4, <2>1, <2>2
<1>6. ASSUME NEW m \in Masters, MasterStep(m) PROVE StreamInv'
  <2> DEFINE s == stream[m]
             t == stream'[m]
  <2>1. StreamOK(s) BY DEF StreamInv
  <2>2. CASE Handle(m)
    <3>1. \A n \in Masters \ {m} : stream'[n] = stream[n] BY <2>2, HandleStep
    <3>2. PICK msg \in Messages : /\ s.task = "read" /\ t.task = "answer"
            /\ \/ t.addr = s.addr /\ t.vids = s.vids /\ t.out = s.out
               \/ s.addr = "none" /\ t.addr \in Addrs \ {"none"} /\ t.vids = s.vids /\ t.out = s.out
               \/ /\ s.addr # "none" /\ t.addr = s.addr
                  /\ t.vids = VidsAfter(s, msg) /\ t.out = NoticeOf(s, msg)
      BY <2>2, HandleStep
    <3>3. s.out = Nothing BY <2>1, <3>2 DEF StreamOK
    <3>4. CASE t.vids = s.vids /\ t.out = s.out /\ (t.addr = s.addr \/ t.addr # "none")
      <4>1. StreamOK(t) BY <2>1, <3>2, <3>3, <3>4, NothingFacts DEF StreamOK
      <4> QED BY <1>4, <3>1, <4>1
    <3>5. CASE s.addr # "none" /\ t.addr = s.addr /\ t.vids = VidsAfter(s, msg) /\ t.out = NoticeOf(s, msg)
      <4>1. t.out.addr = s.addr /\ t.out.leader = NoMaster /\ t.out.new \subseteq t.vids /\ t.out.deleted \cap t.vids = {}
        BY <3>5, SMTT(30) DEF NoticeOf, Notice, VidsAfter
      <4>2. StreamOK(t) BY <3>2, <3>5, <4>1 DEF StreamOK
      <4> QED BY <1>4, <3>1, <4>2
    <3> QED BY <3>2, <3>4, <3>5
  <2>3. CASE Answer(m) BY <1>4, <2>1, <2>3, AnswerStep, NothingFacts DEF StreamOK
  <2>4. CASE InStreamEnds(m) BY <1>4, <2>1, <2>4, EndStep DEF StreamOK
  <2>5. CASE RemoveDataNode(m)
    <3>1. Gone(s).new = {} /\ Gone(s).leader = NoMaster BY DEF Gone, Notice
    <3> QED BY <1>4, <2>5, <3>1, RemoveStep DEF StreamOK
  <2>6. CASE TellGone(m) BY <1>4, <2>1, <2>6, TellStep, NothingFacts DEF StreamOK
  <2> QED BY <1>6, <2>2, <2>3, <2>4, <2>5, <2>6 DEF MasterStep
<1>7. CASE \/ \E m \in Cluster, l \in Cluster \cup {NoMaster} : ViewChanges(m, l)
           \/ \E v \in Vids : AddVolume(v) \/ Expire(v)
           \/ PassBy \/ ConnectFails
  BY <1>2, <1>7, Zenon DEF ViewChanges, AddVolume, Expire, PassBy, ConnectFails
<1>8. CASE ClientStep \/ ClientBreaks
  BY <1>2, <1>8, Zenon DEF ClientStep, Register, Refused, SendLocations, LoseClient, Receive, ClientStreamOver, ClientBreaks
<1>9. CASE Tick \/ SendNew \/ Answered \/ StreamOver \/ StreamBreaks
  BY <1>3, <1>9, QuietSteps
<1> QED BY <1>1, <1>5, <1>6, <1>7, <1>8, <1>9, Zenon DEF Next, ServerStep

\* What a handler has to send is plain.
LEMMA OutPlain ==
  ASSUME StreamInv, NEW m \in Masters
  PROVE  Plain(stream[m].out)
BY DEF StreamInv, StreamOK, Plain

(***************************************************************************)
(* The connection of the client                                            *)
(***************************************************************************)
\* Every step keeps LinkInv.
LEMMA LinkStep ==
  ASSUME TypeOK, StreamInv, LinkInv, Next
  PROVE  LinkInv'
<1>1. Cluster \subseteq Masters BY SettingFacts DEF TypeOK
<1>2. ASSUME UNCHANGED client PROVE LinkInv'
  <2>1. link' = link /\ locs' = locs BY <1>2 DEF client
  <2> QED BY <2>1, Zenon DEF LinkInv, Following
<1>3. link \in LinkType /\ setting \in Settings /\ link.queue \in Seq(Notices)
  <2>1. link \in LinkType /\ setting \in Settings BY ZenonT(30) DEF TypeOK
  <2> QED BY <2>1, LinkFields
<1>4. ASSUME NEW m \in Masters, link' = Told(m, stream[m].out), UNCHANGED locs PROVE LinkInv'
  <2>1. stream[m].out \in Notices /\ Plain(stream[m].out) BY OutPlain, StreamFields DEF TypeOK
  <2>2. /\ link'.state = link.state /\ link'.master = link.master /\ link'.count = link.count
        /\ link'.queue = link.queue \/ link'.queue = Append(link.queue, stream[m].out)
    BY <1>3, <1>4, <2>1, ToldStep
  <2>3. Following => \A i \in 1..Len(link'.queue) : Plain(link'.queue[i])
    <3>1. Following => \A i \in 1..Len(link.queue) : Plain(link.queue[i]) BY DEF LinkInv
    <3> QED BY <1>3, <2>1, <2>2, <3>1
  <2> QED BY <1>4, <2>2, <2>3 DEF LinkInv, Following, Plain
<1>5. CASE Register
  <2>1. UNCHANGED locs BY <1>5 DEF Register
  <2>2. /\ link'.state = "registered" /\ link'.master \in Masters /\ link'.queue = <<>>
        /\ link'.count = IF link.count = 0 THEN 1 ELSE 2
    BY <1>5, RegisterStep
  <2>3. Len(link'.queue) = 0 BY <2>2
  <2> QED BY <2>1, <2>2, <2>3 DEF LinkInv, Following
<1>6. CASE link' = Restarted /\ UNCHANGED locs
  BY <1>3, <1>6, RestartedFacts DEF LinkInv, Following
<1>7. CASE SendLocations
  <2>1. link.master \in Masters /\ link.count # 0 BY <1>7 DEF LinkInv, SendLocations
  <2>2. PICK n \in Notices : n = Snapshot(link.master) BY <1>7, <2>1, SendLocationsStep, Zenon
  <2>3. Plain(n) BY <2>2 DEF Snapshot, Notice, Plain
  <2>4. /\ link.state = "registered" /\ link'.state = "reading" /\ link'.master = link.master
        /\ link'.count = link.count /\ link'.queue = <<n>> \o link.queue
    BY <1>7, <2>1, <2>2, SendLocationsStep, Zenon
  <2>5. \A i \in 1..Len(link.queue) : Plain(link.queue[i]) BY <2>4 DEF LinkInv, Following
  <2>6. \A i \in 1..Len(link'.queue) : Plain(link'.queue[i]) BY <1>3, <2>3, <2>4, <2>5
  <2>7. UNCHANGED locs BY <1>7 DEF SendLocations
  <2> QED BY <2>1, <2>4, <2>6, <2>7 DEF LinkInv, Following, Plain
<1>8. CASE LoseClient
  <2>1. link.master \in Masters /\ link.count # 0 BY <1>8 DEF LinkInv, LoseClient
  <2> QED BY <1>8, <2>1, LoseClientStep DEF LinkInv, Following
<1>9. CASE Receive
  <2>1. link.master \in Masters /\ link.count # 0 BY <1>9 DEF LinkInv, Receive
  <2>2. CASE link'.state = link.state /\ link'.master = link.master /\ link'.queue = Tail(link.queue)
    <3>1. Following => \A i \in 1..Len(link'.queue) : Plain(link'.queue[i])
      BY <1>3, <1>9, <2>2, ReceiveStep DEF LinkInv
    <3>2. link.state # "registered" /\ link'.count = link.count BY <1>9, ReceiveStep
    <3> QED BY <2>1, <2>2, <3>1, <3>2 DEF LinkInv, Following, Plain
  <2>3. CASE link'.state = "off"
    BY <1>9, <2>1, <2>3, ReceiveStep DEF LinkInv, Following
  <2> QED BY <1>9, <2>2, <2>3, ReceiveStep
<1>10. CASE ClientStreamOver
  BY <1>10, ClientOverStep DEF LinkInv, Following
<1>11. ASSUME NEW m \in Masters, MasterStep(m) PROVE LinkInv'
  BY <1>2, <1>4, <1>11, Zenon DEF MasterStep, Handle, Answer, InStreamEnds, RemoveDataNode, TellGone
<1>12. CASE \/ \E m \in Cluster, l \in Cluster \cup {NoMaster} : ViewChanges(m, l)
            \/ \E v \in Vids : AddVolume(v) \/ Expire(v)
            \/ PassBy \/ Connect \/ ConnectFails \/ Tick \/ SendNew \/ Answered \/ StreamOver \/ StreamBreaks
  BY <1>2, <1>12, Zenon DEF ViewChanges, AddVolume, Expire, PassBy, Connect, ConnectFails, Tick, SendNew,
    Answered, StreamOver, StreamBreaks
<1> QED BY <1>1, <1>5, <1>6, <1>7, <1>8, <1>9, <1>10, <1>11, <1>12, Zenon
      DEF Next, ServerStep, ClientStep, Refused, ClientBreaks

(***************************************************************************)
(* Sequences of notices                                                    *)
(***************************************************************************)
\* A notice at the end that says nothing of a volume changes nothing for it.
LEMMA AppendSilent ==
  ASSUME NEW p \in Seq(Notices), NEW n \in Notices, NEW a, NEW v, ~Adds(n, a, v), ~Drops(n, a, v)
  PROVE  LET q == Append(p, n) IN
         /\ AddedLast(q, a, v) <=> AddedLast(p, a, v)
         /\ DroppedLast(q, a, v) <=> DroppedLast(p, a, v)
         /\ SomeAdd(q, a, v) <=> SomeAdd(p, a, v)
         /\ SomeDrop(q, a, v) <=> SomeDrop(p, a, v)
<1>1. PICK q : q = Append(p, n) OBVIOUS
<1>2. Len(q) = Len(p) + 1 /\ Len(p) \in Nat /\ q[Len(p) + 1] = n /\ \A i \in 1..Len(p) : q[i] = p[i]
  BY <1>1
<1>3. \A i \in 1..Len(q) : i \in 1..Len(p) \/ (i = Len(p) + 1 /\ ~Adds(q[i], a, v) /\ ~Drops(q[i], a, v))
  BY <1>2
<1>4. SomeAdd(q, a, v) <=> SomeAdd(p, a, v) BY <1>2, <1>3 DEF SomeAdd
<1>5. SomeDrop(q, a, v) <=> SomeDrop(p, a, v) BY <1>2, <1>3 DEF SomeDrop
<1>6. AddedLast(q, a, v) <=> AddedLast(p, a, v) BY <1>2, <1>3 DEF AddedLast
<1>7. DroppedLast(q, a, v) <=> DroppedLast(p, a, v) BY <1>2, <1>3 DEF DroppedLast
<1> QED BY <1>1, <1>4, <1>5, <1>6, <1>7, Zenon

\* Two such notices can take each other's place.
LEMMA SilentEnds ==
  ASSUME NEW p \in Seq(Notices), NEW n \in Notices, NEW k \in Notices, NEW a, NEW v,
         ~Adds(n, a, v), ~Drops(n, a, v), ~Adds(k, a, v), ~Drops(k, a, v)
  PROVE  /\ AddedLast(Append(p, n), a, v) <=> AddedLast(Append(p, k), a, v)
         /\ DroppedLast(Append(p, n), a, v) <=> DroppedLast(Append(p, k), a, v)
         /\ SomeAdd(Append(p, n), a, v) <=> SomeAdd(Append(p, k), a, v)
         /\ SomeDrop(Append(p, n), a, v) <=> SomeDrop(Append(p, k), a, v)
<1>1. /\ AddedLast(Append(p, n), a, v) <=> AddedLast(p, a, v)
      /\ DroppedLast(Append(p, n), a, v) <=> DroppedLast(p, a, v)
      /\ SomeAdd(Append(p, n), a, v) <=> SomeAdd(p, a, v)
      /\ SomeDrop(Append(p, n), a, v) <=> SomeDrop(p, a, v)
  BY AppendSilent, Zenon
<1>2. /\ AddedLast(Append(p, k), a, v) <=> AddedLast(p, a, v)
      /\ DroppedLast(Append(p, k), a, v) <=> DroppedLast(p, a, v)
      /\ SomeAdd(Append(p, k), a, v) <=> SomeAdd(p, a, v)
      /\ SomeDrop(Append(p, k), a, v) <=> SomeDrop(p, a, v)
  BY AppendSilent, Zenon
<1> QED BY <1>1, <1>2

\* A notice at the end that adds, or drops, a volume has the last word.
LEMMA AppendSays ==
  ASSUME NEW p \in Seq(Notices), NEW n \in Notices, NEW a, NEW v
  PROVE  LET q == Append(p, n) IN
         /\ Adds(n, a, v) /\ ~Drops(n, a, v) => AddedLast(q, a, v) /\ SomeAdd(q, a, v)
         /\ Drops(n, a, v) /\ ~Adds(n, a, v) => DroppedLast(q, a, v) /\ SomeDrop(q, a, v)
<1>1. PICK q : q = Append(p, n) OBVIOUS
<1>2. Len(q) = Len(p) + 1 /\ Len(p) \in Nat /\ q[Len(p) + 1] = n
  BY <1>1
<1>3. Len(p) + 1 \in 1..Len(q) /\ \A i \in 1..Len(q) : i < Len(p) + 1 \/ q[i] = n
  BY <1>2
<1>4. Adds(n, a, v) /\ ~Drops(n, a, v) => AddedLast(q, a, v) /\ SomeAdd(q, a, v)
  BY <1>2, <1>3 DEF AddedLast, SomeAdd
<1>5. Drops(n, a, v) /\ ~Adds(n, a, v) => DroppedLast(q, a, v) /\ SomeDrop(q, a, v)
  BY <1>2, <1>3 DEF DroppedLast, SomeDrop
<1> QED BY <1>1, <1>4, <1>5, Zenon

\* Taking the first notice of a sequence.
LEMMA TailSays ==
  ASSUME NEW p \in Seq(Notices), p # <<>>, NEW a, NEW v
  PROVE  LET q == Tail(p) IN
         /\ AddedLast(p, a, v) =>
              AddedLast(q, a, v) /\ (Drops(Head(p), a, v) => SomeAdd(q, a, v))
         /\ DroppedLast(p, a, v) =>
              DroppedLast(q, a, v) /\ (Adds(Head(p), a, v) => SomeDrop(q, a, v))
         /\ SomeAdd(p, a, v) => Adds(Head(p), a, v) \/ SomeAdd(q, a, v)
         /\ SomeDrop(p, a, v) => Drops(Head(p), a, v) \/ SomeDrop(q, a, v)
<1>1. PICK q : q = Tail(p) OBVIOUS
<1>2. Len(p) = Len(q) + 1 /\ Len(q) \in Nat /\ Head(p) = p[1] /\ \A i \in 1..Len(q) : q[i] = p[i + 1]
  BY <1>1
<1>3. /\ \A i \in 1..Len(q) : i + 1 \in 1..Len(p)
      /\ \A i \in 1..Len(p) : i # 1 => i - 1 \in 1..Len(q) /\ q[i - 1] = p[i]
      /\ 1 \in 1..Len(p)
  BY <1>2
<1>4. SomeAdd(p, a, v) => Adds(Head(p), a, v) \/ SomeAdd(q, a, v) BY <1>2, <1>3 DEF SomeAdd
<1>5. SomeDrop(p, a, v) => Drops(Head(p), a, v) \/ SomeDrop(q, a, v) BY <1>2, <1>3 DEF SomeDrop
<1>6. ASSUME AddedLast(p, a, v) PROVE AddedLast(q, a, v) /\ (Drops(Head(p), a, v) => SomeAdd(q, a, v))
  <2>1. ASSUME NEW i \in 1..Len(q), Drops(q[i], a, v) PROVE \E j \in 1..Len(q) : i < j /\ Adds(q[j], a, v)
    <3>1. PICK j \in 1..Len(p) : i + 1 < j /\ Adds(p[j], a, v) BY <1>2, <1>3, <1>6, <2>1 DEF AddedLast
    <3>2. j - 1 \in 1..Len(q) /\ i < j - 1 /\ Adds(q[j - 1], a, v) BY <1>2, <1>3, <3>1
    <3> QED BY <3>2
  <2>2. ASSUME Drops(Head(p), a, v) PROVE SomeAdd(q, a, v)
    <3>1. PICK j \in 1..Len(p) : 1 < j /\ Adds(p[j], a, v) BY <1>2, <1>3, <1>6, <2>2 DEF AddedLast
    <3>2. j - 1 \in 1..Len(q) /\ Adds(q[j - 1], a, v) BY <1>2, <1>3, <3>1
    <3> QED BY <3>2 DEF SomeAdd
  <2> QED BY <2>1, <2>2 DEF AddedLast
<1>7. ASSUME DroppedLast(p, a, v) PROVE DroppedLast(q, a, v) /\ (Adds(Head(p), a, v) => SomeDrop(q, a, v))
  <2>1. ASSUME NEW i \in 1..Len(q), Adds(q[i], a, v) PROVE \E j \in 1..Len(q) : i < j /\ Drops(q[j], a, v)
    <3>1. PICK j \in 1..Len(p) : i + 1 < j /\ Drops(p[j], a, v) BY <1>2, <1>3, <1>7, <2>1 DEF DroppedLast
    <3>2. j - 1 \in 1..Len(q) /\ i < j - 1 /\ Drops(q[j - 1], a, v) BY <1>2, <1>3, <3>1
    <3> QED BY <3>2
  <2>2. ASSUME Adds(Head(p), a, v) PROVE SomeDrop(q, a, v)
    <3>1. PICK j \in 1..Len(p) : 1 < j /\ Drops(p[j], a, v) BY <1>2, <1>3, <1>7, <2>2 DEF DroppedLast
    <3>2. j - 1 \in 1..Len(q) /\ Drops(q[j - 1], a, v) BY <1>2, <1>3, <3>1
    <3> QED BY <3>2 DEF SomeDrop
  <2> QED BY <2>1, <2>2 DEF DroppedLast
<1> QED BY <1>1, <1>4, <1>5, <1>6, <1>7, Zenon

\* Putting a notice that drops nothing ahead of a sequence.
LEMMA PrependSays ==
  ASSUME NEW p \in Seq(Notices), NEW n \in Notices, NEW a, NEW v, ~Drops(n, a, v)
  PROVE  LET q == <<n>> \o p IN
         /\ AddedLast(p, a, v) => AddedLast(q, a, v)
         /\ Adds(n, a, v) => SomeAdd(q, a, v)
         /\ ~Adds(n, a, v) /\ DroppedLast(p, a, v) => DroppedLast(q, a, v)
         /\ SomeDrop(p, a, v) => SomeDrop(q, a, v)
<1>1. PICK q : q = <<n>> \o p OBVIOUS
<1>2. Len(q) = Len(p) + 1 /\ Len(p) \in Nat /\ q[1] = n /\ \A i \in 1..Len(p) : q[i + 1] = p[i]
  BY <1>1
<1>3. /\ \A i \in 1..Len(p) : i + 1 \in 1..Len(q)
      /\ \A i \in 1..Len(q) : i # 1 => i - 1 \in 1..Len(p) /\ p[i - 1] = q[i]
      /\ 1 \in 1..Len(q)
  BY <1>2
<1>4. Adds(n, a, v) => SomeAdd(q, a, v) BY <1>2, <1>3 DEF SomeAdd
<1>5. SomeDrop(p, a, v) => SomeDrop(q, a, v) BY <1>2, <1>3 DEF SomeDrop
<1>6. ASSUME AddedLast(p, a, v) PROVE AddedLast(q, a, v)
  <2>1. ASSUME NEW i \in 1..Len(q), Drops(q[i], a, v) PROVE \E j \in 1..Len(q) : i < j /\ Adds(q[j], a, v)
    <3>1. i # 1 /\ i - 1 \in 1..Len(p) /\ Drops(p[i - 1], a, v) BY <1>2, <1>3, <2>1
    <3>2. PICK j \in 1..Len(p) : i - 1 < j /\ Adds(p[j], a, v) BY <1>6, <3>1 DEF AddedLast
    <3>3. j + 1 \in 1..Len(q) /\ i < j + 1 /\ Adds(q[j + 1], a, v) BY <1>2, <1>3, <3>2
    <3> QED BY <3>3
  <2> QED BY <2>1 DEF AddedLast
<1>7. ASSUME ~Adds(n, a, v), DroppedLast(p, a, v) PROVE DroppedLast(q, a, v)
  <2>1. ASSUME NEW i \in 1..Len(q), Adds(q[i], a, v) PROVE \E j \in 1..Len(q) : i < j /\ Drops(q[j], a, v)
    <3>1. i # 1 /\ i - 1 \in 1..Len(p) /\ Adds(p[i - 1], a, v) BY <1>2, <1>3, <1>7, <2>1
    <3>2. PICK j \in 1..Len(p) : i - 1 < j /\ Drops(p[j], a, v) BY <1>7, <3>1 DEF DroppedLast
    <3>3. j + 1 \in 1..Len(q) /\ i < j + 1 /\ Drops(q[j + 1], a, v) BY <1>2, <1>3, <3>2
    <3> QED BY <3>3
  <2> QED BY <2>1 DEF DroppedLast
<1> QED BY <1>1, <1>4, <1>5, <1>6, <1>7, Zenon

\* Of the empty sequence and the empty notice nothing follows.
LEMMA NothingSaid ==
  ASSUME NEW a, NEW v
  PROVE  ~SomeAdd(Append(<<>>, Nothing), a, v) /\ ~SomeDrop(Append(<<>>, Nothing), a, v)
<1>1. <<>> \in Seq(Notices) /\ Len(<<>>) = 0 OBVIOUS
<1>2. PICK e \in Seq(Notices) : e = <<>> BY <1>1, Zenon
<1>3. ~SomeAdd(e, a, v) /\ ~SomeDrop(e, a, v) BY <1>1, <1>2 DEF SomeAdd, SomeDrop
<1> QED BY <1>2, <1>3, AppendSilent, NothingFacts, NothingType, Zenon

(***************************************************************************)
(* The client and its master                                               *)
(***************************************************************************)
\* Nothing that the client could notice happens.
LEMMA ClientQuiet ==
  ASSUME LinkInv, ClientInv, UNCHANGED client, \A m \in Masters : Same(m)
  PROVE  ClientInv'
<1> SUFFICES ASSUME Following', NEW a \in Addrs, NEW v \in Vids PROVE Agrees(Pending, a, v)'
  BY DEF ClientInv
<1>1. link' = link /\ locs' = locs BY DEF client
<1>2. Following /\ link.master \in Masters BY <1>1 DEF Following, LinkInv
<1>3. Agrees(Pending, a, v) BY <1>2 DEF ClientInv
<1>4. Pending' = Pending /\ (HasIt(a, v)' <=> HasIt(a, v))
  BY <1>1, <1>2 DEF Pending, HasIt, Same
<1> QED BY <1>1, <1>3, <1>4 DEF Agrees

\* The notice of a handler says just what changes when its stream s becomes t.
SaysChange(s, t) ==
  \A a \in Addrs, v \in Vids :
    LET now == t.addr = a /\ v \in t.vids
        before == s.addr = a /\ v \in s.vids IN
    /\ Adds(t.out, a, v) => now
    /\ Drops(t.out, a, v) => ~now
    /\ ~Adds(t.out, a, v) /\ ~Drops(t.out, a, v) => (now <=> before)

\* A notice with the volumes that came and the ones that went says what changes.
LEMMA NoticeOfChange ==
  ASSUME NEW s, NEW t, NEW new, NEW old,
         t.addr = s.addr, t.out = Notice(s.addr, new, old),
         old = s.vids \ t.vids, new \subseteq t.vids, t.vids \subseteq s.vids \cup new
  PROVE  SaysChange(s, t)
<1>1. PICK n : n = t.out OBVIOUS
<1>2. n.addr = t.addr /\ n.new = new /\ n.deleted = old BY <1>1 DEF Notice
<1> QED BY <1>1, <1>2 DEF SaysChange, Adds, Drops

\* A handler that had nothing to send changes the volumes of its data node, and
\* has to send just what changes.
LEMMA Announced ==
  ASSUME TypeOK, LinkInv, ClientInv, UNCHANGED client,
         NEW m \in Masters, \A n \in Masters \ {m} : stream'[n] = stream[n],
         stream[m].out = Nothing, stream'[m].out \in Notices, Plain(stream'[m].out),
         SaysChange(stream[m], stream'[m])
  PROVE  ClientInv'
<1> SUFFICES ASSUME Following', NEW a \in Addrs, NEW v \in Vids PROVE Agrees(Pending, a, v)'
  BY DEF ClientInv
<1>1. link' = link /\ locs' = locs BY DEF client
<1>2. Following /\ link.master \in Masters BY <1>1 DEF Following, LinkInv
<1>3. Agrees(Pending, a, v) BY <1>2 DEF ClientInv
<1>4. CASE link.master # m
  <2>1. Pending' = Pending /\ (HasIt(a, v)' <=> HasIt(a, v))
    BY <1>1, <1>2, <1>4 DEF Pending, HasIt
  <2> QED BY <1>1, <1>3, <2>1 DEF Agrees
<1>5. CASE link.master = m
  <2>1. PICK p \in Seq(Notices) : p = link.queue BY LinkFields DEF TypeOK
  <2>2. PICK n \in Notices : n = stream'[m].out OBVIOUS
  <2>3. Pending = Append(p, Nothing) /\ Pending' = Append(p, n) BY <1>1, <1>5, <2>1, <2>2 DEF Pending
  <2>4. CASE Adds(n, a, v)
    <3>1. ~Drops(n, a, v) BY <2>2, <2>4 DEF Plain, Adds, Drops
    <3>2. HasIt(a, v)' BY <1>1, <1>5, <2>2, <2>4 DEF HasIt, SaysChange
    <3>3. AddedLast(Pending', a, v) /\ SomeAdd(Pending', a, v) BY <2>3, <2>4, <3>1, AppendSays, Zenon
    <3> QED BY <3>2, <3>3 DEF Agrees
  <2>5. CASE Drops(n, a, v)
    <3>1. ~Adds(n, a, v) BY <2>2, <2>5 DEF Plain, Adds, Drops
    <3>2. ~HasIt(a, v)' BY <1>1, <1>5, <2>2, <2>5 DEF HasIt, SaysChange
    <3>3. DroppedLast(Pending', a, v) /\ SomeDrop(Pending', a, v) BY <2>3, <2>5, <3>1, AppendSays, Zenon
    <3> QED BY <3>2, <3>3 DEF Agrees
  <2>6. CASE ~Adds(n, a, v) /\ ~Drops(n, a, v)
    <3>1. HasIt(a, v)' <=> HasIt(a, v) BY <1>1, <1>5, <2>2, <2>6 DEF HasIt, SaysChange
    <3>2. ~Adds(Nothing, a, v) /\ ~Drops(Nothing, a, v) BY NothingFacts, Zenon
    <3>3. /\ AddedLast(Append(p, n), a, v) <=> AddedLast(Append(p, Nothing), a, v)
          /\ DroppedLast(Append(p, n), a, v) <=> DroppedLast(Append(p, Nothing), a, v)
          /\ SomeAdd(Append(p, n), a, v) <=> SomeAdd(Append(p, Nothing), a, v)
          /\ SomeDrop(Append(p, n), a, v) <=> SomeDrop(Append(p, Nothing), a, v)
      BY <2>6, <3>2, SilentEnds, NothingType, Zenon
    <3>4. /\ AddedLast(Pending', a, v) <=> AddedLast(Pending, a, v)
          /\ DroppedLast(Pending', a, v) <=> DroppedLast(Pending, a, v)
          /\ SomeAdd(Pending', a, v) <=> SomeAdd(Pending, a, v)
          /\ SomeDrop(Pending', a, v) <=> SomeDrop(Pending, a, v)
      BY <2>3, <3>3, ZenonT(30)
    <3> QED BY <1>1, <1>3, <3>1, <3>4 DEF Agrees
  <2> QED BY <2>4, <2>5, <2>6
<1> QED BY <1>4, <1>5

\* A handler passes on what it had to send.
LEMMA Delivered ==
  ASSUME TypeOK, LinkInv, ClientInv, UNCHANGED locs,
         NEW m \in Masters, \A n \in Masters \ {m} : stream'[n] = stream[n],
         link' = Told(m, stream[m].out), stream'[m].out = Nothing,
         stream'[m].addr = stream[m].addr, stream'[m].vids = stream[m].vids
  PROVE  ClientInv'
<1> SUFFICES ASSUME Following', NEW a \in Addrs, NEW v \in Vids PROVE Agrees(Pending, a, v)'
  BY DEF ClientInv
<1>1. PICK n \in Notices : n = stream[m].out BY StreamFields DEF TypeOK
<1>2. link \in LinkType BY DEF TypeOK
<1>3. /\ link'.state = link.state /\ link'.master = link.master /\ link'.count = link.count
      /\ link'.queue = IF link.master = m /\ Following /\ n.new \cup n.deleted # {}
                      THEN Append(link.queue, n) ELSE link.queue
  BY <1>1, <1>2, ToldStep
<1>4. Following /\ link.master \in Masters BY <1>3 DEF Following, LinkInv
<1>5. Agrees(Pending, a, v) BY <1>4 DEF ClientInv
<1>6. HasIt(a, v)' <=> HasIt(a, v)
  <2>1. stream'[link.master].addr = stream[link.master].addr /\ stream'[link.master].vids = stream[link.master].vids
    BY SMTT(30), <1>4
  <2> QED BY <1>3, <2>1 DEF HasIt
<1>7. SUFFICES /\ AddedLast(Pending', a, v) <=> AddedLast(Pending, a, v)
               /\ DroppedLast(Pending', a, v) <=> DroppedLast(Pending, a, v)
               /\ SomeAdd(Pending', a, v) <=> SomeAdd(Pending, a, v)
               /\ SomeDrop(Pending', a, v) <=> SomeDrop(Pending, a, v)
  BY SMTT(30), <1>3, <1>5, <1>6 DEF Agrees
<1>8. PICK p \in Seq(Notices) : p = link.queue BY LinkFields DEF TypeOK
<1>9. CASE link.master # m
  <2>1. link'.queue = link.queue /\ link'.master = link.master BY <1>3, <1>9
  <2>2. stream'[link.master] = stream[link.master] BY <1>4, <1>9
  <2>3. Pending' = Pending BY <2>1, <2>2, Zenon DEF Pending
  <2> QED BY <2>3, ZenonT(30)
<1>10. CASE link.master = m /\ n.new \cup n.deleted # {}
  <2>1. PICK q \in Seq(Notices) : q = Append(p, n)
    <3>1. Append(p, n) \in Seq(Notices) OBVIOUS
    <3> QED BY <3>1, Zenon
  <2>2. Pending = q /\ Pending' = Append(q, Nothing) BY <1>1, <1>3, <1>4, <1>8, <1>10, <2>1 DEF Pending
  <2>3. ~Adds(Nothing, a, v) /\ ~Drops(Nothing, a, v) BY NothingFacts, Zenon
  <2>4. /\ AddedLast(Append(q, Nothing), a, v) <=> AddedLast(q, a, v)
        /\ DroppedLast(Append(q, Nothing), a, v) <=> DroppedLast(q, a, v)
        /\ SomeAdd(Append(q, Nothing), a, v) <=> SomeAdd(q, a, v)
        /\ SomeDrop(Append(q, Nothing), a, v) <=> SomeDrop(q, a, v)
    BY <2>3, AppendSilent, NothingType, ZenonT(30)
  <2> QED BY <2>2, <2>4, Zenon
<1>11. CASE link.master = m /\ n.new \cup n.deleted = {}
  <2>1. Pending = Append(p, n) /\ Pending' = Append(p, Nothing) BY <1>1, <1>3, <1>8, <1>11 DEF Pending
  <2>2. ~Adds(n, a, v) /\ ~Drops(n, a, v) BY <1>11 DEF Adds, Drops
  <2>3. ~Adds(Nothing, a, v) /\ ~Drops(Nothing, a, v) BY NothingFacts, Zenon
  <2>4. /\ AddedLast(Append(p, Nothing), a, v) <=> AddedLast(Append(p, n), a, v)
        /\ DroppedLast(Append(p, Nothing), a, v) <=> DroppedLast(Append(p, n), a, v)
        /\ SomeAdd(Append(p, Nothing), a, v) <=> SomeAdd(Append(p, n), a, v)
        /\ SomeDrop(Append(p, Nothing), a, v) <=> SomeDrop(Append(p, n), a, v)
    BY <2>2, <2>3, SilentEnds, NothingType, Zenon
  <2> QED BY <2>1, <2>4, Zenon
<1> QED BY <1>9, <1>10, <1>11

\* A client begins to follow a master.
LEMMA Registering ==
  ASSUME TypeOK, StreamInv, LinkInv, Register
  PROVE  ClientInv'
<1> SUFFICES ASSUME Following', NEW a \in Addrs, NEW v \in Vids PROVE Agrees(Pending, a, v)'
  BY DEF ClientInv
<1>1. stream' = stream /\ locs' = locs BY DEF Register
<1>2. /\ link'.state = "registered" /\ link'.master \in Masters /\ link'.queue = <<>>
      /\ link'.count = IF link.count = 0 THEN 1 ELSE 2
  BY RegisterStep
<1>3. PICK m \in Masters : m = link'.master BY <1>2
<1>4. PICK n : n = stream[m].out OBVIOUS
<1>5. StreamOK(stream[m]) BY DEF StreamInv
<1>6. HasIt(a, v)' <=> stream[m].addr = a /\ v \in stream[m].vids BY <1>1, <1>3 DEF HasIt
<1>7. HasIt(a, v)' => ~Drops(n, a, v) BY <1>4, <1>5, <1>6 DEF StreamOK, Drops
<1>8. ~HasIt(a, v)' => ~Adds(n, a, v) BY <1>4, <1>5, <1>6, NothingFacts DEF StreamOK, Adds
<1>9. Pending' = Append(<<>>, n) BY <1>1, <1>2, <1>3, <1>4 DEF Pending
<1>10. Len(Pending') = 1 /\ Pending'[1] = n BY <1>9
<1>11. HasIt(a, v)' => AddedLast(Pending', a, v) BY <1>7, <1>10 DEF AddedLast
<1>12. ~HasIt(a, v)' => DroppedLast(Pending', a, v) BY <1>8, <1>10 DEF DroppedLast
<1>13. link'.count = 1 => locs' = {} BY SMTT(30), <1>1, <1>2 DEF LinkInv
<1> QED BY <1>2, <1>11, <1>12, <1>13 DEF Agrees

\* What is registered goes ahead of the notices that are under way.
LEMMA Subscribing ==
  ASSUME TypeOK, LinkInv, ClientInv, SendLocations
  PROVE  ClientInv'
<1> SUFFICES ASSUME NEW a \in Addrs, NEW v \in Vids PROVE Agrees(Pending, a, v)'
  BY DEF ClientInv
<1>1. stream' = stream /\ locs' = locs /\ link.state = "registered" BY DEF SendLocations
<1>2. link.master \in Masters BY <1>1 DEF LinkInv
<1>3. /\ link'.state = "reading" /\ link'.master = link.master /\ link'.count = link.count
      /\ Snapshot(link.master) \in Notices
      /\ link'.queue = <<Snapshot(link.master)>> \o link.queue
  BY <1>2, SendLocationsStep
<1>4. Agrees(Pending, a, v) BY <1>1 DEF ClientInv, Following
<1>5. HasIt(a, v)' <=> HasIt(a, v) BY <1>1, <1>3 DEF HasIt
<1>6. PICK n \in Notices : n = Snapshot(link.master) BY <1>3
<1>7. ~Drops(n, a, v) /\ (Adds(n, a, v) <=> HasIt(a, v))
  BY <1>6 DEF Snapshot, Notice, Drops, Adds, HasIt
<1>8. PICK p \in Seq(Notices) : p = link.queue BY LinkFields DEF TypeOK
<1>9. PICK o \in Notices : o = stream[link.master].out BY <1>2, StreamFields DEF TypeOK
<1>10. Pending = Append(p, o) /\ Pending' = Append(<<n>> \o p, o)
  BY <1>1, <1>3, <1>6, <1>8, <1>9, Zenon DEF Pending
<1>11. Append(<<n>> \o p, o) = <<n>> \o Append(p, o) OBVIOUS
<1>12. Append(p, o) \in Seq(Notices) OBVIOUS
<1>13. /\ AddedLast(Pending, a, v) => AddedLast(Pending', a, v)
       /\ Adds(n, a, v) => SomeAdd(Pending', a, v)
       /\ ~Adds(n, a, v) /\ DroppedLast(Pending, a, v) => DroppedLast(Pending', a, v)
       /\ SomeDrop(Pending, a, v) => SomeDrop(Pending', a, v)
  <2>1. PICK q \in Seq(Notices) : q = Append(p, o) BY <1>12, Zenon
  <2>2. Pending = q /\ Pending' = <<n>> \o q BY <1>10, <1>11, <2>1, ZenonT(30)
  <2> QED BY <1>7, <2>2, PrependSays, Zenon
<1> QED BY <1>1, <1>3, <1>4, <1>5, <1>7, <1>13 DEF Agrees

\* The client reads the first notice under way.
LEMMA Receiving ==
  ASSUME TypeOK, LinkInv, ClientInv, Receive
  PROVE  ClientInv'
<1> SUFFICES ASSUME Following', NEW a \in Addrs, NEW v \in Vids PROVE Agrees(Pending, a, v)'
  BY DEF ClientInv
<1>1. stream' = stream BY DEF Receive
<1>2. link.state \in {"reading", "closing"} /\ link.queue # <<>> /\ Head(link.queue) \in Notices
  BY ReceiveStep
<1>3. /\ link'.state = link.state /\ link'.master = link.master /\ link'.queue = Tail(link.queue)
      /\ locs' = Applied(Head(link.queue)) /\ link'.count = link.count
  BY ReceiveStep DEF Following
<1>4. Following /\ link.state = "reading" /\ link.master \in Masters BY <1>2, <1>3 DEF Following, LinkInv
<1>5. Agrees(Pending, a, v) BY <1>4 DEF ClientInv
<1>6. HasIt(a, v)' <=> HasIt(a, v) BY <1>1, <1>3 DEF HasIt
<1>7. PICK p \in Seq(Notices) : p = link.queue BY LinkFields DEF TypeOK
<1>8. PICK o \in Notices : o = stream[link.master].out BY SMTT(30), <1>4, StreamFields DEF TypeOK
<1>9. PICK h \in Notices : h = Head(p) BY <1>2, <1>7
<1>10. Plain(h) BY <1>2, <1>4, <1>7, <1>9 DEF LinkInv
<1>11. Pending = Append(p, o) /\ Pending' = Append(Tail(p), o)
  BY <1>1, <1>3, <1>7, <1>8, Zenon DEF Pending
<1>12. /\ Append(p, o) \in Seq(Notices) /\ Append(p, o) # <<>> /\ Head(Append(p, o)) = h
       /\ Append(Tail(p), o) = Tail(Append(p, o))
  BY <1>2, <1>7, <1>9, SMTT(30)
<1>13. /\ AddedLast(Pending, a, v) => AddedLast(Pending', a, v) /\ (Drops(h, a, v) => SomeAdd(Pending', a, v))
       /\ DroppedLast(Pending, a, v) => DroppedLast(Pending', a, v) /\ (Adds(h, a, v) => SomeDrop(Pending', a, v))
       /\ SomeAdd(Pending, a, v) => Adds(h, a, v) \/ SomeAdd(Pending', a, v)
       /\ SomeDrop(Pending, a, v) => Drops(h, a, v) \/ SomeDrop(Pending', a, v)
  BY <1>11, <1>12, TailSays, Zenon
<1>14. <<a, v>> \in locs' <=> (<<a, v>> \in locs \/ Adds(h, a, v)) /\ ~Drops(h, a, v)
  BY <1>3, <1>7, <1>9 DEF Applied, Adds, Drops
<1> QED BY <1>3, <1>4, <1>5, <1>6, <1>13, <1>14 DEF Agrees

\* A step of a handler: it announces a change, or passes on what it announced.
LEMMA HandlerKeeps ==
  ASSUME TypeOK, StreamInv, StreamInv', LinkInv, ClientInv, NEW m \in Masters, MasterStep(m)
  PROVE  ClientInv'
<1> DEFINE s == stream[m]
           t == stream'[m]
<1>1. StreamOK(s) /\ Plain(t.out)
  BY DEF StreamInv, StreamOK, Plain
<1>2. ASSUME stream' \in [Masters -> StreamType] PROVE t.out \in Notices
  BY SMTT(30), <1>2, StreamFields
<1>3. CASE Handle(m)
  <2>1. UNCHANGED client BY SMTT(30), <1>3 DEF Handle
  <2>2. t.out \in Notices /\ \A n \in Masters \ {m} : stream'[n] = stream[n] BY SMTT(30), <1>2, <1>3, HandleStep
  <2>3. PICK msg \in Messages : /\ s.task = "read" /\ t.task = "answer"
          /\ \/ t.addr = s.addr /\ t.vids = s.vids /\ t.out = s.out
             \/ s.addr = "none" /\ t.addr \in Addrs \ {"none"} /\ t.vids = s.vids /\ t.out = s.out
             \/ /\ s.addr # "none" /\ t.addr = s.addr
                /\ t.vids = VidsAfter(s, msg) /\ t.out = NoticeOf(s, msg)
    BY SMTT(30), <1>3, HandleStep
  <2>4. s.out = Nothing BY <1>1, <2>3 DEF StreamOK
  <2>5. SaysChange(s, t)
    <3>1. CASE t.vids = s.vids /\ t.out = s.out /\ (t.addr = s.addr \/ s.addr = "none")
      BY <1>1, <2>4, <3>1, NothingFacts DEF StreamOK, SaysChange
    <3>2. CASE t.addr = s.addr /\ t.vids = VidsAfter(s, msg) /\ t.out = NoticeOf(s, msg)
      <4>1. PICK new : new = IF msg.kind = "full" THEN msg.vids \ s.vids ELSE msg.vids BY Zenon
      <4>2. PICK old : old = s.vids \ t.vids BY Zenon
      <4>3. t.out = Notice(s.addr, new, old) BY <3>2, <4>1, <4>2, Zenon DEF NoticeOf
      <4>4. new \subseteq t.vids /\ t.vids \subseteq s.vids \cup new
        <5>1. CASE msg.kind = "full"
          <6>1. t.vids = msg.vids /\ new = msg.vids \ s.vids BY <3>2, <4>1, <5>1, Zenon DEF VidsAfter
          <6> QED BY <6>1, Zenon
        <5>2. CASE msg.kind # "full"
          <6>1. t.vids = s.vids \cup msg.vids /\ new = msg.vids BY <3>2, <4>1, <5>2, Zenon DEF VidsAfter
          <6> QED BY <6>1, Zenon
        <5> QED BY <5>1, <5>2
      <4> QED BY <3>2, <4>2, <4>3, <4>4, NoticeOfChange, Zenon
    <3> QED BY <2>3, <3>1, <3>2, ZenonT(30)
  <2> QED BY <1>1, <2>1, <2>2, <2>4, <2>5, Announced
<1>4. CASE Answer(m)
  <2>1. link' = Told(m, stream[m].out) /\ UNCHANGED locs BY <1>4, Zenon DEF Answer
  <2>2. /\ \A n \in Masters \ {m} : stream'[n] = stream[n]
        /\ stream'[m].addr = stream[m].addr /\ stream'[m].vids = stream[m].vids /\ stream'[m].out = Nothing
    BY <1>4, AnswerStep, ZenonT(30)
  <2> QED BY <2>1, <2>2, Delivered, Zenon
<1>5. CASE InStreamEnds(m)
  <2>1. UNCHANGED client BY SMTT(30), <1>5 DEF InStreamEnds
  <2>2. /\ t.out \in Notices /\ \A n \in Masters \ {m} : stream'[n] = stream[n]
        /\ s.task = "read" /\ t.addr = s.addr /\ t.vids = s.vids /\ t.out = s.out
    BY <1>2, <1>5, EndStep
  <2>3. s.out = Nothing BY SMTT(30), <1>1, <2>2 DEF StreamOK
  <2>4. SaysChange(s, t) BY SMTT(30), <2>2, <2>3, NothingFacts DEF SaysChange
  <2> QED BY <1>1, <2>1, <2>2, <2>3, <2>4, Announced
<1>6. CASE RemoveDataNode(m)
  <2>1. UNCHANGED client BY SMTT(30), <1>6 DEF RemoveDataNode
  <2>2. /\ t.out \in Notices /\ \A n \in Masters \ {m} : stream'[n] = stream[n]
        /\ s.task = "stop" /\ t.vids = {} /\ t.out = Gone(s)
    BY <1>2, <1>6, RemoveStep
  <2>3. s.out = Nothing BY <1>1, <2>2 DEF StreamOK
  <2>4. PICK V : V = s.vids OBVIOUS
  <2>5. SaysChange(s, t)
    <3>1. PICK n : n = t.out OBVIOUS
    <3>2. PICK e : e = {} OBVIOUS
    <3>3. n = Notice(s.addr, e, V) BY <2>2, <2>4, <3>1, <3>2, Zenon DEF Gone
    <3>4. n.addr = s.addr /\ n.new = e /\ n.deleted = V BY <3>3 DEF Notice
    <3> QED BY <2>2, <2>4, <3>1, <3>2, <3>4 DEF SaysChange, Adds, Drops
  <2> QED BY <1>1, <2>1, <2>2, <2>3, <2>5, Announced
<1>7. CASE TellGone(m)
  <2>1. link' = Told(m, stream[m].out) /\ UNCHANGED locs BY <1>7, Zenon DEF TellGone
  <2>2. /\ \A n \in Masters \ {m} : stream'[n] = stream[n]
        /\ stream'[m].addr = stream[m].addr /\ stream'[m].vids = stream[m].vids /\ stream'[m].out = Nothing
    BY <1>7, TellStep, Zenon
  <2> QED BY <2>1, <2>2, Delivered, Zenon
<1> QED BY SMTT(30), <1>3, <1>4, <1>5, <1>6, <1>7 DEF MasterStep

\* Every step keeps ClientInv.
LEMMA ClientKept ==
  ASSUME TypeOK, StreamInv, StreamInv', LinkInv, ClientInv, Next
  PROVE  ClientInv'
<1>1. Cluster \subseteq Masters /\ link \in LinkType /\ setting \in Settings BY SettingFacts DEF TypeOK
<1>2. ASSUME UNCHANGED client, UNCHANGED stream PROVE ClientInv'
  BY SMTT(30), <1>2, ClientQuiet DEF Same
<1>3. CASE Connect
  <2>1. PICK m \in Masters :
          /\ stream' \in [Masters -> StreamType] /\ \A n \in Masters \ {m} : stream'[n] = stream[n]
          /\ stream[m].task = "none"
          /\ stream'[m].addr = "none" /\ stream'[m].vids = {} /\ stream'[m].out = Nothing
    BY <1>3, ConnectStep
  <2>2. stream[m].vids = {} /\ stream[m].out = Nothing BY <2>1 DEF StreamInv, StreamOK
  <2>3. UNCHANGED client BY SMTT(30), <1>3 DEF Connect
  <2>4. SaysChange(stream[m], stream'[m]) BY <2>1, <2>2, NothingFacts DEF SaysChange
  <2> QED BY SMTT(30), <2>1, <2>2, <2>3, <2>4, Announced, NothingFacts, NothingType
<1>4. CASE Tick \/ SendNew \/ Answered \/ StreamOver \/ StreamBreaks
  <2>1. UNCHANGED client BY <1>4 DEF Tick, SendNew, Answered, StreamOver, StreamBreaks
  <2> QED BY <1>4, <2>1, QuietSteps, ClientQuiet
<1>5. CASE \/ \E m \in Cluster, l \in Cluster \cup {NoMaster} : ViewChanges(m, l)
           \/ \E v \in Vids : AddVolume(v) \/ Expire(v)
           \/ PassBy \/ ConnectFails
  BY <1>2, <1>5, Zenon DEF ViewChanges, AddVolume, Expire, PassBy, ConnectFails
<1>6. CASE link' = Restarted
  BY <1>1, <1>6, RestartedFacts DEF ClientInv, Following
<1>7. CASE LoseClient
  <2>1. link.master \in Masters BY <1>7 DEF LoseClient, LinkInv
  <2> QED BY <1>7, <2>1, LoseClientStep DEF ClientInv, Following
<1>8. CASE ClientStreamOver
  BY <1>8, ClientOverStep DEF ClientInv, Following
<1> QED BY <1>1, <1>3, <1>4, <1>5, <1>6, <1>7, <1>8, HandlerKeeps, Registering, Subscribing, Receiving, Zenon
      DEF Next, ServerStep, ClientStep, Refused, ClientBreaks

\* The invariant holds at the start, ...
LEMMA InvInit == Init => IInv
<1> SUFFICES ASSUME Init PROVE IInv OBVIOUS
<1>1. link.state = "off" /\ link.count = 0 /\ locs = {} BY DEF Init, NoLink
<1>2. NoStream.task = "none" /\ NoStream.addr = "none" /\ NoStream.vids = {} /\ NoStream.out = Nothing
  BY DEF NoStream
<1>3. StreamOK(NoStream) BY <1>2, NothingFacts DEF StreamOK
<1>4. StreamInv BY <1>3 DEF Init, StreamInv
<1> QED BY <1>1, <1>4, TypeInit DEF IInv, LinkInv, ClientInv, Following

\* ... and every step keeps it.
LEMMA InvStep == IInv /\ [Next]_vars => IInv'
<1> SUFFICES ASSUME IInv, [Next]_vars PROVE IInv' OBVIOUS
<1>1. TypeOK /\ StreamInv /\ LinkInv /\ ClientInv BY DEF IInv
<1>2. CASE Next
  <2>1. StreamInv' BY <1>1, <1>2, StreamStep
  <2> QED BY <1>1, <1>2, <2>1, TypeStep, LinkStep, ClientKept DEF IInv
<1>3. CASE UNCHANGED vars
  <2>1. TypeOK' BY <1>1, <1>3, SameSetting DEF TypeOK, vars
  <2>2. StreamInv' BY <1>1, <1>3 DEF StreamInv, vars
  <2>3. link' = link /\ locs' = locs /\ stream' = stream BY <1>3 DEF vars
  <2>4. LinkInv' BY <1>1, <2>3 DEF LinkInv, Following
  <2>5. ClientInv' BY <1>1, <2>3, ClientQuiet DEF Same, client
  <2> QED BY <2>1, <2>2, <2>4, <2>5 DEF IInv
<1> QED BY <1>2, <1>3

\* The invariant holds in every behaviour.
LEMMA InvHolds == Spec => []IInv
BY InvInit, InvStep, PTL DEF Spec

\* In every behaviour the variables have the shapes of the data they stand for.
THEOREM HeartbeatTypes == Spec => []TypeOK
<1>1. IInv => TypeOK BY SMTT(30) DEF IInv
<1> QED BY <1>1, InvHolds, PTL

\* A client that has read all it was sent: the sequence says nothing more.
LEMMA CaughtUpSilent ==
  ASSUME IInv, CaughtUp
  PROVE  /\ link.master \in Masters
         /\ \A a \in Addrs, v \in Vids : Agrees(Pending, a, v) /\ ~SomeAdd(Pending, a, v) /\ ~SomeDrop(Pending, a, v)
<1>1. link.state = "reading" /\ link.queue = <<>> /\ stream[link.master].out = Nothing BY DEF CaughtUp
<1>2. Pending = Append(<<>>, Nothing) BY <1>1 DEF Pending
<1> QED BY <1>1, <1>2, NothingSaid DEF IInv, LinkInv, ClientInv, Following

\* A client that has caught up with its master knows every volume the master has
\* registered: keep_connected registers the channel before it takes the locations,
\* and every change after that goes into the channel.
THEOREM ClientComplete == Spec => []ClientMissesNothing
<1>1. ASSUME IInv, CaughtUp PROVE Registered(link.master) \subseteq locs
  <2>1. link.master \in Masters /\ link.state = "reading" BY <1>1, CaughtUpSilent DEF CaughtUp
  <2>2. stream[link.master].addr \in Addrs /\ stream[link.master].vids \subseteq Vids
    BY <1>1, <2>1, StreamFields DEF IInv, TypeOK
  <2>3. \A a \in Addrs, v \in Vids : HasIt(a, v) => <<a, v>> \in locs
    BY <1>1, <2>1, CaughtUpSilent DEF Agrees
  <2> QED BY <2>2, <2>3 DEF Registered, HasIt
<1>2. IInv => ClientMissesNothing BY <1>1 DEF ClientMissesNothing
<1> QED BY <1>2, InvHolds, PTL

\* On its first connection it knows no other location either.
THEOREM ClientFirstExact == Spec => []ClientExact
<1>1. ASSUME IInv, CaughtUp, link.count = 1 PROVE locs = Registered(link.master)
  <2>1. link.master \in Masters /\ link.state = "reading" BY <1>1, CaughtUpSilent DEF CaughtUp
  <2>2. stream[link.master].addr \in Addrs /\ stream[link.master].vids \subseteq Vids
    BY <1>1, <2>1, StreamFields DEF IInv, TypeOK
  <2>3. \A a \in Addrs, v \in Vids : <<a, v>> \in locs <=> HasIt(a, v)
    BY <1>1, <2>1, CaughtUpSilent DEF Agrees
  <2>4. locs \subseteq Addrs \X Vids BY <1>1 DEF IInv, TypeOK, Addrs
  <2> QED BY SMTT(30), <2>2, <2>3, <2>4 DEF Registered, HasIt
<1>2. IInv => ClientExact BY <1>1 DEF ClientExact
<1> QED BY <1>2, InvHolds, PTL

=============================================================================
