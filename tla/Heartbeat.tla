------------------------------ MODULE Heartbeat ------------------------------
(***************************************************************************)
(* A volume server that reports its volumes to the master it takes for the *)
(* leader, the masters that answer it, and a client that follows the       *)
(* locations of one master: storage/server.rs, directory/server.rs and     *)
(* client/mod.rs together.  The handler of one message is what VolumeLayout *)
(* and TopologyTree look into; here it is a set of volumes that changes,   *)
(* and the notice to the clients that follows in a step of its own.        *)
(*                                                                         *)
(* A master has noticed the end of a stream of the server before the       *)
(* server opens the next one to it; TopologyTree has the other case.       *)
(***************************************************************************)
EXTENDS Naturals, Sequences, FiniteSets

CONSTANTS
  Masters,      \* the masters
  Vids,         \* ids of volumes that may be added to the server
  NoMaster,     \* the empty address
  MaxQueue,     \* bound on the notices a client has still to read
  Settings      \* seeds: seed_masters of the server, and masters of the client;
                \* vids: the ids there are;
                \* views: bound on the changes of the leader a master knows of;
                \* breaks: bound on the failures of connections;
                \* inFlight: bound on messages and answers of a stream under way;
                \* client: whether there is a client

ASSUME ConstantsAssumption ==
  /\ NoMaster \notin Masters
  /\ MaxQueue \in Nat \ {0}
  /\ \A s \in Settings :
       /\ s.seeds \in Seq(Masters) /\ s.seeds # <<>>
       /\ s.vids \subseteq Vids /\ s.views \in Nat /\ s.breaks \in Nat /\ s.inFlight \in Nat \ {0}
       /\ s.client \in BOOLEAN

VARIABLES
  setting,    \* never changes
  view,       \* the leader each master knows of, current_leader()
  has,        \* volumes of the server that have not expired
  fresh,      \* ids no volume has had yet
  newVolumes, \* the channel of new volumes, new_volumes_rx
  pos,        \* position of the server in its list of masters
  newLeader,  \* new_leader of VolumeServer::heartbeat
  current,    \* current_master of the store
  conn,       \* the master do_heartbeat is connected to
  stream,     \* by master: its stream with the server
  locs,       \* locations of the client: pairs of an address and a volume
  link,       \* the client's connection
  breaks, views

vars == <<setting, view, has, fresh, newVolumes, pos, newLeader, current, conn, stream, locs, link, breaks, views>>
server == <<setting, has, fresh, newVolumes, pos, newLeader, current, conn>>
client == <<locs, link>>

Seeds == setting.seeds
Cluster == {Seeds[i] : i \in DOMAIN Seeds}
Leaders == Masters \cup {NoMaster}

\* A full heartbeat has the address of the server; a message with one new
\* volume has no address, and the master makes one up, with port 0.
Full(S) == [kind |-> "full", vids |-> S]
New(v) == [kind |-> "new", vids |-> {v}]
AddressIn(msg) == IF msg.kind = "full" THEN "server" ELSE "port0"
Messages == [kind : {"full", "new"}, vids : SUBSET Vids]

\* A VolumeLocation: volumes that a client adds for an address, and drops.
Notice(addr, new, deleted) == [addr |-> addr, new |-> new, deleted |-> deleted, leader |-> NoMaster]
Notices == [addr : {"none", "server", "port0"}, new : SUBSET Vids, deleted : SUBSET Vids, leader : Leaders]
Nothing == Notice("none", {}, {})
Leader(m) == [Nothing EXCEPT !.leader = m]

\* open: the server's end; task: the handler at the master; addr and vids: the
\* data node of the handler; out: the notice its clients are still to get.
NoStream == [open |-> FALSE, task |-> "none", up |-> <<>>, down |-> <<>>,
             addr |-> "none", vids |-> {}, out |-> Nothing]

\* How the client is connected: registered with a master, reading what it was
\* sent, or about to go to the next master of its list or to one it was told.
NoLink == [state |-> "off", master |-> NoMaster, queue |-> <<>>, next |-> 1, hint |-> NoMaster, sent |-> 0, count |-> 0]

NextPos(i) == (i % Len(Seeds)) + 1

Init ==
  /\ setting \in Settings
  /\ \E m \in Cluster : view = [n \in Masters |-> m]
  /\ has = {} /\ fresh = setting.vids /\ newVolumes = <<>>
  /\ pos = 1 /\ newLeader = NoMaster /\ current = NoMaster /\ conn = NoMaster
  /\ stream = [m \in Masters |-> NoStream]
  /\ locs = {} /\ link = NoLink
  /\ breaks = 0 /\ views = 0

(***************************************************************************)
(* Raft, an external library, tells a master of a leader, or of none.      *)
(***************************************************************************)
ViewChanges(m, l) ==
  /\ views < setting.views /\ view[m] # l
  /\ view' = [view EXCEPT ![m] = l]
  /\ views' = views + 1
  /\ UNCHANGED <<server, stream, client, breaks>>

(***************************************************************************)
(* The volume server                                                       *)
(***************************************************************************)
\* Store::do_add_volume: the volume is there, then it is put into the channel.
AddVolume(v) ==
  /\ v \in fresh
  /\ fresh' = fresh \ {v} /\ has' = has \cup {v}
  /\ newVolumes' = Append(newVolumes, v)
  /\ UNCHANGED <<setting, view, pos, newLeader, current, conn, stream, client, breaks, views>>

\* An expired volume is left out of heartbeats, and its files are removed some
\* time later; nobody is told of either.
Expire(v) ==
  /\ v \in has
  /\ has' = has \ {v}
  /\ UNCHANGED <<setting, view, fresh, newVolumes, pos, newLeader, current, conn, stream, client, breaks, views>>

\* VolumeServer::heartbeat passes by a master that is not the one it was told.
PassBy ==
  /\ conn = NoMaster
  /\ newLeader # NoMaster /\ newLeader # Seeds[pos]
  /\ pos' = NextPos(pos)
  /\ UNCHANGED <<setting, view, has, fresh, newVolumes, newLeader, current, conn, stream, client, breaks, views>>

Wanted(m) == newLeader \in {NoMaster, m}

\* do_heartbeat opens a stream.
Connect ==
  LET m == Seeds[pos] IN
  /\ conn = NoMaster /\ Wanted(m)
  /\ stream[m].task = "none"
  /\ current' = m /\ conn' = m
  /\ stream' = [stream EXCEPT ![m] = [NoStream EXCEPT !.open = TRUE, !.task = "read"]]
  /\ UNCHANGED <<setting, view, has, fresh, newVolumes, pos, newLeader, client, breaks, views>>

\* StartHeartbeat: the stream cannot be opened.
ConnectFails ==
  /\ conn = NoMaster /\ Wanted(Seeds[pos])
  /\ breaks < setting.breaks /\ breaks' = breaks + 1
  /\ newLeader' = NoMaster /\ current' = NoMaster
  /\ pos' = NextPos(pos)
  /\ UNCHANGED <<setting, view, has, fresh, newVolumes, conn, stream, client, views>>

InFlight(m) == Len(stream[m].up) + Len(stream[m].down)

Send(msg) ==
  /\ conn # NoMaster /\ InFlight(conn) < setting.inFlight
  /\ stream' = [stream EXCEPT ![conn].up = Append(@, msg)]

\* interval.tick(): collect_heartbeat.
Tick ==
  /\ Send(Full(has))
  /\ UNCHANGED <<view, server, client, breaks, views>>

\* new_volumes_rx.recv().
SendNew ==
  /\ newVolumes # <<>>
  /\ Send(New(Head(newVolumes)))
  /\ newVolumes' = Tail(newVolumes)
  /\ UNCHANGED <<setting, view, has, fresh, pos, newLeader, current, conn, client, breaks, views>>

\* The server drops its end of the stream and goes on with its list.
Leave(leader, master) ==
  /\ stream' = [stream EXCEPT ![conn] = [@ EXCEPT !.open = FALSE, !.down = <<>>]]
  /\ newLeader' = leader /\ current' = master
  /\ conn' = NoMaster /\ pos' = NextPos(pos)

\* Variant: the leader of an answer is ignored.
AnsweredAlone ==
  /\ conn # NoMaster /\ stream[conn].down # <<>>
  /\ stream' = [stream EXCEPT ![conn].down = Tail(@)]
  /\ UNCHANGED <<view, server, client, breaks, views>>

\* The answer names the leader; LeaderChanged if it is another master.
Answered ==
  /\ conn # NoMaster /\ stream[conn].down # <<>>
  /\ LET l == Head(stream[conn].down) IN
     \/ l # current /\ Leave(l, l)
     \/ /\ l = current
        /\ stream' = [stream EXCEPT ![conn].down = Tail(@)]
        /\ UNCHANGED <<pos, newLeader, current, conn>>
  /\ UNCHANGED <<setting, view, has, fresh, newVolumes, client, breaks, views>>

\* The master has ended the stream: do_heartbeat returns Ok.
StreamOver ==
  /\ conn # NoMaster /\ stream[conn].task = "none" /\ stream[conn].down = <<>>
  /\ Leave(newLeader, current)
  /\ UNCHANGED <<setting, view, has, fresh, newVolumes, client, breaks, views>>

\* SendHeartbeat: the connection is lost.
StreamBreaks ==
  /\ conn # NoMaster
  /\ breaks < setting.breaks /\ breaks' = breaks + 1
  /\ Leave(NoMaster, NoMaster)
  /\ UNCHANGED <<setting, view, has, fresh, newVolumes, client, views>>

(***************************************************************************)
(* The handler of a stream at a master                                     *)
(***************************************************************************)
IsLeader(m) == view[m] = m

\* update_volume_layout: the volumes of the data node after a message.
VidsAfter(s, msg) == IF msg.kind = "full" THEN msg.vids ELSE s.vids \cup msg.vids
\* Variant: new volumes of an incremental message are not announced.
NoticeOfFull(s, msg) ==
  IF msg.kind = "full" THEN Notice(s.addr, msg.vids \ s.vids, s.vids \ msg.vids) ELSE Nothing
NoticeOf(s, msg) ==
  Notice(s.addr, IF msg.kind = "full" THEN msg.vids \ s.vids ELSE msg.vids, s.vids \ VidsAfter(s, msg))

\* One message: dropped by a master that does not lead; the first one of a
\* stream only makes the data node, the others change its volumes.
Handle(m) ==
  LET s == stream[m]
      msg == Head(s.up)
      read == [s EXCEPT !.up = Tail(@), !.task = "answer"] IN
  /\ s.task = "read" /\ s.up # <<>>
  /\ \/ ~IsLeader(m) /\ stream' = [stream EXCEPT ![m] = read]
     \/ /\ IsLeader(m) /\ s.addr = "none"
        /\ stream' = [stream EXCEPT ![m] = [read EXCEPT !.addr = AddressIn(msg)]]
     \/ /\ IsLeader(m) /\ s.addr # "none"
        /\ stream' = [stream EXCEPT ![m] =
             [read EXCEPT !.vids = VidsAfter(s, msg), !.out = NoticeOf(s, msg)]]
  /\ UNCHANGED <<view, server, client, breaks, views>>

\* Clients that are registered with the master get a notice that says something.
Told(m, notice) ==
  IF link.master = m /\ link.state \in {"registered", "reading"} /\ notice.new \cup notice.deleted # {}
  THEN [link EXCEPT !.queue = Append(@, notice)] ELSE link

\* The notice goes out, then heartbeat_response names the leader; without one
\* the handler stops.
Answer(m) ==
  /\ stream[m].task = "answer" /\ Len(link.queue) < MaxQueue
  /\ link' = Told(m, stream[m].out)
  /\ \/ /\ view[m] # NoMaster
        /\ stream' = [stream EXCEPT ![m] = [@ EXCEPT !.out = Nothing, !.task = "read",
                      !.down = IF stream[m].open THEN Append(stream[m].down, view[m]) ELSE <<>>]]
     \/ /\ view[m] = NoMaster
        /\ stream' = [stream EXCEPT ![m] = [@ EXCEPT !.out = Nothing, !.task = "stop"]]
  /\ UNCHANGED <<view, server, locs, breaks, views>>

\* in_stream.next() ends; messages on their way may be lost with the stream.
InStreamEnds(m) ==
  /\ stream[m].task = "read" /\ ~stream[m].open
  /\ stream' = [stream EXCEPT ![m] = [@ EXCEPT !.task = "stop", !.up = <<>>]]
  /\ UNCHANGED <<view, server, client, breaks, views>>

\* Variant: clients are not told of a server that left.
GoneQuietly(s) == Nothing
\* remove_data_node: unregister_data_node, ...
Gone(s) == Notice(s.addr, {}, s.vids)

RemoveDataNode(m) ==
  /\ stream[m].task = "stop"
  /\ stream' = [stream EXCEPT ![m] = [@ EXCEPT !.task = "tell", !.up = <<>>, !.addr = "none",
                !.vids = {}, !.out = Gone(stream[m])]]
  /\ UNCHANGED <<view, server, client, breaks, views>>

\* ... then the clients are told.
TellGone(m) ==
  /\ stream[m].task = "tell" /\ Len(link.queue) < MaxQueue
  /\ link' = Told(m, stream[m].out)
  /\ stream' = [stream EXCEPT ![m] = [@ EXCEPT !.task = "none", !.out = Nothing]]
  /\ UNCHANGED <<view, server, locs, breaks, views>>

(***************************************************************************)
(* The client                                                              *)
(***************************************************************************)
\* Variant: one master too far.
TargetNext == IF link.hint # NoMaster THEN link.hint ELSE Seeds[NextPos(link.next)]
Target == IF link.hint # NoMaster THEN link.hint ELSE Seeds[link.next]

\* An error ends try_all_masters, which begins again with the first master; the
\* locations stay.
Restarted == [NoLink EXCEPT !.count = link.count]

\* keep_connected of a master that leads registers the channel of the client.
Register ==
  /\ setting.client /\ link.state = "off" /\ IsLeader(Target)
  /\ link' = [link EXCEPT !.state = "registered", !.master = Target, !.queue = <<>>,
                          !.hint = NoMaster, !.count = IF @ = 0 THEN 1 ELSE 2]
  /\ UNCHANGED <<view, server, stream, locs, breaks, views>>

\* keep_connected of another master is refused.
Refused ==
  /\ setting.client /\ link.state = "off" /\ ~IsLeader(Target)
  /\ link' = Restarted
  /\ UNCHANGED <<view, server, stream, locs, breaks, views>>

\* to_volume_locations: what is registered, ahead of all notices in the channel.
Snapshot(m) == Notice(stream[m].addr, stream[m].vids, {})
Subscribed(queue, m) == <<Snapshot(m)>> \o queue
SendLocations ==
  /\ link.state = "registered"
  /\ link' = [link EXCEPT !.state = "reading", !.queue = Subscribed(@, link.master), !.sent = 1]
  /\ UNCHANGED <<view, server, stream, locs, breaks, views>>

\* interval.tick() finds that the master does not lead: the client is told the
\* leader if there is one, and notices not yet passed on to it are lost; the
\* locations of SendLocations are not.
LoseClient ==
  /\ link.state = "reading" /\ ~IsLeader(link.master)
  /\ \E k \in link.sent..Len(link.queue) :
       link' = [link EXCEPT !.state = "closing",
         !.queue = IF view[link.master] = NoMaster THEN SubSeq(@, 1, k)
                   ELSE Append(SubSeq(@, 1, k), Leader(view[link.master]))]
  /\ UNCHANGED <<view, server, stream, locs, breaks, views>>

\* add_location and delete_location for every volume of a notice.
Applied(notice) ==
  (locs \cup ({notice.addr} \X notice.new)) \ ({notice.addr} \X notice.deleted)

\* One VolumeLocation: a change of locations, or the hint to another master.
Receive ==
  /\ link.state \in {"reading", "closing"} /\ link.queue # <<>>
  /\ LET notice == Head(link.queue) IN
     \/ /\ notice.leader = NoMaster
        /\ locs' = Applied(notice)
        /\ link' = [link EXCEPT !.queue = Tail(@), !.sent = 0]
     \/ /\ notice.leader # NoMaster
        /\ link' = [link EXCEPT !.state = "off", !.master = NoMaster, !.queue = <<>>,
                                !.hint = notice.leader, !.sent = 0]
        /\ UNCHANGED locs
  /\ UNCHANGED <<view, server, stream, breaks, views>>

\* The stream ends without a hint: the locations are cleared, and the next
\* master of the list is tried.
ClientStreamOver ==
  /\ link.state = "closing" /\ link.queue = <<>>
  /\ locs' = {}
  /\ link' = [Restarted EXCEPT !.next = NextPos(link.next)]
  /\ UNCHANGED <<view, server, stream, breaks, views>>

\* The connection of the client fails.
ClientBreaks ==
  /\ link.state # "off"
  /\ breaks < setting.breaks /\ breaks' = breaks + 1
  /\ link' = Restarted
  /\ UNCHANGED <<view, server, stream, locs, views>>

ServerStep == PassBy \/ Connect \/ Answered \/ StreamOver
MasterStep(m) == Handle(m) \/ Answer(m) \/ InStreamEnds(m) \/ RemoveDataNode(m) \/ TellGone(m)
ClientStep == Register \/ Refused \/ SendLocations \/ LoseClient \/ Receive \/ ClientStreamOver

Next ==
  \/ \E m \in Cluster, l \in Cluster \cup {NoMaster} : ViewChanges(m, l)
  \/ \E v \in Vids : AddVolume(v) \/ Expire(v)
  \/ ServerStep \/ Tick \/ SendNew \/ ConnectFails \/ StreamBreaks
  \/ \E m \in Cluster : MasterStep(m)
  \/ ClientStep \/ ClientBreaks

\* The loops of the server, of the masters and of the client go on, and so does
\* the interval of heartbeats. Nothing makes leaders change, volumes come or
\* go, or connections fail.
Fairness ==
  /\ WF_vars(ServerStep) /\ WF_vars(Tick) /\ WF_vars(ClientStep)
  /\ \A m \in Masters : WF_vars(MasterStep(m))

Spec == Init /\ [][Next]_vars /\ Fairness

(***************************************************************************)
(* Properties                                                              *)
(***************************************************************************)
StreamType ==
  [open : BOOLEAN, task : {"none", "read", "answer", "stop", "tell"},
   up : Seq(Messages), down : Seq(Masters),
   addr : {"none", "server", "port0"}, vids : SUBSET Vids, out : Notices]

LinkType ==
  [state : {"off", "registered", "reading", "closing"}, master : Leaders,
   queue : Seq(Notices), next : DOMAIN Seeds, hint : Leaders, sent : 0..1, count : 0..2]

\* Every variable has the shape of the data it stands for.
TypeOK ==
  /\ setting \in Settings /\ view \in [Masters -> Leaders]
  /\ has \subseteq Vids /\ fresh \subseteq Vids /\ newVolumes \in Seq(Vids)
  /\ pos \in DOMAIN Seeds /\ newLeader \in Leaders /\ current \in Leaders /\ conn \in Leaders
  /\ stream \in [Masters -> StreamType]
  /\ locs \subseteq {"none", "server", "port0"} \X Vids /\ link \in LinkType
  /\ breaks \in 0..setting.breaks /\ views \in 0..setting.views

\* The client has received all that its master has sent, and the master has
\* nothing left to send.
CaughtUp ==
  /\ link.state = "reading" /\ link.queue = <<>>
  /\ stream[link.master].out = Nothing

\* What a master has registered: the locations lookup would return.
Registered(m) == {stream[m].addr} \X stream[m].vids

\* A client that has caught up with its master misses none of the volumes the
\* master has registered, whichever master it followed before and however the
\* volumes were registered around the moment it subscribed (keep_connected
\* inserts the channel first and sends what is registered afterwards).
ClientMissesNothing == CaughtUp => Registered(link.master) \subseteq locs

\* On its first connection a client that has caught up has exactly the
\* locations of its master: none of a volume that expired or of a server that
\* left. (Later connections begin with the locations of the one before, which
\* try_all_masters clears only if a stream ended without error and hint.)
ClientExact == CaughtUp /\ link.count = 1 => locs = Registered(link.master)

\* If all masters come to agree on a leader, the server finds it, and in the end
\* the leader has registered exactly the volumes of the server, although it
\* drops messages while it does not lead and takes no volume of a first message.
LeaderLearns ==
  \A m \in Masters :
    <>[](\A n \in Cluster : view[n] = m) => <>[](stream[m].vids = has)

\* If the first master of the list ends up as the leader, clients that know the
\* list come to know every volume of the server.
ClientLearns ==
  <>[](setting.client /\ \A n \in Cluster : view[n] = Seeds[1])
    => <>[](Registered(Seeds[1]) \subseteq locs /\ stream[Seeds[1]].vids = has)

=============================================================================
