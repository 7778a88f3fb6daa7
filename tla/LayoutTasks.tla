----------------------------- MODULE LayoutTasks -----------------------------
(***************************************************************************)
(* The tasks that work on the master's layout of one (collection,          *)
(* replication, ttl), and what they share: which nodes hold each volume    *)
(* (`locations`), which volumes accept writes (`writable_volumes`), and    *)
(* what is known of the nodes.  There is one task per heartbeat stream,    *)
(* one for volume growth, for the vacuum loop and for assign requests.     *)
(* VolumeLayout has the steps they take.                                   *)
(***************************************************************************)
EXTENDS Lists

CONSTANTS Vids,           \* volume ids
          Nodes,          \* volume servers, by address
          Infos,          \* what a heartbeat can say of a volume
          ReadonlyInfos,  \* ... read_only
          OversizeInfos,  \* ... size at or above volume_size_limit
          ShortInfo,      \* ... what VolumeInfo::new_from_short and grow() make up
          CopyCount,      \* rp.copy_count()
          Shards, Shard,  \* shards of the DashMap, and the shard of each volume id
          Others,         \* tasks beside the heartbeat streams
          Settings        \* what may go on in a behaviour

Tasks == Nodes \cup Others

ASSUME LayoutAssumption ==
  /\ ReadonlyInfos \subseteq Infos /\ OversizeInfos \subseteq Infos
  /\ ShortInfo \in Infos \ (ReadonlyInfos \cup OversizeInfos)
  /\ CopyCount \in Nat \ {0}
  /\ Nodes \cap {"grow", "vacuum", "pick", "pickDc"} = {}
  /\ Shard \in [Vids -> Shards]
  /\ Others \subseteq {"grow", "vacuum", "pick", "pickDc"}
  /\ \A x \in Settings : /\ x.vids \subseteq Vids /\ x.infos \subseteq Infos
                         /\ x.others \subseteq Others /\ x.active \in Nat \ {0}

VARIABLES
  setting,     \* the volumes, infos and other tasks of this behaviour, and the bound
               \* `active` on the tasks inside the layout at the same time
  writable,    \* writable_volumes
  readonly,    \* readonly_volumes
  oversize,    \* oversize_volumes
  locations,   \* volume id -> sequence of nodes, for the ids in the DashMap
  volumes,     \* DataNode::volumes of each node: volume id -> info
  online,      \* nodes with a heartbeat stream
  linked,      \* nodes in the topology tree
  pc, job,     \* where each task is, and the call it executes
  at,          \* local of a task: a list index or a loop counter
  then,        \* where a task goes on after it has changed the list
  pending,     \* calls the task makes after this one
  died         \* history: tasks ended by a panic

layoutVars == <<writable, readonly, oversize, locations>>
nodeVars == <<volumes, online, linked, died>>
locals == <<at, then>>
taskVars == <<pc, job, pending, locals>>
vars == <<setting, layoutVars, nodeVars, taskVars>>

\* A call: op on volume v of node n, for which the node has reported info i.
Call(op, n, v, i) == [op |-> op, node |-> n, vid |-> v, info |-> i]
NoCall == Call("none", "none", "none", ShortInfo)

NoVolumes == [v \in {} |-> ShortInfo]
Put(f, k, x) == [j \in DOMAIN f \cup {k} |-> IF j = k THEN x ELSE f[j]]
Without(f, k) == Restrict(f, DOMAIN f \ {k})

-----------------------------------------------------------------------------
(* Control of a task *)

Active == {t \in Tasks : pc[t] # "idle"}

\* Tasks that count for the bound: not the vacuum loop once it waits for itself.
Busy == {t \in Active : pc[t] # "available"}

FirstPc(op) ==
  CASE op = "register" -> "enter" [] op = "grow" -> "add"
    [] op = "unregister" -> "detach" [] op = "unavailable" -> "evict"
    [] op = "unlink" -> "unlink"

\* Calls that come next: registrations before deregistrations, unlinking last.
Rank(op) == CASE op = "register" -> 1 [] op = "unlink" -> 3 [] OTHER -> 2
NextCalls(calls) == {c \in calls : \A d \in calls : Rank(c.op) <= Rank(d.op)}

\* Task t continues in the same call at p: with its locals as they are, with a new
\* value of `at`, or with a new value of `then`.
Goto(t, p) == pc' = [pc EXCEPT ![t] = p] /\ UNCHANGED <<setting, job, pending, locals>>
GotoAt(t, p, i) ==
  /\ pc' = [pc EXCEPT ![t] = p] /\ at' = [at EXCEPT ![t] = i]
  /\ UNCHANGED <<setting, job, pending, then>>
GotoThen(t, p, q) ==
  /\ pc' = [pc EXCEPT ![t] = p] /\ then' = [then EXCEPT ![t] = q]
  /\ UNCHANGED <<setting, job, pending, at>>

\* Task t begins call c at p, with `calls` to follow.
Begin(t, p, c, calls) ==
  /\ pc' = [pc EXCEPT ![t] = p]
  /\ job' = [job EXCEPT ![t] = c]
  /\ pending' = [pending EXCEPT ![t] = calls]
  /\ at' = [at EXCEPT ![t] = 0] /\ then' = [then EXCEPT ![t] = "return"]
  /\ UNCHANGED setting

\* Task t makes the next of its calls, or is through.
Proceed(t, calls) ==
  \/ calls = {} /\ Begin(t, "idle", NoCall, {})
  \/ \E c \in NextCalls(calls) : Begin(t, FirstPc(c.op), c, calls \ {c})

Return(t) == Proceed(t, pending[t])

\* Task t goes on at p of its call, or is through with it.
Resume(t, p) == IF p = "return" THEN Return(t) ELSE Goto(t, p)

\* A panic ends the task.  A heartbeat stream then ends without remove_data_node,
\* which leaves its node in the tree.
Panic(t) ==
  /\ Begin(t, "idle", NoCall, {})
  /\ online' = online \ {t}
  /\ died' = died \cup {t}
  /\ UNCHANGED <<volumes, linked>>

\* One task at a time, or up to `active`.
HasRoom == IF setting.active = 1 THEN Busy = {} ELSE Cardinality(Busy) < setting.active

Start(t) == t \in Nodes \cup setting.others /\ pc[t] = "idle" /\ HasRoom

\* Volume growth runs alone, if at all.
GrowsAlone == "grow" \in setting.others => setting.active = 1
=============================================================================
