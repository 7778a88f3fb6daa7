-------------------------------- MODULE EcStore --------------------------------
(***************************************************************************)
(* The erasure coded volumes of the volume servers: the files of their     *)
(* shards on disk, what a server mounts when it starts, the requests that  *)
(* make, rebuild and remove shards, and reading a needle whose data is     *)
(* spread over shards here and on other servers.                           *)
(*                                                                         *)
(* Mounting, unmounting and copying shards are todo!() in the server:      *)
(* shards are mounted by a start only, and files are moved between servers *)
(* by hand.  A needle's data lies in the shards Needle[v], in this order.  *)
(* That a needle of an erasure coded volume is never seen as deleted is    *)
(* shown by EcIndex; how shards are coded is the subject of EcStripe.      *)
(***************************************************************************)
EXTENDS Integers, Sequences, SequencesExt, FiniteSets, FiniteSetsExt

CONSTANTS Servers, Vids, DataShards, ParityShards, Needle,
          Owner,            \* the server that has the volumes at first
          DirEndsWithSlash, \* whether the directory given to the server ends with /
          Settings          \* what may go on in a behaviour:
                            \* .servers  the servers there are
                            \* .vids     the volumes there are
                            \* .steps    bound on starts and stops, requests and reads

ShardIds == 0..(DataShards + ParityShards - 1)

ASSUME StoreAssumption ==
  /\ Owner \in Servers /\ DirEndsWithSlash \in BOOLEAN
  /\ \A x \in Settings : /\ Owner \in x.servers /\ x.servers \subseteq Servers
                         /\ x.vids \subseteq Vids /\ x.steps \in Nat
  /\ DataShards \in Nat \ {0} /\ ParityShards \in Nat
  /\ Vids = 1..Cardinality(Vids)
  /\ \A v \in Vids : \A k \in DOMAIN Needle[v] : Needle[v][k] \in 0..(DataShards - 1)

VARIABLES setting,  \* the setting of this behaviour
          shards,   \* server -> volume -> shard files
          empty,    \* those of them with no data
          ecx, ecj, vif, idx, \* server -> volumes with a file of that kind
          up,       \* servers that run
          mounted,  \* server -> volume -> shards it has open
          cached,   \* server -> volume -> shard_locations: shard -> servers
          ever,     \* server -> volume -> shards it has had mounted (what the master may know)
          answer,   \* the last read
          steps

disk == <<shards, empty, ecx, ecj, vif, idx>>
vars == <<setting, disk, up, mounted, cached, ever, answer, steps>>

NoShards == [v \in Vids |-> {}]
Nowhere == [v \in Vids |-> <<>>]  \* functions with an empty domain
NoAnswer == "none"

Init ==
  /\ setting \in Settings
  /\ shards = [s \in Servers |-> NoShards] /\ empty = [s \in Servers |-> NoShards]
  /\ ecx = [s \in Servers |-> {}] /\ ecj = [s \in Servers |-> {}] /\ vif = [s \in Servers |-> {}]
  /\ idx = [s \in Servers |-> IF s = Owner THEN setting.vids ELSE {}]
  /\ up = Servers /\ mounted = [s \in Servers |-> NoShards]
  /\ cached = [s \in Servers |-> Nowhere] /\ ever = [s \in Servers |-> NoShards]
  /\ answer = NoAnswer /\ steps = 0

Request(s) == s \in up /\ steps < setting.steps /\ steps' = steps + 1 /\ answer' = NoAnswer
Memory == <<setting, up, mounted, cached, ever>>

-----------------------------------------------------------------------------
(* Files *)

\* volume_ec_shards_generate: .ecx, the shards, .vif
Generate(s, v) ==
  /\ Request(s) /\ v \in idx[s]
  /\ ecx' = [ecx EXCEPT ![s] = @ \cup {v}] /\ vif' = [vif EXCEPT ![s] = @ \cup {v}]
  /\ shards' = [shards EXCEPT ![s][v] = ShardIds] /\ empty' = [empty EXCEPT ![s][v] = {}]
  /\ UNCHANGED <<ecj, idx, Memory>>

\* generate_missing_ec_files: the missing shards are created first.  Nothing is restored
\* when one of the others has no data, and the request fails when there are too few.
TooFew(s, v) == empty[s][v] = {} /\ Cardinality(shards[s][v]) < DataShards
EmptyAfter(s, v) ==
  IF empty[s][v] = {} /\ ~TooFew(s, v) THEN {} ELSE empty[s][v] \cup (ShardIds \ shards[s][v])

\* volume_ec_shards_rebuild: the shards, then the .ecx file, which removes the journal
Rebuild(s, v) ==
  /\ Request(s) /\ v \in ecx[s]
  /\ shards' = [shards EXCEPT ![s][v] = ShardIds]
  /\ empty' = [empty EXCEPT ![s][v] = EmptyAfter(s, v)]
  /\ ecj' = [ecj EXCEPT ![s] = IF TooFew(s, v) THEN @ ELSE @ \ {v}]
  /\ UNCHANGED <<ecx, vif, idx, Memory>>

\* Variant: the last shard is not counted.
ExistingShardCountLess(left) == IF left = {} THEN 0 ELSE Cardinality(left) - 1
ExistingShardCount(left) == Cardinality(left)

StillEmpty(e, left) == e \cap left

\* volume_ec_shards_delete: the path of the .ecx file is the directory and the name with
\* nothing between.  A file that is not there ends the request: the shards before it,
\* or .ecx before .ecj, are gone.
Delete(s, v, ids) ==
  \E gone \in SUBSET (ids \cap shards[s][v]) :
    LET found == DirEndsWithSlash /\ v \in ecx[s]
        all == ids \subseteq shards[s][v]
        left == shards[s][v] \ gone
        last == found /\ all /\ ExistingShardCount(left) = 0
        goesOn == found /\ all /\ (last => v \in ecj[s]) IN
    /\ Request(s) /\ (all => gone = ids)
    /\ shards' = [shards EXCEPT ![s][v] = IF found THEN left ELSE @]
    /\ empty' = [empty EXCEPT ![s][v] = IF found THEN StillEmpty(@, left) ELSE @]
    /\ ecx' = [ecx EXCEPT ![s] = IF last THEN @ \ {v} ELSE @]
    /\ ecj' = [ecj EXCEPT ![s] = IF last THEN @ \ {v} ELSE @]
    /\ vif' = [vif EXCEPT ![s] = IF goesOn /\ v \notin idx[s] THEN @ \ {v} ELSE @]
    /\ UNCHANGED <<idx, Memory>>

\* The operator copies shards with their index to a server that is stopped, or removes
\* the volume the shards were made from.
Copy(s, t, v, ids) ==
  /\ t \notin up /\ t # s /\ v \in ecx[s] /\ ids # {} /\ ids \subseteq shards[s][v] \ empty[s][v]
  /\ shards[t][v] = {} /\ steps < setting.steps /\ steps' = steps + 1
  /\ shards' = [shards EXCEPT ![t][v] = ids] /\ ecx' = [ecx EXCEPT ![t] = @ \cup {v}]
  /\ UNCHANGED <<empty, ecj, vif, idx, Memory, answer>>

RemoveVolume(s, v) ==
  /\ s \notin up /\ v \in idx[s] /\ v \in ecx[s]
  /\ idx' = [idx EXCEPT ![s] = @ \ {v}]
  /\ UNCHANGED <<shards, empty, ecx, ecj, vif, Memory, answer, steps>>

-----------------------------------------------------------------------------
(* Starting *)

\* The directory in order of the file names: the shards of a volume, then its .ecx.
Entry(v, i) == [vid |-> v, shard |-> i]
Ecx == DataShards + ParityShards
OnDisk(s, e) == IF e.shard = Ecx THEN e.vid \in ecx[s] ELSE e.shard \in shards[s][e.vid]
Names == [k \in 1..(Cardinality(Vids) * (Ecx + 1)) |->
            Entry((k - 1) \div (Ecx + 1) + 1, (k - 1) % (Ecx + 1))]
Listing(s) == SelectSeq(Names, LAMBDA e : OnDisk(s, e))

\* Variant: the volume of the first shard is kept.
SameVolumeShardsFirst(st, e) ==
  IF st.pre = 0 THEN [st EXCEPT !.pre = e.vid, !.same = {e.shard}]
  ELSE IF st.pre = e.vid THEN [st EXCEPT !.same = @ \cup {e.shard}] ELSE st
\* A shard belongs to the shards before it or begins the next volume.
SameVolumeShards(st, e) ==
  [st EXCEPT !.pre = e.vid,
             !.same = IF st.pre = 0 \/ e.vid = st.pre THEN @ \cup {e.shard} ELSE {e.shard}]

\* load_all_shards, with load_ec_shards when the .ecx file of the volume comes
Visit(st, e) ==
  IF e.shard # Ecx THEN SameVolumeShards(st, e)
  ELSE IF e.vid = st.pre THEN [st EXCEPT !.loaded[e.vid] = @ \cup st.same]
  ELSE st
LoadAllShards(s) == FoldLeft(Visit, [pre |-> 0, same |-> {}, loaded |-> NoShards], Listing(s)).loaded

\* collect_erasure_coding_heartbeat: what a server reports is what it has mounted.
ReportedBy(s, loaded) == [v \in Vids |-> ever[s][v] \cup loaded[v]]

\* Store::new: EcVolume::new makes .ecj and .vif
Start(s) ==
  LET loaded == LoadAllShards(s)
      opened == {v \in Vids : loaded[v] # {}} IN
  /\ s \notin up /\ steps < setting.steps /\ steps' = steps + 1
  /\ up' = up \cup {s} /\ mounted' = [mounted EXCEPT ![s] = loaded]
  /\ cached' = [cached EXCEPT ![s] = Nowhere]
  /\ ever' = [ever EXCEPT ![s] = ReportedBy(s, loaded)]
  /\ ecj' = [ecj EXCEPT ![s] = @ \cup opened] /\ vif' = [vif EXCEPT ![s] = @ \cup opened]
  /\ UNCHANGED <<setting, shards, empty, ecx, idx, answer>>

Stop(s) ==
  /\ s \in up /\ up' = up \ {s}
  /\ mounted' = [mounted EXCEPT ![s] = NoShards] /\ cached' = [cached EXCEPT ![s] = Nowhere]
  /\ answer' = NoAnswer /\ UNCHANGED <<setting, disk, ever, steps>>

-----------------------------------------------------------------------------
(* Reading *)

\* Variant: the locations are put in when there are none.
RefreshedInserts(v, known) == [i \in {j \in ShardIds : known[j] # <<>>} |-> known[i]]
\* cached_lookup_ec_shard_locations: the locations of each shard are removed, and those of
\* the answer are added to the ones that are there.
Refreshed(v, known) == <<>>

HasData(t, v, i) == t \in up /\ i \in mounted[t][v] /\ i \notin empty[t][v]

\* read_remote_ec_shard_interval: the first server that answers; the buffer is left as it
\* is, and taken for data, when none does.
ReadRemote(list, v, i) ==
  IF list = <<>> THEN "error"
  ELSE IF \E k \in DOMAIN list : HasData(list[k], v, i) THEN "data" ELSE "zeros"

\* recover_one_remote_ec_shard_interval: from the shards of other servers that were read
Recover(cache, v, i) ==
  LET read == {j \in DOMAIN cache \ {i} : ReadRemote(cache[j], v, j) = "data"} IN
  IF Cardinality(read) >= DataShards THEN "data" ELSE "error"

\* read_one_ec_shard_interval
ReadInterval(s, cache, v, i) ==
  IF i \in mounted[s][v] THEN IF i \in empty[s][v] THEN "error" ELSE "data"
  ELSE IF i \in DOMAIN cache /\ ReadRemote(cache[i], v, i) # "error" THEN ReadRemote(cache[i], v, i)
  ELSE Recover(cache, v, i)

\* read_ec_shard_intervals
ReadIntervals(s, cache, v) ==
  LET results == {ReadInterval(s, cache, v, Needle[v][k]) : k \in DOMAIN Needle[v]} IN
  IF "error" \in results THEN "error" ELSE IF "zeros" \in results THEN "zeros" ELSE "data"

\* The locations the master may have: those of the servers that have reported, or none
\* (EcRegistry).
Known(v, all) ==
  [i \in ShardIds |-> IF all THEN SetToSeq({t \in Servers : i \in ever[t][v]}) ELSE <<>>]

\* get_or_head_handler and read_ec_shard_needle, for a volume that is here as shards only.
\* The locations are fresh, or they are asked for, and the master may refuse.
Read(s, v) ==
  \E fresh, refused, all \in BOOLEAN :
    LET cache == IF fresh THEN cached[s][v] ELSE Refreshed(v, Known(v, all)) IN
    /\ s \in up /\ steps < setting.steps /\ steps' = steps + 1
    /\ v \notin idx[s] /\ mounted[s][v] # {}
    /\ cached' = [cached EXCEPT ![s][v] = IF refused /\ ~fresh THEN @ ELSE cache]
    /\ answer' = IF refused /\ ~fresh THEN "error" ELSE ReadIntervals(s, cache, v)
    /\ UNCHANGED <<setting, disk, up, mounted, ever>>

Next ==
  \E s \in setting.servers :
    \/ Start(s) \/ Stop(s)
    \/ \E v \in setting.vids :
         \/ Generate(s, v) \/ Rebuild(s, v) \/ RemoveVolume(s, v) \/ Read(s, v)
         \/ \E ids \in SUBSET ShardIds \ {{}} : Delete(s, v, ids) \/ \E t \in setting.servers : Copy(s, t, v, ids)

Spec == Init /\ [][Next]_vars

-----------------------------------------------------------------------------
(* Properties *)

\* A server that starts mounts every shard file whose volume has an index on its disk, and
\* no other (load_all_shards), whatever volumes lie beside it in the directory and which
\* requests were cut short before.
LoadsAll ==
  [][\A s \in Servers : s \notin up /\ s \in up' =>
       \A v \in Vids : mounted'[s][v] = IF v \in ecx[s] THEN shards[s][v] ELSE {}]_vars

\* Removing shards leaves the index to those that stay (volume_ec_shards_delete): a server
\* with shards of a volume has their .ecx file.
KeepsIndex ==
  \A s \in Servers : \A v \in Vids : shards[s][v] # {} => v \in ecx[s]

\* What is read of a needle is its data: a read that finds a shard nowhere fails
\* (read_one_ec_shard_interval).  It rests on the locations never being cached: a read from
\* servers that are all gone would return the empty buffer as data.
ReadsData == answer # "zeros"
=============================================================================
