------------------------------- MODULE EcIndex -------------------------------
(***************************************************************************)
(* The index of an erasure coded volume: the sorted .ecx file made from    *)
(* the .idx file, the search in it, deletions, which are marked in the     *)
(* .ecx file and appended to the .ecj journal, the rebuild of the .ecx     *)
(* file, and the .idx file that is written back.                           *)
(*                                                                         *)
(* The .ecx file is a sequence of words of four bytes: an entry is the two *)
(* words of the needle id, then offset and size.  The high word of the ids *)
(* in use is 0; the word -1 is the largest one.  The .ecj file is a        *)
(* sequence of ids.                                                        *)
(***************************************************************************)
EXTENDS Integers, Sequences, SequencesExt, FiniteSets

CONSTANTS Ids,          \* needle ids, positive numbers below Base
          Base,         \* larger than every low word
          MaxEntries,   \* bound on the length of the .idx file
          MaxDeletes,   \* bound on the number of delete requests
          Deleters,     \* delete requests that may be under way
          Settings      \* what may go on in a behaviour:
                        \* .deleters  requests that may be under way at the same time
                        \* .rebuilds  may the shards be rebuilt

ASSUME IndexAssumption ==
  /\ Ids \subseteq 1..(Base - 1) /\ Base \in Nat
  /\ MaxEntries \in Nat /\ MaxDeletes \in Nat
  /\ \A x \in Settings : x.deleters \subseteq Deleters /\ x.rebuilds \in BOOLEAN

VARIABLES setting,        \* the setting of this behaviour
          idx,            \* .idx file: ids with offset and size
          ecx, entries,   \* .ecx file, and the number of entries when it was opened
          ecj, linked,    \* .ecj file the volume has open; is it in the directory
          req, at,        \* per request: what it deletes, and where it is
          pos,            \* offset at which it writes to the journal
          deletes,
          asked, done,    \* history: ids with a delete request, with an answer
          phase           \* "volume", "ec" or "back"

task == <<req, at, pos>>
vars == <<setting, idx, ecx, entries, ecj, linked, task, deletes, asked, done, phase>>

Tombstone == -1
\* Size::is_deleted
IsDeleted(size) == size < 0

\* load_from_index, and NeedleMapper::load_index_file: the map the file stands for.
Replay(f) ==
  FoldLeft(LAMBDA m, en : [k \in DOMAIN m |->
             IF k # en.id THEN m[k]
             ELSE IF en.offset = 0 \/ IsDeleted(en.size) THEN [offset |-> 0, size |-> Tombstone]
                  ELSE [offset |-> en.offset, size |-> en.size]],
           [k \in Ids |-> [offset |-> 0, size |-> Tombstone]], f)
Live(f) == {k \in Ids : Replay(f)[k].offset # 0}

\* Entries as they are written to the .idx file: the n-th needle written has offset and size n.
Put(k, n) == [id |-> k, offset |-> n, size |-> n]
Del(k, n) == [id |-> k, offset |-> 0, size |-> Tombstone]
IdxFiles ==
  UNION {{[i \in 1..n |-> IF ops[i][2] THEN Put(ops[i][1], i) ELSE Del(ops[i][1], i)] :
            ops \in [1..n -> Ids \X BOOLEAN]} : n \in 1..MaxEntries}

Init ==
  /\ setting \in Settings
  /\ idx \in {f \in IdxFiles : Live(f) # {}} /\ phase = "volume"
  /\ ecx = <<>> /\ entries = 0 /\ ecj = <<>> /\ linked = FALSE
  /\ req = [t \in Deleters |-> 0] /\ at = [t \in Deleters |-> "idle"]
  /\ pos = [t \in Deleters |-> 0]
  /\ deletes = 0 /\ asked = {} /\ done = {}

-----------------------------------------------------------------------------
(* The .ecx file *)

\* ascending_visit: the needles in the order of their ids
Sorted(f) == SetToSortSeq(Live(f), LAMBDA a, b : a < b)

\* write_sorted_file_from_index
EcxOf(f) == FlattenSeq([i \in 1..Len(Sorted(f)) |->
              LET k == Sorted(f)[i] IN <<0, k, Replay(f)[k].offset, Replay(f)[k].size>>])

\* read_index_entry of entry m: the id is read as an unsigned number.
Unsigned(w) == IF w < 0 THEN Base - 1 ELSE w
IdAt(m) == Unsigned(ecx[4 * m + 1]) * Base + ecx[4 * m + 2]
ValueAt(m) == [offset |-> ecx[4 * m + 3], size |-> ecx[4 * m + 4]]

\* Variant: the search leaves out the entry below the middle.
HighBelow(middle) == middle - 1
High(middle) == middle

NotFound == -1
\* search_needle_from_sorted_index: the number of the entry with id k
RECURSIVE Search(_, _, _)
Search(k, low, high) ==
  LET middle == (low + high) \div 2 IN
  IF low >= high THEN NotFound
  ELSE IF IdAt(middle) = k THEN middle
  ELSE IF IdAt(middle) < k THEN Search(k, middle + 1, high) ELSE Search(k, low, High(middle))

Find(k) == Search(k, 0, entries)

\* Overwrites the words of a file from position p on.
WriteAt(f, p, words) ==
  LET n == IF Len(f) < p + Len(words) THEN p + Len(words) ELSE Len(f) IN
  [i \in 1..n |-> IF i \in (p + 1)..(p + Len(words)) THEN words[i - p] ELSE f[i]]

\* mark_needle_deleted: a buffer of four zero bytes, to which the tombstone is appended.
MarkNeedleDeleted(f, m) == WriteAt(f, 4 * m + 3, <<0, Tombstone>>)

-----------------------------------------------------------------------------
(* Requests *)

\* volume_ec_shards_generate, and the next start of the server mounts the volume from
\* the files: EcVolume::new.
Generate ==
  /\ phase = "volume"
  /\ ecx' = EcxOf(idx) /\ entries' = Len(ecx') \div 4
  /\ ecj' = <<>> /\ linked' = TRUE /\ phase' = "ec"
  /\ UNCHANGED <<setting, idx, task, deletes, asked, done>>

Answer(t) == at' = [at EXCEPT ![t] = "idle"] /\ req' = [req EXCEPT ![t] = 0] /\ pos' = [pos EXCEPT ![t] = 0]

\* volume_ec_blob_delete: the needle is looked up; an error if there is none, and
\* nothing to do if it is deleted.
BlobDelete(t, k) ==
  /\ phase = "ec" /\ at[t] = "idle" /\ deletes < MaxDeletes
  /\ deletes' = deletes + 1 /\ asked' = asked \cup {k}
  /\ IF Find(k) = NotFound \/ IsDeleted(ValueAt(Find(k)).size) THEN UNCHANGED task
     ELSE /\ req' = [req EXCEPT ![t] = k] /\ at' = [at EXCEPT ![t] = "mark"]
          /\ UNCHANGED pos
  /\ UNCHANGED <<setting, idx, ecx, entries, ecj, linked, done, phase>>

\* delete_needle_from_ecx: the needle is looked up again and marked.
Mark(t) ==
  /\ phase = "ec" /\ at[t] = "mark"
  /\ \/ /\ Find(req[t]) # NotFound
        /\ ecx' = MarkNeedleDeleted(ecx, Find(req[t]))
        /\ at' = [at EXCEPT ![t] = "length"] /\ UNCHANGED <<req, pos>>
     \/ Find(req[t]) = NotFound /\ Answer(t) /\ UNCHANGED ecx
  /\ UNCHANGED <<setting, idx, entries, ecj, linked, deletes, asked, done, phase>>

\* The length of the journal.
JournalLength(t) ==
  /\ phase = "ec" /\ at[t] = "length"
  /\ pos' = [pos EXCEPT ![t] = Len(ecj)] /\ at' = [at EXCEPT ![t] = "journal"]
  /\ UNCHANGED <<setting, idx, ecx, entries, ecj, linked, req, deletes, asked, done, phase>>

\* Variant: only the empty buffer is written.
JournalEntryEmpty(k) == <<0>>
\* A buffer of eight zero bytes, to which the id is appended.
JournalEntry(k) == <<0, k>>

Journal(t) ==
  /\ phase = "ec" /\ at[t] = "journal"
  /\ ecj' = WriteAt(ecj, pos[t], JournalEntry(req[t]))
  /\ done' = done \cup {req[t]}
  /\ Answer(t)
  /\ UNCHANGED <<setting, idx, ecx, entries, linked, deletes, asked, phase>>

\* rebuild_ecx_file, for volume_ec_shards_rebuild: what is in the journal is marked, and
\* the journal is removed; the volume keeps the removed file open.
RebuildEcx ==
  LET mark(f, k) == LET m == Find(k) IN IF m = NotFound THEN f ELSE MarkNeedleDeleted(f, m) IN
  /\ phase = "ec" /\ setting.rebuilds /\ linked
  /\ ecx' = FoldLeft(mark, ecx, ecj)
  /\ linked' = FALSE
  /\ UNCHANGED <<setting, idx, entries, ecj, task, deletes, asked, done, phase>>

\* The server stops and mounts the volume again: EcVolume::new.
Restart ==
  /\ phase = "ec"
  /\ entries' = Len(ecx) \div 4
  /\ ecj' = IF linked THEN ecj ELSE <<>>
  /\ linked' = TRUE
  /\ req' = [t \in Deleters |-> 0] /\ at' = [t \in Deleters |-> "idle"]
  /\ pos' = [t \in Deleters |-> 0]
  /\ UNCHANGED <<setting, idx, ecx, deletes, asked, done, phase>>

\* write_index_file_from_ec_index, iterate_ecj_file: the .ecx file, then a deletion for
\* each id in the journal.
IndexFromEc ==
  [m \in 1..(Len(ecx) \div 4) |-> [id |-> IdAt(m - 1), offset |-> ValueAt(m - 1).offset,
                                   size |-> ValueAt(m - 1).size]]
  \o IF linked THEN [i \in 1..Len(ecj) |-> Del(ecj[i], i)] ELSE <<>>

\* volume_ec_shards_to_volume, when no delete is under way.
ToVolume ==
  /\ phase = "ec" /\ \A t \in Deleters : at[t] = "idle"
  /\ idx' = IndexFromEc /\ phase' = "back"
  /\ UNCHANGED <<setting, ecx, entries, ecj, linked, task, deletes, asked, done>>

Next ==
  \/ Generate \/ RebuildEcx \/ Restart \/ ToVolume
  \/ \E t \in setting.deleters : Mark(t) \/ JournalLength(t) \/ Journal(t) \/ \E k \in Ids : BlobDelete(t, k)

Spec == Init /\ [][Next]_vars

-----------------------------------------------------------------------------
(* Properties *)

\* The needles of the volume that has been encoded, and their values.
Original == Replay(idx)
Found(k) == LET m == Find(k) IN
  m # NotFound /\ ValueAt(m) = Original[k]

\* A needle whose id is below the ids of all delete requests is found in the .ecx file
\* with the offset and size it has in the .idx file (search_needle_from_sorted_index on
\* a file of which some entries have been overwritten by mark_needle_deleted).
FindsBelow ==
  phase = "ec" => \A k \in Live(idx) : (\A a \in asked : k < a) => Found(k)

\* As long as deletes come one after the other and the shards are not rebuilt, a needle
\* whose deletion has been answered is not in the volume that is made from .ecx and
\* .ecj, also after crashes and restarts.
DeletedStays ==
  Cardinality(setting.deleters) = 1 /\ ~setting.rebuilds /\ phase = "back" =>
    Live(idx) \cap done = {}
=============================================================================
