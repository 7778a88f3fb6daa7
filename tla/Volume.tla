------------------------------- MODULE Volume -------------------------------
(***************************************************************************)
(* One volume of a volume server: the append-only data file (.dat), the    *)
(* index log (.idx), the in-memory needle map, and the two-phase           *)
(* compaction (.cpd/.cpx) that runs beside reads, writes and deletes.      *)
(*                                                                         *)
(* Concurrency is the code's.  Every request and the whole of compact()    *)
(* hold a shared DashMap reference to the volume; commit_compact() holds   *)
(* the exclusive one.  A request tests `readonly` before it takes          *)
(* data_file_lock and changes the files after, so it is two actions.       *)
(* compact() takes no lock on the data file: its scan interleaves with     *)
(* requests record by record.                                              *)
(***************************************************************************)
EXTENDS Naturals, Sequences, FiniteSets

CONSTANTS Keys,        \* needle ids
          Values,      \* payloads of needles
          EmptyValue,  \* the payload of length 0, whose index entry has size 0
          TtlValues,   \* payloads uploaded with a ttl
          Clients,     \* request handlers
          MaxRecs,     \* bound: records of a data file
          MaxRev       \* bound: compact revision of the data file

ASSUME ValuesAssumption == EmptyValue \in Values /\ TtlValues \subseteq Values
ASSUME BoundsAssumption == MaxRecs \in Nat /\ MaxRev \in Nat

VARIABLES
  files,        \* directory entries of the volume: a subset of Suffixes
  dat, cpd,     \* data file and compact data file: super block revision, records
  idx, cpx,     \* index file and compact index file: logs of index entries
  nm,           \* needle_mapper: needle id -> [off, size]
  mapper,       \* needle_mapper is Some
  fileCount, delCount,  \* metric.file_count, metric.deleted_count
  noWrite,      \* no_write_or_delete
  isCompacting, lastIdxOff, lastRev,   \* the fields of the same names
  status,       \* the volume is served, its process is down, ...
  vac,          \* program counter of the vacuum handler
  pos,          \* record the compaction scan visits next
  todo,         \* keys makeup_diff still has to copy
  reqs,         \* requests between their readonly test and data_file_lock
  content,      \* history: what writes and deletes left in the volume
  copyOk        \* history: no I/O error since the compaction that wrote cpd/cpx began

fileVars == <<files, dat, cpd, idx, cpx>>
memVars == <<nm, mapper, fileCount, delCount, noWrite, isCompacting, lastIdxOff, lastRev>>
vars == <<fileVars, memVars, status, vac, pos, todo, reqs, content, copyOk>>

-----------------------------------------------------------------------------
Suffixes == {"dat", "idx", "cpd", "cpx"}
SizeOf(v) == IF v = EmptyValue THEN 0 ELSE 1
Record == [key : Keys, val : Values]
DataFile == [rev : Nat, recs : Seq(Record)]
NeedleValue == [off : Nat, size : {0, 1}]
IndexEntry == [key : Keys, off : Nat, size : {0, 1}]
Request == [client : Clients, op : {"write", "delete"}, key : Keys, val : Values]

NoData == [rev |-> 0, recs |-> <<>>]
NoMap == [k \in {} |-> 0]
Entry(k, o, s) == [key |-> k, off |-> o, size |-> s]

\* MemoryNeedleValueMap::set and ::delete, on a map or on the history.
Put(f, k, x) == [j \in DOMAIN f \cup {k} |-> IF j = k THEN x ELSE f[j]]
Remove(f, k) == [j \in DOMAIN f \ {k} |-> f[j]]

\* What a set adds to the deleted count: the entry it replaces.
BumpDropped(f, k) == 0   \* mutant: an overwrite is not counted
Bump(f, k) == IF k \in DOMAIN f THEN 1 ELSE 0

AppendRec(file, k, v) == [file EXCEPT !.recs = Append(@, [key |-> k, val |-> v])]
EndOf(file) == Len(file.recs) + 1

\* The DashMap entry of the volume is not held exclusively.
Shared == status = "up" /\ vac \in {"idle", "scan"}
Exclusive == status = "up" /\ vac = "idle" /\ reqs = {}

\* Volume::read_needle for a needle that is not expired.
ReadNeedle(k) ==
  IF k \notin DOMAIN nm THEN [found |-> FALSE]
  ELSE IF nm[k].off = 0 THEN [found |-> FALSE]
  ELSE [found |-> TRUE, rec |-> dat.recs[nm[k].off]]

\* Volume::readonly, for no_write_can_delete that is never set.
NeverReadonly == FALSE   \* mutant
Readonly == noWrite

\* The needle map a load builds: the index was opened with truncate(true), or the
\* load panics at todo!() before there is a map.
OldMap == nm   \* mutant: the map survives the reload
ReplayedMap == NoMap

Init ==
  /\ files = {"dat", "idx"}
  /\ dat = NoData /\ cpd = NoData
  /\ idx = <<>> /\ cpx = <<>>
  /\ nm = NoMap /\ mapper = TRUE /\ fileCount = 0 /\ delCount = 0
  /\ noWrite = FALSE /\ isCompacting = FALSE /\ lastIdxOff = 0 /\ lastRev = 0
  /\ status = "up" /\ vac = "idle" /\ pos = 1 /\ todo = {}
  /\ reqs = {} /\ content = NoMap /\ copyOk = FALSE

-----------------------------------------------------------------------------
(* Requests *)

\* A request that found the volume writable, on its way to data_file_lock.
Admit(c, op, k, v) ==
  /\ Shared /\ ~Readonly
  /\ \A r \in reqs : r.client # c
  /\ Len(dat.recs) + Cardinality(reqs) < MaxRecs
  /\ reqs' = reqs \cup {[client |-> c, op |-> op, key |-> k, val |-> v]}
  /\ UNCHANGED <<fileVars, memVars, status, vac, pos, todo, content, copyOk>>

\* post_handler, Store::write_volume_needle.
PostNeedle(c, k, v) == Admit(c, "write", k, v)

\* delete_handler reads the needle first (its payload is appended again below), then
\* Store::delete_volume_needle.
DeleteRequest(c, k) ==
  /\ Shared /\ ReadNeedle(k).found
  /\ Admit(c, "delete", k, ReadNeedle(k).rec.val)

\* Volume::write_needle under data_file_lock: append the needle, then
\* NeedleMapper::set, which updates the map before it logs the entry.  When the
\* log write fails (~logged) the client gets an error but the map has changed.
WriteNeedle(r, logged) ==
  LET nv == [off |-> EndOf(dat), size |-> SizeOf(r.val)] IN
  /\ r \in reqs /\ r.op = "write" /\ Shared
  /\ dat' = AppendRec(dat, r.key, r.val)
  /\ nm' = Put(nm, r.key, nv)
  /\ idx' = IF logged THEN Append(idx, Entry(r.key, nv.off, nv.size)) ELSE idx
  /\ fileCount' = fileCount + 1
  /\ delCount' = delCount + Bump(nm, r.key)
  /\ content' = Put(content, r.key, r.val)
  /\ copyOk' = (copyOk /\ logged)
  /\ reqs' = reqs \ {r}
  /\ UNCHANGED <<files, cpd, cpx, mapper, noWrite, isCompacting, lastIdxOff, lastRev,
                 status, vac, pos, todo>>

\* Needle::append fails and the client gets an error: write_needle truncates the
\* file back; what delete_needle leaves behind holds no whole record.
RequestFails(r) ==
  /\ r \in reqs /\ Shared
  /\ reqs' = reqs \ {r}
  /\ UNCHANGED <<fileVars, memVars, status, vac, pos, todo, content, copyOk>>

\* Volume::delete_needle under data_file_lock.  The needle handed in is appended
\* whole; NeedleMapper::delete logs the entry it removed from the map, not a
\* tombstone.
DeleteNeedle(r, logged) ==
  /\ r \in reqs /\ r.op = "delete" /\ Shared
  /\ r.key \in DOMAIN nm
  /\ dat' = AppendRec(dat, r.key, r.val)
  /\ nm' = Remove(nm, r.key)
  /\ idx' = IF logged THEN Append(idx, Entry(r.key, nm[r.key].off, nm[r.key].size)) ELSE idx
  /\ delCount' = delCount + 1
  /\ content' = Remove(content, r.key)
  /\ copyOk' = (copyOk /\ logged)
  /\ reqs' = reqs \ {r}
  /\ UNCHANGED <<files, cpd, cpx, mapper, fileCount, noWrite, isCompacting, lastIdxOff,
                 lastRev, status, vac, pos, todo>>

\* The needle is not in the map: Ok(0).
DeleteMissing(r) ==
  /\ r \in reqs /\ r.op = "delete" /\ Shared
  /\ r.key \notin DOMAIN nm
  /\ reqs' = reqs \ {r}
  /\ UNCHANGED <<fileVars, memVars, status, vac, pos, todo, content, copyOk>>

\* Store::mark_volume_readonly.
MarkReadonly ==
  /\ Shared /\ ~noWrite
  /\ noWrite' = TRUE
  /\ UNCHANGED <<fileVars, nm, mapper, fileCount, delCount, isCompacting, lastIdxOff,
                 lastRev, status, vac, pos, todo, reqs, content, copyOk>>

-----------------------------------------------------------------------------
(* compact(): the scan *)

\* Offset of the first record, and the revision of the compacted file.
SuperBlockOffset == 0   \* mutant: the scan begins at the super block
ScanStart == 1
SameRevision == dat.rev   \* mutant: compact_revision is not increased
CompactRevision == dat.rev + 1

\* Volume::compact up to the first record: remember the length of the index log
\* and the revision, truncate .cpd and .cpx, write the new super block.  The scan
\* of a data file with no record fails with UnexpectedEof and leaves
\* isCompacting set.
Compact ==
  /\ status = "up" /\ vac = "idle"
  /\ dat.rev < MaxRev
  /\ lastIdxOff' = IF mapper THEN Len(idx) ELSE 0
  /\ lastRev' = dat.rev
  /\ isCompacting' = TRUE
  /\ files' = files \cup {"cpd", "cpx"}
  /\ cpd' = [rev |-> CompactRevision, recs |-> <<>>]
  /\ cpx' = <<>>
  /\ pos' = ScanStart
  /\ vac' = IF dat.recs = <<>> THEN "idle" ELSE "scan"
  /\ copyOk' = (mapper /\ dat.recs # <<>>)
  /\ UNCHANGED <<dat, idx, nm, mapper, fileCount, delCount, noWrite, status, todo, reqs,
                 content>>

\* The index still points at the visited record and the record is not empty.
CopyVisited ==
  LET k == dat.recs[pos].key IN
  k \in DOMAIN nm /\ nm[k].off = pos /\ nm[k].size > 0

\* visit_needle copies the record: the entry goes to .cpx, the needle to .cpd.  A
\* file that cleanup_compact has unlinked in the meantime receives nothing.  When
\* the write to .cpd fails (~written) the error is logged and the scan goes on.
ScanCopy(written) ==
  LET rec == dat.recs[pos] IN
  /\ vac = "scan" /\ pos \in DOMAIN dat.recs
  /\ CopyVisited
  /\ cpd' = IF written /\ "cpd" \in files THEN AppendRec(cpd, rec.key, rec.val) ELSE cpd
  /\ cpx' = IF "cpx" \in files
            THEN Append(cpx, Entry(rec.key, EndOf(cpd), SizeOf(rec.val))) ELSE cpx
  /\ pos' = pos + 1
  /\ copyOk' = (copyOk /\ written)
  /\ UNCHANGED <<files, dat, idx, memVars, status, vac, todo, reqs, content>>

\* visit_needle passes over garbage, empty needles, and needles whose ttl has run out.
ScanSkip ==
  /\ vac = "scan" /\ pos \in DOMAIN dat.recs
  /\ CopyVisited => dat.recs[pos].val \in TtlValues
  /\ pos' = pos + 1
  /\ UNCHANGED <<fileVars, memVars, status, vac, todo, reqs, content, copyOk>>

\* mutant: the end of the file rewinds the scan
ScanRewind ==
  /\ vac = "scan" /\ pos \notin DOMAIN dat.recs
  /\ pos' = ScanStart
  /\ UNCHANGED <<fileVars, memVars, status, vac, todo, reqs, content, copyOk>>

\* The header read at the end of the file: UnexpectedEof ends the scan.
ScanEnd ==
  /\ vac = "scan" /\ pos \notin DOMAIN dat.recs
  /\ vac' = "idle"
  /\ isCompacting' = FALSE
  /\ UNCHANGED <<fileVars, nm, mapper, fileCount, delCount, noWrite, lastIdxOff, lastRev,
                 status, pos, todo, reqs, content, copyOk>>

\* Any other read error ends compact() early; isCompacting stays set and the
\* partial .cpd and .cpx stay in the directory.
ScanError ==
  /\ vac = "scan"
  /\ vac' = "idle"
  /\ copyOk' = FALSE
  /\ UNCHANGED <<fileVars, memVars, status, pos, todo, reqs, content>>

\* Volume::cleanup_compact.
CleanupCompact ==
  /\ Shared /\ "cpd" \in files
  /\ files' = files \ {"cpd", "cpx"}
  /\ cpd' = NoData /\ cpx' = <<>>
  /\ UNCHANGED <<dat, idx, memVars, status, vac, pos, todo, reqs, content, copyOk>>

-----------------------------------------------------------------------------
(* commit_compact(): makeup_diff, two renames, reload *)

\* Keys with an entry logged since compact() recorded the length of the log.
DiffKeys == {idx[i].key : i \in (lastIdxOff + 1)..Len(idx)}

\* The latest such entry of a key: the walk runs from the end, first one kept.
FirstEntry(k) ==   \* mutant: the walk runs from the front
  idx[CHOOSE i \in (lastIdxOff + 1)..Len(idx) :
        idx[i].key = k /\ \A j \in (lastIdxOff + 1)..(i - 1) : idx[j].key # k]
LastEntry(k) ==
  idx[CHOOSE i \in (lastIdxOff + 1)..Len(idx) :
        idx[i].key = k /\ \A j \in (i + 1)..Len(idx) : idx[j].key # k]

\* The checks of makeup_diff: nothing to do, an error, or keys to copy.
CommitCompact ==
  /\ Exclusive
  /\ isCompacting' = TRUE
  /\ \/ /\ Len(idx) <= lastIdxOff
        /\ vac' = "renameDat" /\ todo' = {}
     \/ /\ Len(idx) > lastIdxOff
        /\ dat.rev = lastRev /\ {"cpd", "cpx"} \subseteq files /\ cpd.rev = dat.rev + 1
        /\ vac' = "diff" /\ todo' = DiffKeys
     \/ /\ Len(idx) > lastIdxOff
        /\ ~(dat.rev = lastRev /\ {"cpd", "cpx"} \subseteq files /\ cpd.rev = dat.rev + 1)
        /\ vac' = "discard" /\ todo' = {}
  /\ UNCHANGED <<fileVars, nm, mapper, fileCount, delCount, noWrite, lastIdxOff, lastRev,
                 status, pos, reqs, content, copyOk>>

\* One turn of the loop over incremented_has_updated_index_entry, a HashMap: an
\* entry with a size brings the needle over, one without becomes a fake deletion.
MakeupDiff(k) ==
  LET e == LastEntry(k) IN
  /\ vac = "diff" /\ k \in todo
  /\ e.off # 0 /\ e.size # 0 => e.off \in DOMAIN dat.recs
  /\ todo' = todo \ {k}
  /\ IF e.off # 0 /\ e.size # 0
     THEN /\ cpd' = AppendRec(cpd, dat.recs[e.off].key, dat.recs[e.off].val)
          /\ cpx' = Append(cpx, Entry(k, EndOf(cpd), e.size))
     ELSE /\ cpd' = AppendRec(cpd, k, EmptyValue)
          /\ cpx' = Append(cpx, Entry(k, 0, e.size))
  /\ UNCHANGED <<files, dat, idx, memVars, status, vac, pos, reqs, content, copyOk>>

\* The needle cannot be read from .dat or not be written to .cpd.
MakeupFails ==
  /\ vac = "diff" /\ todo # {}
  /\ vac' = "discard" /\ todo' = {}
  /\ UNCHANGED <<fileVars, memVars, status, pos, reqs, content, copyOk>>

MakeupDone ==
  /\ vac = "diff" /\ todo = {}
  /\ vac' = "renameDat"
  /\ UNCHANGED <<fileVars, memVars, status, pos, todo, reqs, content, copyOk>>

\* makeup_diff failed: remove .cpd and .cpx.  A missing file is an error that ends
\* commit_compact with the volume loaded and isCompacting set.
DiscardCompact ==
  /\ vac = "discard"
  /\ vac' = IF {"cpd", "cpx"} \subseteq files THEN "load" ELSE "idle"
  /\ files' = IF "cpd" \in files THEN files \ {"cpd", "cpx"} ELSE files
  /\ cpd' = NoData
  /\ cpx' = IF "cpd" \in files THEN <<>> ELSE cpx
  /\ UNCHANGED <<dat, idx, memVars, status, pos, todo, reqs, content, copyOk>>

\* fs::rename(.cpd, .dat); fails when there is no .cpd.
RenameDat ==
  /\ vac = "renameDat"
  /\ IF "cpd" \in files
     THEN /\ vac' = "renameIdx" /\ files' = files \ {"cpd"}
          /\ dat' = cpd /\ cpd' = NoData
     ELSE /\ vac' = "idle" /\ UNCHANGED <<files, dat, cpd>>
  /\ UNCHANGED <<idx, cpx, memVars, status, pos, todo, reqs, content, copyOk>>

\* fs::rename(.cpx, .idx).
RenameIdx ==
  /\ vac = "renameIdx" /\ "cpx" \in files
  /\ vac' = "load" /\ files' = files \ {"cpx"}
  /\ idx' = cpx /\ cpx' = <<>>
  /\ UNCHANGED <<dat, cpd, memVars, status, pos, todo, reqs, content, copyOk>>

\* Volume::load(false, true).  A writable volume opens the index with truncate(true)
\* and replays the now empty log; a read-only one runs into todo!(), which leaves
\* it without a needle map and with isCompacting set.
ReloadVolume ==
  /\ vac = "load"
  /\ vac' = "idle"
  /\ nm' = ReplayedMap /\ mapper' = ~noWrite /\ fileCount' = 0 /\ delCount' = 0
  /\ idx' = IF noWrite THEN idx ELSE <<>>
  /\ isCompacting' = noWrite
  /\ copyOk' = FALSE
  /\ UNCHANGED <<files, dat, cpd, cpx, noWrite, lastIdxOff, lastRev, status, pos, todo,
                 reqs, content>>

-----------------------------------------------------------------------------
(* Expiry, crash, restart *)

\* DiskLocation::delete_volume of a volume whose ttl ran out: it leaves the map of
\* volumes first, then Volume::destroy removes .dat and .idx unless isCompacting.
DestroyVolume ==
  /\ Exclusive
  /\ IF isCompacting
     THEN status' = "orphan" /\ UNCHANGED <<files, dat, idx>>
     ELSE /\ status' = "gone" /\ files' = files \ {"dat", "idx"}
          /\ dat' = NoData /\ idx' = <<>>
  /\ nm' = NoMap /\ mapper' = FALSE /\ fileCount' = 0 /\ delCount' = 0
  /\ noWrite' = FALSE /\ isCompacting' = FALSE /\ lastIdxOff' = 0 /\ lastRev' = 0
  /\ copyOk' = FALSE
  /\ UNCHANGED <<cpd, cpx, vac, pos, todo, reqs, content>>

\* The process stops at any point: files stay, everything else is lost.
Crash ==
  /\ status \in {"up", "orphan"}
  /\ status' = "down"
  /\ nm' = NoMap /\ mapper' = FALSE /\ fileCount' = 0 /\ delCount' = 0
  /\ noWrite' = FALSE /\ isCompacting' = FALSE /\ lastIdxOff' = 0 /\ lastRev' = 0
  /\ vac' = "idle" /\ pos' = 1 /\ todo' = {} /\ reqs' = {}
  /\ copyOk' = FALSE
  /\ UNCHANGED <<fileVars, content>>

\* DiskLocation::load_existing_volumes: Volume::new, load(true, true), which
\* truncates the index of every volume found.
Restart ==
  /\ status = "down"
  /\ status' = "up"
  /\ files' = files \cup {"idx"}
  /\ idx' = <<>> /\ mapper' = TRUE
  /\ UNCHANGED <<dat, cpd, cpx, nm, fileCount, delCount, noWrite, isCompacting,
                 lastIdxOff, lastRev, vac, pos, todo, reqs, content, copyOk>>

-----------------------------------------------------------------------------
Serve ==
  \/ \E c \in Clients, k \in Keys, v \in Values : PostNeedle(c, k, v)
  \/ \E c \in Clients, k \in Keys : DeleteRequest(c, k)
  \/ \E r \in reqs, logged \in BOOLEAN : WriteNeedle(r, logged)
  \/ \E r \in reqs, logged \in BOOLEAN : DeleteNeedle(r, logged)
  \/ \E r \in reqs : RequestFails(r)
  \/ \E r \in reqs : DeleteMissing(r)
  \/ MarkReadonly

\* The steps of a compact() or commit_compact() that has begun.
VacuumStep ==
  \/ \E written \in BOOLEAN : ScanCopy(written)
  \/ ScanSkip \/ ScanEnd \/ ScanError
  \/ \E k \in Keys : MakeupDiff(k)
  \/ MakeupFails \/ MakeupDone \/ DiscardCompact \/ RenameDat \/ RenameIdx \/ ReloadVolume

Next ==
  \/ Serve \/ VacuumStep
  \/ Compact \/ CleanupCompact \/ CommitCompact
  \/ DestroyVolume \/ Crash \/ Restart

Spec == Init /\ [][Next]_vars

\* A handler that has begun runs to its end on its own thread.
FairSpec == Spec /\ WF_vars(VacuumStep)

-----------------------------------------------------------------------------
(* Properties *)

\* Every variable has the shape of the data it stands for; the scan never stands at
\* the super block.
TypeOK ==
  /\ files \subseteq Suffixes
  /\ dat \in DataFile /\ cpd \in DataFile
  /\ idx \in Seq(IndexEntry) /\ cpx \in Seq(IndexEntry)
  /\ DOMAIN nm \subseteq Keys /\ nm \in [DOMAIN nm -> NeedleValue]
  /\ mapper \in BOOLEAN /\ fileCount \in Nat /\ delCount \in Nat
  /\ noWrite \in BOOLEAN /\ isCompacting \in BOOLEAN
  /\ lastIdxOff \in Nat /\ lastRev \in Nat
  /\ status \in {"up", "down", "orphan", "gone"}
  /\ vac \in {"idle", "scan", "diff", "discard", "renameDat", "renameIdx", "load"}
  /\ pos \in Nat \ {0} /\ todo \subseteq Keys /\ reqs \subseteq Request
  /\ DOMAIN content \subseteq Keys /\ content \in [DOMAIN content -> Values]
  /\ copyOk \in BOOLEAN

\* A read of a needle the map knows returns that needle as the latest write left
\* it: never another needle's record, never an older version, whatever
\* compaction, failed request, crash or reload happened (Volume::read_needle
\* follows the map into the data file; commit_compact swaps that file under it).
ReadsAreCurrent ==
  Shared => \A k \in DOMAIN nm :
              /\ nm[k].off \in DOMAIN dat.recs /\ k \in DOMAIN content
              /\ ReadNeedle(k) = [found |-> TRUE, rec |-> [key |-> k, val |-> content[k]]]

\* Entry i of the log is the last one of its key.
LastOf(log, i) == \A j \in DOMAIN log : j > i => log[j].key # log[i].key

\* An index log and a data file hold needle k: the last entry of k points at a
\* record that equals rec.
HoldsIn(log, file, k, rec) ==
  \E i \in DOMAIN log :
    /\ log[i].key = k /\ LastOf(log, i)
    /\ log[i].size = 1 /\ log[i].off \in DOMAIN file.recs
    /\ file.recs[log[i].off] = rec

\* The compacted pair does.
Holds(k, rec) == HoldsIn(cpx, cpd, k, rec)

\* A needle compaction has to keep: in the map, not empty, without a ttl.
MustKeep(k) ==
  /\ k \in DOMAIN nm /\ nm[k].size > 0
  /\ nm[k].off \in DOMAIN dat.recs /\ dat.recs[nm[k].off].val \notin TtlValues

\* When commit_compact is about to rename the files of a compaction that met no
\* I/O error, they hold every needle that must be kept, at its latest version:
\* also the needles written, rewritten or deleted while compact() scanned and
\* between compact() and commit_compact() (copy_data_and_generate_index_file
\* and makeup_diff together miss nothing).
CompactionKeepsLive ==
  vac = "renameDat" /\ copyOk /\ "cpd" \in files =>
    \A k \in Keys : MustKeep(k) => Holds(k, [key |-> k, val |-> content[k]])

\* The metrics behind garbage_level count every record that left the map exactly
\* once: files set minus files deleted is the number of needles in the map, across
\* overwrites, repeated deletes and failed index writes.
GarbageAccounting == mapper => fileCount = delCount + Cardinality(DOMAIN nm)

\* A compact data file is always one revision ahead of the data file and comes with
\* its index, also after crashes and stale commits: commit_compact cannot stop
\* between its two renames for want of a .cpx, and the second revision test of
\* makeup_diff never fails.
CompactFilesMatch ==
  /\ "cpd" \in files => "cpx" \in files
  /\ {"cpd", "dat"} \subseteq files => cpd.rev = dat.rev + 1
  /\ vac = "renameIdx" => "cpx" \in files

\* Once a volume is read-only and the requests that passed their readonly test
\* earlier are through, nothing a client does changes it (mark_volume_readonly
\* takes no lock, so the earlier requests do come through).
ReadonlyFreezes ==
  [][noWrite /\ reqs = {} => reqs' = {} /\ content' = content]_vars

\* A compaction or commit that has begun ends, even though the scan follows a file
\* that grows while it is read.
VacuumTerminates == (vac # "idle") ~> (vac = "idle")

\* README: "Automatic compaction to reclaim disk space after deletion or update".
\* Committing an error-free compaction takes no needle away from readers.
CommitKeepsReadable ==
  [][vac = "load" /\ copyOk /\ status' = "up" => DOMAIN nm \subseteq DOMAIN nm']_vars

=============================================================================
