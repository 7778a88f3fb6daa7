--------------------------- MODULE VolumeMapProofs ---------------------------
(***************************************************************************)
(* Proofs about Volume, for any keys, values, clients and bounds: the      *)
(* inductive invariant, type correctness, the map and the files.           *)
(***************************************************************************)
EXTENDS Volume, TLAPS, WellFoundedInduction

USE DEF ScanStart, CompactRevision, Readonly, ReplayedMap

-----------------------------------------------------------------------------
(* The operators the model is built from *)

\* Removing key k from a map leaves the other entries as they are.
LEMMA RemoveFacts ==
  ASSUME NEW f, NEW k
  PROVE  /\ DOMAIN Remove(f, k) = DOMAIN f \ {k}
         /\ \A j \in DOMAIN f \ {k} : Remove(f, k)[j] = f[j]
BY DEF Remove

\* Appending a needle keeps the revision and every record, and adds one at EndOf.
LEMMA AppendRecFacts ==
  ASSUME NEW file \in DataFile, NEW k \in Keys, NEW v \in Values
  PROVE  /\ AppendRec(file, k, v) \in DataFile
         /\ AppendRec(file, k, v).rev = file.rev
         /\ DOMAIN AppendRec(file, k, v).recs = DOMAIN file.recs \cup {EndOf(file)}
         /\ EndOf(file) \in Nat \ {0} /\ EndOf(file) \notin DOMAIN file.recs
         /\ AppendRec(file, k, v).recs[EndOf(file)] = [key |-> k, val |-> v]
         /\ \A o \in DOMAIN file.recs : AppendRec(file, k, v).recs[o] = file.recs[o]
<1> DEFINE rec == [key |-> k, val |-> v]
<1>1. rec \in Record
  BY DEF Record
<1>2. file.recs \in Seq(Record) /\ file.rev \in Nat
  BY DEF DataFile
<1>3. /\ AppendRec(file, k, v).rev = file.rev
      /\ AppendRec(file, k, v).recs = Append(file.recs, rec)
  BY DEF AppendRec, DataFile
<1>4. AppendRec(file, k, v) \in DataFile
  BY <1>1, <1>2 DEF AppendRec, DataFile
<1> HIDE DEF rec
<1>5. /\ DOMAIN Append(file.recs, rec) = 1..(Len(file.recs) + 1)
      /\ DOMAIN file.recs = 1..Len(file.recs) /\ Len(file.recs) \in Nat
      /\ Append(file.recs, rec)[Len(file.recs) + 1] = rec
      /\ \A o \in 1..Len(file.recs) : Append(file.recs, rec)[o] = file.recs[o]
  BY <1>1, <1>2
<1>6. 1..(Len(file.recs) + 1) = 1..Len(file.recs) \cup {Len(file.recs) + 1}
  BY <1>5
<1> QED
  BY <1>3, <1>4, <1>5, <1>6 DEF EndOf, rec

-----------------------------------------------------------------------------
(* The inductive invariant *)

\* Outside the window in which commit_compact has renamed .dat and not yet dropped
\* the map, every map entry points at the latest record of its needle.
MapInv ==
  vac \notin {"renameIdx", "load"} =>
    \A k \in DOMAIN nm :
      /\ nm[k].off \in DOMAIN dat.recs /\ k \in DOMAIN content
      /\ dat.recs[nm[k].off] = [key |-> k, val |-> content[k]]
      /\ nm[k].size = SizeOf(content[k])

\* Key k was logged after the first n entries; its last such entry is nv.
Since(log, n, k) == \E i \in DOMAIN log : i > n /\ log[i].key = k
SinceAs(log, n, k, nv) ==
  \E i \in DOMAIN log :
    /\ i > n /\ log[i].key = k /\ LastOf(log, i)
    /\ log[i].off = nv.off /\ log[i].size = nv.size

\* Key k was logged since compact() began.
InDiff(k) == Since(idx, lastIdxOff, k)

\* The files in the directory, and the keys makeup_diff works through.
FilesInv ==
  /\ CompactFilesMatch
  /\ vac = "renameIdx" => "cpd" \notin files
  /\ vac # "idle" => status = "up"
  /\ vac = "diff" => \A k \in todo : InDiff(k)

\* The latest log entry of k since compact() began is its map entry.
Logged(k) == SinceAs(idx, lastIdxOff, k, nm[k])

Kept(k) == Holds(k, [key |-> k, val |-> content[k]])

\* The compacted files are those of an error-free compaction not yet installed.
Copying == copyOk /\ "cpd" \in files /\ vac \in {"idle", "scan", "diff", "renameDat"}

\* What is known of a needle that must be kept: if it was logged since compact()
\* began, the log tells where it is; if not, the scan has copied it or has yet to
\* reach it.  makeup_diff then discharges the logged ones one by one.
KeyInv(k) ==
  MustKeep(k) =>
    /\ InDiff(k) => Logged(k)
    /\ vac \in {"idle", "scan"} /\ ~InDiff(k) =>
         Kept(k) \/ (vac = "scan" /\ nm[k].off >= pos)
    /\ vac = "diff" => k \in todo \/ Kept(k)
    /\ vac = "renameDat" => Kept(k)

CopyInv ==
  /\ copyOk => status = "up"
  /\ Copying => /\ lastIdxOff <= Len(idx)
                /\ \A k \in Keys : KeyInv(k)

IInv == TypeOK /\ MapInv /\ FilesInv /\ CopyInv

-----------------------------------------------------------------------------
(* Type correctness *)

\* The next-state relation as the list of its actions.
LEMMA NextCases ==
  ASSUME Next
  PROVE  \/ \E c \in Clients, k \in Keys, v \in Values : PostNeedle(c, k, v)
         \/ \E c \in Clients, k \in Keys : DeleteRequest(c, k)
         \/ \E r \in reqs, logged \in BOOLEAN : WriteNeedle(r, logged)
         \/ \E r \in reqs, logged \in BOOLEAN : DeleteNeedle(r, logged)
         \/ \E r \in reqs : RequestFails(r)
         \/ \E r \in reqs : DeleteMissing(r)
         \/ MarkReadonly \/ Compact
         \/ \E written \in BOOLEAN : ScanCopy(written)
         \/ ScanSkip \/ ScanEnd \/ ScanError \/ CleanupCompact \/ CommitCompact
         \/ \E k \in Keys : MakeupDiff(k)
         \/ MakeupFails \/ MakeupDone \/ DiscardCompact \/ RenameDat \/ RenameIdx
         \/ ReloadVolume \/ DestroyVolume \/ Crash \/ Restart
BY DEF Next, Serve, VacuumStep

\* The records and entries the actions build have their types.
LEMMA EmptyFacts ==
  /\ NoData \in DataFile /\ DOMAIN NoData.recs = {}
  /\ DOMAIN NoMap = {} /\ NoMap \in [DOMAIN NoMap -> NeedleValue]
  /\ NoMap \in [DOMAIN NoMap -> Values]
  /\ <<>> \in Seq(IndexEntry)
  /\ EmptyValue \in Values
BY ValuesAssumption DEF NoData, DataFile, NoMap

\* An entry of the index log has its type.
LEMMA EntryType ==
  ASSUME NEW k \in Keys, NEW o \in Nat, NEW s \in {0, 1}
  PROVE  Entry(k, o, s) \in IndexEntry
BY DEF Entry, IndexEntry

\* The fields of a request have their types.
LEMMA RequestFields ==
  ASSUME NEW r \in Request
  PROVE  r.key \in Keys /\ r.val \in Values
BY DEF Request

\* The size of a value is zero or not.
LEMMA SizeOfType == \A v : SizeOf(v) \in {0, 1}
BY DEF SizeOf

\* A record read from a data file.
LEMMA RecordAt ==
  ASSUME NEW file \in DataFile, NEW o \in DOMAIN file.recs
  PROVE  /\ file.recs[o] \in Record /\ file.recs[o].key \in Keys
         /\ file.recs[o].val \in Values
         /\ o \in Nat \ {0} /\ DOMAIN file.recs = 1..Len(file.recs) /\ Len(file.recs) \in Nat
<1>1. file.recs \in Seq(Record)
  BY DEF DataFile
<1>2. file.recs[o] \in Record
  BY <1>1
<1> QED
  BY <1>1, <1>2 DEF Record

\* An entry read from a log, and an entry appended to it.
LEMMA LogFacts ==
  ASSUME NEW log \in Seq(IndexEntry)
  PROVE  /\ DOMAIN log = 1..Len(log) /\ Len(log) \in Nat
         /\ \A i \in DOMAIN log : log[i] \in IndexEntry
         /\ \A e \in IndexEntry :
              /\ Append(log, e) \in Seq(IndexEntry)
              /\ DOMAIN Append(log, e) = 1..(Len(log) + 1)
              /\ Append(log, e)[Len(log) + 1] = e
              /\ \A i \in DOMAIN log : Append(log, e)[i] = log[i]
OBVIOUS

\* A nonempty set of naturals with a bound has a largest element.
LEMMA LargestNatural ==
  ASSUME NEW n \in Nat, NEW T, T \subseteq 0..n, T # {}
  PROVE  \E m \in T : \A j \in T : j <= m
<1> DEFINE U == {u \in Nat : n - u \in T}
<1>1. U \subseteq Nat
  OBVIOUS
<1>2. U # {}
  <2>1. PICK t \in T : TRUE
    OBVIOUS
  <2>2. t \in 0..n
    BY <2>1
  <2>3. n - t \in Nat /\ n - (n - t) = t
    BY <2>2
  <2>4. n - t \in U
    BY <2>1, <2>3
  <2> QED BY <2>4
<1>3. \E x \in U : \A y \in U : ~(<<y, x>> \in OpToRel(<, Nat))
  <2> HIDE DEF U
  <2> QED BY <1>1, <1>2, NatLessThanWellFounded, WFMin
<1>4. PICK x \in U : \A y \in U : ~(<<y, x>> \in OpToRel(<, Nat))
  BY <1>3
<1>5. \A y \in U : ~(y < x)
  <2> SUFFICES ASSUME NEW y \in U, y < x PROVE FALSE
    OBVIOUS
  <2>1. <<y, x>> \in OpToRel(<, Nat)
    BY <1>1 DEF OpToRel
  <2> QED BY <1>4, <2>1
<1>6. ASSUME NEW j \in T PROVE j <= n - x
  <2>1. j \in 0..n
    BY <1>6
  <2>2. n - j \in Nat /\ n - (n - j) = j
    BY <2>1
  <2>3. n - j \in U
    BY <2>2
  <2>4. x \in Nat /\ ~(n - j < x)
    BY <1>4, <1>5, <2>3
  <2> HIDE DEF U
  <2> QED BY <2>1, <2>4
<1>7. n - x \in T
  BY <1>4
<1> QED BY <1>6, <1>7

\* The entry makeup_diff copies for a key with an entry after lastIdxOff.
LEMMA LastEntryFacts ==
  ASSUME TypeOK, NEW k \in Keys, InDiff(k)
  PROVE  \E i \in DOMAIN idx :
           /\ LastEntry(k) = idx[i] /\ i > lastIdxOff
           /\ idx[i].key = k /\ LastOf(idx, i)
<1> DEFINE T == {i \in 0..Len(idx) : i \in DOMAIN idx /\ i > lastIdxOff /\ idx[i].key = k}
<1>1. DOMAIN idx = 1..Len(idx) /\ Len(idx) \in Nat /\ lastIdxOff \in Nat
  BY DEF TypeOK
<1>2. T \subseteq 0..Len(idx) /\ T # {}
  BY <1>1 DEF InDiff, Since
<1>3. PICK m \in T : \A j \in T : j <= m
  <2> HIDE DEF T
  <2> QED BY <1>1, <1>2, LargestNatural
<1> DEFINE Range2 == (lastIdxOff + 1)..Len(idx)
           Good(i) == idx[i].key = k /\ \A j \in (i + 1)..Len(idx) : idx[j].key # k
<1>4. m \in Range2 /\ Good(m)
  <2>1. m \in 1..Len(idx) /\ m > lastIdxOff /\ idx[m].key = k
    BY <1>1, <1>3
  <2>2. ASSUME NEW j \in (m + 1)..Len(idx), idx[j].key = k PROVE FALSE
    <3>1. j \in T
      BY <1>1, <2>1, <2>2
    <3>2. j <= m
      BY <1>3, <3>1
    <3> QED BY <1>1, <2>1, <3>2
  <2> QED BY <1>1, <2>1, <2>2
<1>5. PICK i \in Range2 : Good(i) /\ LastEntry(k) = idx[i]
  <2>1. LastEntry(k) = idx[CHOOSE i \in Range2 : Good(i)]
    BY DEF LastEntry
  <2> HIDE DEF Range2, Good
  <2> QED BY <1>4, <2>1
<1>6. i \in DOMAIN idx /\ i > lastIdxOff
  BY <1>1, <1>5
<1>7. LastOf(idx, i)
  BY <1>1, <1>5, <1>6 DEF LastOf
<1> QED BY <1>5, <1>6, <1>7

\* Every action preserves the types.
LEMMA TypeStep == TypeOK /\ FilesInv /\ MapInv /\ [Next]_vars => TypeOK'
<1> SUFFICES ASSUME TypeOK, FilesInv, MapInv, [Next]_vars PROVE TypeOK'
  OBVIOUS
<1> USE EmptyFacts
<1>a. \A r \in reqs : r \in Request /\ r.key \in Keys /\ r.val \in Values
  BY RequestFields DEF TypeOK
<1>1. ASSUME NEW c \in Clients, NEW k \in Keys, NEW v \in Values,
             NEW op \in {"write", "delete"}, Admit(c, op, k, v)
      PROVE  TypeOK'
  <2>1. [client |-> c, op |-> op, key |-> k, val |-> v] \in Request
    BY DEF Request
  <2> QED
    BY <1>1, <2>1 DEF TypeOK, Admit, fileVars, memVars
<1>2. ASSUME NEW c \in Clients, NEW k \in Keys, NEW v \in Values, PostNeedle(c, k, v)
      PROVE  TypeOK'
  BY <1>1, <1>2 DEF PostNeedle
<1>3. ASSUME NEW c \in Clients, NEW k \in Keys, DeleteRequest(c, k)
      PROVE  TypeOK'
  <2>1. k \in DOMAIN nm /\ nm[k].off \in DOMAIN dat.recs
    BY <1>3 DEF DeleteRequest, ReadNeedle, MapInv, Shared
  <2>2. dat.recs[nm[k].off].val \in Values /\ nm[k].off # 0
    BY <2>1, RecordAt DEF TypeOK
  <2>3. ReadNeedle(k).rec.val \in Values
    BY <2>1, <2>2 DEF ReadNeedle
  <2> QED
    BY <1>1, <1>3, <2>3 DEF DeleteRequest
<1>4. ASSUME NEW r \in reqs, NEW logged \in BOOLEAN, WriteNeedle(r, logged)
      PROVE  TypeOK'
  <2>1. r.key \in Keys /\ r.val \in Values
    BY <1>a
  <2> DEFINE nv == [off |-> EndOf(dat), size |-> SizeOf(r.val)]
  <2>2. EndOf(dat) \in Nat /\ AppendRec(dat, r.key, r.val) \in DataFile
    BY <2>1, AppendRecFacts DEF TypeOK
  <2>3. nv \in NeedleValue /\ Entry(r.key, nv.off, nv.size) \in IndexEntry
    BY <2>1, <2>2, EntryType, SizeOfType DEF NeedleValue
  <2>4. dat' \in DataFile
    BY <1>4, <2>2 DEF WriteNeedle
  <2>5. idx' \in Seq(IndexEntry)
    <3> HIDE DEF nv
    <3>1. idx' = idx \/ idx' = Append(idx, Entry(r.key, nv.off, nv.size))
      BY <1>4 DEF WriteNeedle, nv
    <3>2. idx \in Seq(IndexEntry)
      BY DEF TypeOK
    <3> QED BY <2>3, <3>1, <3>2, LogFacts
  <2>6. DOMAIN nm' \subseteq Keys /\ nm' \in [DOMAIN nm' -> NeedleValue]
    <3> HIDE DEF nv
    <3>1. nm' = Put(nm, r.key, nv)
      BY <1>4 DEF WriteNeedle, nv
    <3> QED BY <2>1, <2>3, <3>1 DEF Put, TypeOK
  <2>7. DOMAIN content' \subseteq Keys /\ content' \in [DOMAIN content' -> Values]
    <3>1. content' = Put(content, r.key, r.val)
      BY <1>4 DEF WriteNeedle
    <3> QED BY <2>1, <3>1 DEF Put, TypeOK
  <2>8. fileCount' \in Nat /\ delCount' \in Nat /\ copyOk' \in BOOLEAN
    BY SMTT(30), <1>4 DEF WriteNeedle, TypeOK, Bump
  <2> QED
    BY <1>4, <2>4, <2>5, <2>6, <2>7, <2>8 DEF WriteNeedle, TypeOK
<1>5. ASSUME NEW r \in reqs, NEW logged \in BOOLEAN, DeleteNeedle(r, logged)
      PROVE  TypeOK'
  <2>1. r.key \in Keys /\ r.val \in Values /\ r.key \in DOMAIN nm
    BY <1>a, <1>5 DEF DeleteNeedle
  <2>2. Entry(r.key, nm[r.key].off, nm[r.key].size) \in IndexEntry
    BY <2>1, EntryType DEF TypeOK, NeedleValue
  <2>3. dat' \in DataFile
    BY <1>5, <2>1, AppendRecFacts DEF DeleteNeedle, TypeOK
  <2>4. idx' \in Seq(IndexEntry)
    BY <1>5, <2>2 DEF DeleteNeedle, TypeOK
  <2>5. DOMAIN nm' \subseteq Keys /\ nm' \in [DOMAIN nm' -> NeedleValue]
    BY <1>5 DEF DeleteNeedle, TypeOK, Remove
  <2>6. DOMAIN content' \subseteq Keys /\ content' \in [DOMAIN content' -> Values]
    BY <1>5 DEF DeleteNeedle, TypeOK, Remove
  <2>7. delCount' \in Nat /\ copyOk' \in BOOLEAN
    BY <1>5 DEF DeleteNeedle, TypeOK
  <2> QED
    BY <1>5, <2>3, <2>4, <2>5, <2>6, <2>7 DEF DeleteNeedle, TypeOK
<1>6. ASSUME NEW r \in reqs, RequestFails(r) \/ DeleteMissing(r) PROVE TypeOK'
  BY <1>6 DEF RequestFails, DeleteMissing, TypeOK, fileVars, memVars
<1>7. CASE MarkReadonly
  BY <1>7 DEF MarkReadonly, TypeOK, fileVars
<1>8. CASE Compact
  <2>1. cpd' \in DataFile
    BY SMTT(30), <1>8 DEF Compact, TypeOK, DataFile
  <2>2. lastIdxOff' \in Nat /\ lastRev' \in Nat
    BY <1>8 DEF Compact, TypeOK, DataFile
  <2> QED
    BY <1>8, <2>1, <2>2 DEF Compact, TypeOK, Suffixes
<1>9. ASSUME NEW written \in BOOLEAN, ScanCopy(written) PROVE TypeOK'
  <2>1. pos \in DOMAIN dat.recs
    BY <1>9 DEF ScanCopy
  <2>2. dat.recs[pos].key \in Keys /\ dat.recs[pos].val \in Values
    BY <2>1, RecordAt DEF TypeOK
  <2>3. /\ AppendRec(cpd, dat.recs[pos].key, dat.recs[pos].val) \in DataFile
        /\ EndOf(cpd) \in Nat
    BY <2>2, AppendRecFacts DEF TypeOK
  <2>4. Entry(dat.recs[pos].key, EndOf(cpd), SizeOf(dat.recs[pos].val)) \in IndexEntry
    BY <2>2, <2>3, EntryType, SizeOfType
  <2>5. cpd' \in DataFile
    BY <1>9, <2>3 DEF ScanCopy, TypeOK
  <2>6. cpx' \in Seq(IndexEntry)
    BY <1>9, <2>4 DEF ScanCopy, TypeOK
  <2> QED
    BY <1>9, <2>5, <2>6 DEF ScanCopy, TypeOK, memVars
<1>10. CASE ScanSkip \/ ScanEnd \/ ScanError
  <2>1. pos' \in Nat \ {0}
    BY <1>10 DEF ScanSkip, ScanEnd, ScanError, TypeOK
  <2> QED
    BY ZenonT(30), <1>10, <2>1 DEF ScanSkip, ScanEnd, ScanError, TypeOK, fileVars, memVars
<1>11. CASE CleanupCompact
  BY <1>11 DEF CleanupCompact, TypeOK, memVars
<1>12. CASE CommitCompact
  <2>1. DiffKeys \subseteq Keys
    <3> SUFFICES ASSUME NEW i \in (lastIdxOff + 1)..Len(idx) PROVE idx[i].key \in Keys
      BY DEF DiffKeys
    <3>1. i \in DOMAIN idx
      BY DEF TypeOK
    <3>2. idx[i] \in IndexEntry
      BY <3>1 DEF TypeOK
    <3> QED BY <3>2 DEF IndexEntry
  <2> QED
    BY <1>12, <2>1 DEF CommitCompact, TypeOK, fileVars
<1>13. ASSUME NEW k \in Keys, MakeupDiff(k) PROVE TypeOK'
  <2> DEFINE e == LastEntry(k)
  <2>1. e \in IndexEntry
    <3>1. InDiff(k)
      BY <1>13 DEF MakeupDiff, FilesInv
    <3>2. PICK i \in DOMAIN idx : LastEntry(k) = idx[i]
      BY <3>1, LastEntryFacts
    <3>3. idx \in Seq(IndexEntry)
      BY DEF TypeOK
    <3> QED BY <3>2, <3>3, LogFacts
  <2> HIDE DEF e
  <2>2. CASE e.off # 0 /\ e.size # 0
    <3>1. e.off \in DOMAIN dat.recs
      BY <1>13, <2>2 DEF MakeupDiff, e
    <3>2. dat.recs[e.off].key \in Keys /\ dat.recs[e.off].val \in Values
      BY <3>1, RecordAt DEF TypeOK
    <3>3. /\ AppendRec(cpd, dat.recs[e.off].key, dat.recs[e.off].val) \in DataFile
          /\ EndOf(cpd) \in Nat
      BY <3>2, AppendRecFacts DEF TypeOK
    <3>4. Entry(k, EndOf(cpd), e.size) \in IndexEntry
      BY <2>1, <3>3, EntryType DEF IndexEntry
    <3>5. /\ cpd' = AppendRec(cpd, dat.recs[e.off].key, dat.recs[e.off].val)
          /\ cpx' = Append(cpx, Entry(k, EndOf(cpd), e.size))
      BY <1>13, <2>2 DEF MakeupDiff, e
    <3>6. cpd' \in DataFile /\ cpx' \in Seq(IndexEntry)
      BY <3>3, <3>4, <3>5 DEF TypeOK
    <3> QED
      BY <1>13, <3>6 DEF MakeupDiff, TypeOK, memVars
  <2>3. CASE ~(e.off # 0 /\ e.size # 0)
    <3>1. AppendRec(cpd, k, EmptyValue) \in DataFile
      BY AppendRecFacts DEF TypeOK
    <3>2. Entry(k, 0, e.size) \in IndexEntry
      BY <2>1, EntryType DEF IndexEntry
    <3>3. cpd' \in DataFile /\ cpx' \in Seq(IndexEntry)
      BY <1>13, <2>3, <3>1, <3>2, SMTT(30) DEF MakeupDiff, TypeOK, e
    <3> QED
      BY <1>13, <3>3 DEF MakeupDiff, TypeOK, memVars
  <2> QED BY <2>2, <2>3
<1>14. CASE MakeupFails \/ MakeupDone
  BY <1>14 DEF MakeupFails, MakeupDone, TypeOK, fileVars, memVars
<1>15. CASE DiscardCompact
  BY <1>15 DEF DiscardCompact, TypeOK, memVars
<1>16. CASE RenameDat \/ RenameIdx
  BY ZenonT(30), <1>16 DEF RenameDat, RenameIdx, TypeOK, memVars
<1>17. CASE ReloadVolume
  BY <1>17 DEF ReloadVolume, TypeOK
<1>18. CASE DestroyVolume \/ Crash
  <2>1. CASE DestroyVolume
    <3>1. files' \subseteq Suffixes /\ dat' \in DataFile /\ idx' \in Seq(IndexEntry)
      BY <2>1 DEF DestroyVolume, TypeOK
    <3> QED
      BY <2>1, <3>1 DEF DestroyVolume, TypeOK
  <2>2. CASE Crash
    <3>1. DOMAIN nm' \subseteq Keys /\ nm' \in [DOMAIN nm' -> NeedleValue]
      BY <2>2 DEF Crash
    <3>2. pos' \in Nat \ {0} /\ todo' \subseteq Keys /\ reqs' \subseteq Request
      BY <2>2 DEF Crash
    <3> QED
      BY <2>2, <3>1, <3>2 DEF Crash, TypeOK, fileVars
  <2> QED BY <1>18, <2>1, <2>2
<1>19. CASE Restart
  BY <1>19 DEF Restart, TypeOK, Suffixes
<1>20. CASE UNCHANGED vars
  BY <1>20 DEF vars, fileVars, memVars, TypeOK
<1> QED
  BY NextCases, <1>2, <1>3, <1>4, <1>5, <1>6, <1>7, <1>8, <1>9, <1>10, <1>11, <1>12,
     <1>13, <1>14, <1>15, <1>16, <1>17, <1>18, <1>19, <1>20

-----------------------------------------------------------------------------
(* The map and the files *)

\* Every map entry points at the latest record of its needle.
LEMMA MapStep == TypeOK /\ FilesInv /\ MapInv /\ [Next]_vars => MapInv'
<1> SUFFICES ASSUME TypeOK, FilesInv, MapInv, [Next]_vars PROVE MapInv'
  OBVIOUS
<1> USE EmptyFacts
<1>a. \A r \in reqs : r \in Request /\ r.key \in Keys /\ r.val \in Values
  BY RequestFields DEF TypeOK
<1>1. ASSUME UNCHANGED <<nm, dat, content>>,
             vac \in {"renameIdx", "load"} => vac' \in {"renameIdx", "load"}
      PROVE  MapInv'
  BY <1>1 DEF MapInv
<1>2. ASSUME nm' = NoMap PROVE MapInv'
  BY <1>2 DEF MapInv
<1>3. ASSUME NEW r \in reqs, NEW logged \in BOOLEAN, WriteNeedle(r, logged)
      PROVE  MapInv'
  <2>1. r.key \in Keys /\ r.val \in Values
    BY <1>a
  <2> DEFINE nv == [off |-> EndOf(dat), size |-> SizeOf(r.val)]
  <2>2. /\ dat' = AppendRec(dat, r.key, r.val) /\ nm' = Put(nm, r.key, nv)
        /\ content' = Put(content, r.key, r.val) /\ vac \notin {"renameIdx", "load"}
    BY <1>3 DEF WriteNeedle, Shared
  <2>3. nv.off = EndOf(dat) /\ nv.size = SizeOf(r.val)
    OBVIOUS
  <2> HIDE DEF nv
  <2>4. /\ DOMAIN dat'.recs = DOMAIN dat.recs \cup {EndOf(dat)}
        /\ dat'.recs[EndOf(dat)] = [key |-> r.key, val |-> r.val]
        /\ \A o \in DOMAIN dat.recs : dat'.recs[o] = dat.recs[o]
    BY SMTT(30), <2>1, <2>2, AppendRecFacts DEF TypeOK
  <2>5. /\ DOMAIN nm' = DOMAIN nm \cup {r.key} /\ nm'[r.key] = nv
        /\ \A j \in DOMAIN nm : j # r.key => nm'[j] = nm[j]
    BY <2>2 DEF Put
  <2>6. /\ DOMAIN content' = DOMAIN content \cup {r.key} /\ content'[r.key] = r.val
        /\ \A j \in DOMAIN content : j # r.key => content'[j] = content[j]
    BY <2>2 DEF Put
  <2> SUFFICES ASSUME NEW k \in DOMAIN nm'
               PROVE  /\ nm'[k].off \in DOMAIN dat'.recs /\ k \in DOMAIN content'
                      /\ dat'.recs[nm'[k].off] = [key |-> k, val |-> content'[k]]
                      /\ nm'[k].size = SizeOf(content'[k])
    BY DEF MapInv, SizeOf
  <2>7. CASE k = r.key
    BY <2>3, <2>4, <2>5, <2>6, <2>7
  <2>8. CASE k # r.key
    <3>1. /\ k \in DOMAIN nm /\ nm'[k] = nm[k]
          /\ nm[k].off \in DOMAIN dat.recs /\ k \in DOMAIN content
          /\ dat.recs[nm[k].off] = [key |-> k, val |-> content[k]]
          /\ nm[k].size = SizeOf(content[k])
      BY <2>2, <2>5, <2>8 DEF MapInv
    <3>2. content'[k] = content[k]
      BY <2>6, <2>8, <3>1
    <3> QED BY <2>4, <2>6, <3>1, <3>2
  <2> QED BY <2>7, <2>8
<1>4. ASSUME NEW r \in reqs, NEW logged \in BOOLEAN, DeleteNeedle(r, logged)
      PROVE  MapInv'
  <2>1. r.key \in Keys /\ r.val \in Values
    BY <1>a
  <2>2. /\ dat' = AppendRec(dat, r.key, r.val) /\ nm' = Remove(nm, r.key)
        /\ content' = Remove(content, r.key) /\ vac \notin {"renameIdx", "load"}
    BY <1>4 DEF DeleteNeedle, Shared
  <2>3. dat \in DataFile
    BY DEF TypeOK
  <2>4. /\ DOMAIN dat'.recs = DOMAIN dat.recs \cup {EndOf(dat)}
        /\ dat'.recs[EndOf(dat)] = [key |-> r.key, val |-> r.val]
        /\ \A o \in DOMAIN dat.recs : dat'.recs[o] = dat.recs[o]
    BY <2>1, <2>2, <2>3, AppendRecFacts
  <2>5. /\ DOMAIN nm' = DOMAIN nm \ {r.key}
        /\ \A j \in DOMAIN nm \ {r.key} : nm'[j] = nm[j]
    BY <2>2, RemoveFacts, ZenonT(60)
  <2>6. /\ DOMAIN content' = DOMAIN content \ {r.key}
        /\ \A j \in DOMAIN content \ {r.key} : content'[j] = content[j]
    BY <2>2, RemoveFacts, ZenonT(60)
  <2> SUFFICES ASSUME NEW k \in DOMAIN nm'
               PROVE  /\ nm'[k].off \in DOMAIN dat'.recs /\ k \in DOMAIN content'
                      /\ dat'.recs[nm'[k].off] = [key |-> k, val |-> content'[k]]
                      /\ nm'[k].size = SizeOf(content'[k])
    BY DEF MapInv, SizeOf
  <2>7. /\ k \in DOMAIN nm /\ k # r.key /\ nm'[k] = nm[k]
        /\ nm[k].off \in DOMAIN dat.recs /\ k \in DOMAIN content
        /\ dat.recs[nm[k].off] = [key |-> k, val |-> content[k]]
        /\ nm[k].size = SizeOf(content[k])
    BY <2>2, <2>5 DEF MapInv
  <2>8. content'[k] = content[k] /\ k \in DOMAIN content'
    BY <2>6, <2>7
  <2> QED BY <2>4, <2>7, <2>8
<1>5. CASE DestroyVolume \/ Crash \/ ReloadVolume
  BY <1>2, <1>5 DEF DestroyVolume, Crash, ReloadVolume
<1>6. CASE RenameDat
  BY <1>1, <1>6 DEF RenameDat, MapInv, memVars
<1>7. CASE Restart
  BY <1>1, <1>7 DEF Restart
<1>8. ASSUME NEW c \in Clients, NEW k \in Keys, NEW v \in Values,
             NEW op \in {"write", "delete"}, Admit(c, op, k, v)
      PROVE  MapInv'
  BY <1>1, <1>8 DEF Admit, fileVars, memVars
<1>9. ASSUME NEW c \in Clients, NEW k \in Keys, DeleteRequest(c, k) PROVE MapInv'
  BY <1>1, <1>9 DEF DeleteRequest, Admit, fileVars, memVars
<1>10. ASSUME NEW r \in reqs, RequestFails(r) \/ DeleteMissing(r) PROVE MapInv'
  BY <1>1, <1>10 DEF RequestFails, DeleteMissing, fileVars, memVars
<1>11. ASSUME NEW written \in BOOLEAN, ScanCopy(written) PROVE MapInv'
  BY <1>1, <1>11 DEF ScanCopy, memVars
<1>12. ASSUME NEW k \in Keys, MakeupDiff(k) PROVE MapInv'
  BY <1>1, <1>12 DEF MakeupDiff, memVars
<1>13. CASE MarkReadonly \/ Compact \/ CleanupCompact \/ CommitCompact
  BY <1>1, <1>13 DEF MarkReadonly, Compact, CleanupCompact, CommitCompact, Exclusive,
     fileVars, memVars
<1>14. CASE ScanSkip \/ ScanEnd \/ ScanError \/ MakeupFails \/ MakeupDone
  BY <1>1, <1>14 DEF ScanSkip, ScanEnd, ScanError, MakeupFails, MakeupDone,
     fileVars, memVars
<1>15. CASE DiscardCompact \/ RenameIdx
  BY <1>1, <1>15 DEF DiscardCompact, RenameIdx, memVars
<1>16. CASE UNCHANGED vars
  BY <1>1, <1>16 DEF vars, fileVars, memVars
<1> QED
  BY NextCases, <1>3, <1>4, <1>5, <1>6, <1>7, <1>8, <1>9, <1>10, <1>11, <1>12, <1>13,
     <1>14, <1>15, <1>16 DEF PostNeedle

\* The directory: a .cpd comes with its .cpx and is one revision ahead of .dat.
LEMMA FilesStep == TypeOK /\ FilesInv /\ [Next]_vars => FilesInv'
<1> SUFFICES ASSUME TypeOK, FilesInv, [Next]_vars PROVE FilesInv'
  OBVIOUS
<1>a. dat \in DataFile /\ cpd \in DataFile /\ dat.rev \in Nat
  BY DEF TypeOK, DataFile
<1>1. ASSUME files' = files, cpd'.rev = cpd.rev, dat'.rev = dat.rev, status' = status,
             \/ vac' = vac
             \/ vac' = "idle"
             \/ vac' \notin {"diff", "renameIdx"} /\ status = "up",
             vac' = "diff" => UNCHANGED <<idx, lastIdxOff>> /\ todo' \subseteq todo
      PROVE  FilesInv'
  BY <1>1 DEF FilesInv, CompactFilesMatch, InDiff
<1>2. ASSUME NEW r \in reqs, NEW logged \in BOOLEAN, WriteNeedle(r, logged)
      PROVE  FilesInv'
  <2>1. dat'.rev = dat.rev
    BY <1>2, <1>a DEF WriteNeedle, AppendRec, DataFile
  <2> QED
    BY <1>1, <1>2, <2>1 DEF WriteNeedle, Shared
<1>3. ASSUME NEW r \in reqs, NEW logged \in BOOLEAN, DeleteNeedle(r, logged)
      PROVE  FilesInv'
  <2>1. dat'.rev = dat.rev
    BY <1>3, <1>a DEF DeleteNeedle, AppendRec, DataFile
  <2> QED
    BY <1>1, <1>3, <2>1 DEF DeleteNeedle, Shared
<1>4. ASSUME NEW c \in Clients, NEW k \in Keys, NEW v \in Values, PostNeedle(c, k, v)
      PROVE  FilesInv'
  BY <1>1, <1>4 DEF PostNeedle, Admit, fileVars, memVars
<1>5. ASSUME NEW c \in Clients, NEW k \in Keys, DeleteRequest(c, k) PROVE FilesInv'
  BY <1>1, <1>5 DEF DeleteRequest, Admit, fileVars, memVars
<1>6. ASSUME NEW r \in reqs, RequestFails(r) \/ DeleteMissing(r) PROVE FilesInv'
  BY <1>1, <1>6 DEF RequestFails, DeleteMissing, fileVars, memVars
<1>7. CASE MarkReadonly \/ ScanSkip \/ ScanEnd \/ ScanError
  BY <1>1, <1>7 DEF MarkReadonly, ScanSkip, ScanEnd, ScanError, Shared, fileVars, memVars
<1>8. CASE MakeupFails \/ MakeupDone
  BY <1>1, <1>8 DEF MakeupFails, MakeupDone, FilesInv, fileVars, memVars
<1>9. CASE Compact
  BY <1>9, <1>a DEF Compact, FilesInv, CompactFilesMatch
<1>10. ASSUME NEW written \in BOOLEAN, ScanCopy(written) PROVE FilesInv'
  <2>1. vac = "scan"
    BY <1>10 DEF ScanCopy
  <2>2. cpd'.rev = cpd.rev
    BY <1>10, <1>a DEF ScanCopy, AppendRec, DataFile
  <2> QED
    BY SMTT(30), <1>1, <1>10, <2>1, <2>2 DEF ScanCopy
<1>11. CASE CleanupCompact
  BY <1>11 DEF CleanupCompact, Shared, FilesInv, CompactFilesMatch
<1>12. CASE CommitCompact
  <2>1. ASSUME NEW k \in DiffKeys PROVE InDiff(k)
    <3>1. PICK i \in (lastIdxOff + 1)..Len(idx) : idx[i].key = k
      BY DEF DiffKeys
    <3>2. i \in DOMAIN idx /\ i > lastIdxOff
      BY <3>1 DEF TypeOK
    <3> QED BY <3>1, <3>2 DEF InDiff, Since
  <2>2. ASSUME NEW k \in todo', vac' = "diff" PROVE InDiff(k)'
    <3>1. k \in DiffKeys /\ UNCHANGED <<idx, lastIdxOff>>
      BY <1>12, <2>2 DEF CommitCompact, fileVars
    <3> QED BY <2>1, <3>1 DEF InDiff
  <2>3. UNCHANGED <<files, cpd, dat, status>> /\ status = "up" /\ vac' # "renameIdx"
    BY <1>12 DEF CommitCompact, fileVars, Exclusive
  <2> QED
    BY <2>2, <2>3 DEF FilesInv, CompactFilesMatch
<1>13. ASSUME NEW k \in Keys, MakeupDiff(k) PROVE FilesInv'
  <2>1. cpd'.rev = cpd.rev
    BY <1>13, <1>a DEF MakeupDiff, AppendRec, DataFile
  <2> QED
    BY <1>1, <1>13, <2>1 DEF MakeupDiff, memVars
<1>14. CASE DiscardCompact
  BY <1>14 DEF DiscardCompact, FilesInv, CompactFilesMatch
<1>15. CASE RenameDat
  BY <1>15 DEF RenameDat, FilesInv, CompactFilesMatch
<1>16. CASE RenameIdx
  BY <1>16 DEF RenameIdx, FilesInv, CompactFilesMatch
<1>17. CASE ReloadVolume
  BY <1>1, <1>17 DEF ReloadVolume
<1>18. CASE DestroyVolume
  BY <1>18 DEF DestroyVolume, Exclusive, FilesInv, CompactFilesMatch
<1>19. CASE Crash
  BY <1>19 DEF Crash, fileVars, FilesInv, CompactFilesMatch
<1>20. CASE Restart
  BY <1>20 DEF Restart, FilesInv, CompactFilesMatch
<1>21. CASE UNCHANGED vars
  BY <1>1, <1>21 DEF vars, fileVars, memVars
<1> QED
  BY SMTT(30), NextCases, <1>2, <1>3, <1>4, <1>5, <1>6, <1>7, <1>8, <1>9, <1>10, <1>11, <1>12,
     <1>13, <1>14, <1>15, <1>16, <1>17, <1>18, <1>19, <1>20, <1>21

=============================================================================
