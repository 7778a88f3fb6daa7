---------------------------- MODULE VolumeProofs ----------------------------
(***************************************************************************)
(* Proofs about Volume: the compacted files, and the theorems, which rest  *)
(* on the whole invariant.                                                 *)
(***************************************************************************)
EXTENDS VolumeMapProofs, FiniteSetTheorems

USE DEF ScanStart, CompactRevision, Readonly, ReplayedMap

-----------------------------------------------------------------------------
(* The compacted files *)

\* Copying a record and its entry makes the pair hold that needle.
LEMMA HoldsNew ==
  ASSUME NEW log \in Seq(IndexEntry), NEW file \in DataFile,
         NEW k \in Keys, NEW v \in Values
  PROVE  HoldsIn(Append(log, Entry(k, EndOf(file), 1)), AppendRec(file, k, v), k,
                 [key |-> k, val |-> v])
<1> DEFINE e == Entry(k, EndOf(file), 1)
           log2 == Append(log, e)
           n == Len(log) + 1
<1>1. EndOf(file) \in Nat /\ e.key = k /\ e.off = EndOf(file) /\ e.size = 1
  BY AppendRecFacts DEF Entry
<1>2. e \in IndexEntry
  BY <1>1, EntryType
<1> HIDE DEF e
<1>3. DOMAIN log2 = 1..n /\ log2[n] = e /\ n \in 1..n
  BY <1>2, LogFacts
<1>4. LastOf(log2, n)
  BY <1>3, LogFacts DEF LastOf
<1>5. /\ e.off \in DOMAIN AppendRec(file, k, v).recs
      /\ AppendRec(file, k, v).recs[e.off] = [key |-> k, val |-> v]
  BY <1>1, AppendRecFacts
<1>6. HoldsIn(log2, AppendRec(file, k, v), k, [key |-> k, val |-> v])
  BY <1>1, <1>3, <1>4, <1>5 DEF HoldsIn
<1> QED BY <1>6 DEF e

\* An entry of another needle, and any further record, take nothing away.
LEMMA HoldsAppend ==
  ASSUME NEW log \in Seq(IndexEntry), NEW file \in DataFile, NEW k, NEW rec,
         HoldsIn(log, file, k, rec),
         NEW e \in IndexEntry, e.key # k, NEW j \in Keys, NEW v \in Values
  PROVE  HoldsIn(Append(log, e), AppendRec(file, j, v), k, rec)
<1>1. PICK i \in DOMAIN log :
        /\ log[i].key = k /\ LastOf(log, i)
        /\ log[i].size = 1 /\ log[i].off \in DOMAIN file.recs
        /\ file.recs[log[i].off] = rec
  BY DEF HoldsIn
<1>2. /\ DOMAIN log = 1..Len(log) /\ Len(log) \in Nat
      /\ DOMAIN Append(log, e) = 1..(Len(log) + 1) /\ Append(log, e)[Len(log) + 1] = e
      /\ \A m \in DOMAIN log : Append(log, e)[m] = log[m]
  BY LogFacts
<1>3. i \in DOMAIN Append(log, e) /\ Append(log, e)[i] = log[i]
  BY <1>1, <1>2
<1>4. LastOf(Append(log, e), i)
  BY <1>1, <1>2, <1>3 DEF LastOf
<1>5. /\ DOMAIN AppendRec(file, j, v).recs = DOMAIN file.recs \cup {EndOf(file)}
      /\ AppendRec(file, j, v).recs[EndOf(file)] = [key |-> j, val |-> v]
      /\ \A o \in DOMAIN file.recs : AppendRec(file, j, v).recs[o] = file.recs[o]
  BY AppendRecFacts, SMTT(30)
<1>6. /\ log[i].off \in DOMAIN AppendRec(file, j, v).recs
      /\ AppendRec(file, j, v).recs[log[i].off] = rec
  BY <1>1, <1>5
<1> QED
  BY <1>1, <1>3, <1>4, <1>6 DEF HoldsIn

\* An entry of needle k logged after position n is its last one, ...
LEMMA SinceNew ==
  ASSUME NEW log \in Seq(IndexEntry), NEW n \in Nat, n <= Len(log), NEW e \in IndexEntry
  PROVE  /\ Since(Append(log, e), n, e.key)
         /\ SinceAs(Append(log, e), n, e.key, e)
<1>1. /\ Len(log) \in Nat /\ DOMAIN Append(log, e) = 1..(Len(log) + 1)
      /\ Append(log, e)[Len(log) + 1] = e
  BY LogFacts
<1>2. Len(log) + 1 \in DOMAIN Append(log, e) /\ Len(log) + 1 > n
  BY <1>1
<1>3. LastOf(Append(log, e), Len(log) + 1)
  BY <1>1, SMTT(30) DEF LastOf
<1> QED
  BY <1>1, <1>2, <1>3 DEF Since, SinceAs

\* ... and leaves what was logged of the other needles as it was.
LEMMA SinceOther ==
  ASSUME NEW log \in Seq(IndexEntry), NEW n \in Nat, NEW e \in IndexEntry,
         NEW k, k # e.key, NEW nv
  PROVE  /\ Since(Append(log, e), n, k) => Since(log, n, k)
         /\ SinceAs(log, n, k, nv) => SinceAs(Append(log, e), n, k, nv)
<1>1. /\ Len(log) \in Nat /\ DOMAIN log = 1..Len(log)
      /\ DOMAIN Append(log, e) = 1..(Len(log) + 1)
      /\ Append(log, e)[Len(log) + 1] = e
      /\ \A i \in DOMAIN log : Append(log, e)[i] = log[i]
  BY LogFacts
<1>2. ASSUME Since(Append(log, e), n, k) PROVE Since(log, n, k)
  <2>1. PICK i \in DOMAIN Append(log, e) : i > n /\ Append(log, e)[i].key = k
    BY <1>2 DEF Since
  <2>2. i \in DOMAIN log
    BY <1>1, <2>1
  <2> QED BY <1>1, <2>1, <2>2 DEF Since
<1>3. ASSUME SinceAs(log, n, k, nv) PROVE SinceAs(Append(log, e), n, k, nv)
  <2>1. PICK i \in DOMAIN log :
          /\ i > n /\ log[i].key = k /\ LastOf(log, i)
          /\ log[i].off = nv.off /\ log[i].size = nv.size
    BY <1>3 DEF SinceAs
  <2>2. i \in DOMAIN Append(log, e) /\ Append(log, e)[i] = log[i]
    BY <1>1, <2>1
  <2>3. LastOf(Append(log, e), i)
    BY <1>1, <2>1, <2>2 DEF LastOf
  <2> QED BY <2>1, <2>2, <2>3 DEF SinceAs
<1> QED BY <1>2, <1>3

\* If the log tells where needle k is, the entry makeup_diff picks is the map entry.
LEMMA LastEntryLogged ==
  ASSUME TypeOK, NEW k \in Keys, InDiff(k), Logged(k)
  PROVE  LastEntry(k).off = nm[k].off /\ LastEntry(k).size = nm[k].size
<1>1. PICK i \in DOMAIN idx : LastEntry(k) = idx[i] /\ idx[i].key = k /\ LastOf(idx, i)
  BY LastEntryFacts
<1>2. PICK j \in DOMAIN idx : /\ idx[j].key = k /\ LastOf(idx, j)
                              /\ idx[j].off = nm[k].off /\ idx[j].size = nm[k].size
  BY DEF Logged, SinceAs
<1>3. i \in Nat /\ j \in Nat
  BY LogFacts DEF TypeOK
<1>4. ~(i < j) /\ ~(j < i)
  BY <1>1, <1>2, <1>3 DEF LastOf
<1>5. i = j
  BY <1>3, <1>4
<1> QED BY <1>1, <1>2, <1>5

\* A request that is logged keeps what is known of the other needles, and of its
\* own: the new log entry is the new map entry.
LEMMA CopyServe ==
  ASSUME IInv, NEW key \in Keys, NEW v \in Values, NEW e \in IndexEntry,
         vac \in {"idle", "scan"}, Copying,
         dat' = AppendRec(dat, key, v), idx' = Append(idx, e), e.key = key,
         DOMAIN nm' \in {DOMAIN nm \cup {key}, DOMAIN nm \ {key}},
         \A k \in DOMAIN nm : k # key => nm'[k] = nm[k] /\ content'[k] = content[k],
         key \in DOMAIN nm' => nm'[key].off = e.off /\ nm'[key].size = e.size,
         UNCHANGED <<cpd, cpx, lastIdxOff, vac, pos>>
  PROVE  lastIdxOff' <= Len(idx') /\ \A k \in Keys : KeyInv(k)'
<1>1. /\ idx \in Seq(IndexEntry) /\ lastIdxOff \in Nat /\ lastIdxOff <= Len(idx)
      /\ dat \in DataFile /\ Len(idx) \in Nat /\ Len(idx') = Len(idx) + 1
  BY LogFacts DEF IInv, TypeOK, CopyInv
<1>2. lastIdxOff' <= Len(idx')
  BY <1>1
<1>3. ASSUME NEW k \in Keys, MustKeep(k)' PROVE KeyInv(k)'
  <2>1. CASE k = key
    <3>1. Since(idx', lastIdxOff', key) /\ SinceAs(idx', lastIdxOff', key, e)
      BY <1>1, SinceNew
    <3>2. key \in DOMAIN nm'
      BY <1>3, <2>1 DEF MustKeep
    <3>3. SinceAs(idx', lastIdxOff', key, nm'[key])
      BY <3>1, <3>2 DEF SinceAs
    <3> QED
      BY <2>1, <3>1, <3>3 DEF KeyInv, InDiff, Logged
  <2>2. CASE k # key
    <3>1. k \in DOMAIN nm /\ nm'[k] = nm[k] /\ content'[k] = content[k]
      BY <1>3, <2>2 DEF MustKeep
    <3>2. nm[k].off \in DOMAIN dat.recs
      BY <3>1 DEF IInv, MapInv
    <3>3. /\ dat'.recs[EndOf(dat)] = [key |-> key, val |-> v]
          /\ \A o \in DOMAIN dat.recs : dat'.recs[o] = dat.recs[o]
      BY <1>1, AppendRecFacts, SMTT(30)
    <3>4. MustKeep(k)
      BY <1>3, <3>1, <3>2, <3>3 DEF MustKeep
    <3>5. KeyInv(k)
      BY DEF IInv, CopyInv
    <3>6. Since(idx', lastIdxOff', k) => Since(idx, lastIdxOff, k)
      BY <1>1, <2>2, SinceOther
    <3>7. SinceAs(idx, lastIdxOff, k, nm[k]) => SinceAs(idx', lastIdxOff', k, nm[k])
      BY SMTT(30), <1>1, <2>2, SinceOther
    <3>8. InDiff(k)' => InDiff(k)
      BY <3>6 DEF InDiff
    <3>9. Logged(k) => Logged(k)'
      BY <3>1, <3>7 DEF Logged
    <3>10. Kept(k) => Kept(k)'
      BY <3>1 DEF Kept, Holds
    <3>11. InDiff(k) => InDiff(k)'
      <4>1. Logged(k)' => InDiff(k)'
        BY DEF Logged, InDiff, Since, SinceAs
      <4> QED BY <3>4, <3>5, <3>9, <4>1 DEF KeyInv
    <3> QED
      BY SMTT(30), <3>1, <3>4, <3>5, <3>8, <3>9, <3>10, <3>11 DEF KeyInv
  <2> QED BY <2>1, <2>2
<1>4. \A k \in Keys : ~MustKeep(k)' => KeyInv(k)'
  BY DEF KeyInv
<1> QED BY <1>2, <1>3, <1>4

\* Actions that leave the files, the map and the phase of the vacuum alone.
LEMMA CopyFrame ==
  ASSUME CopyInv,
         UNCHANGED <<fileVars, nm, lastIdxOff, status, vac, pos, todo, content, copyOk>>
  PROVE  CopyInv'
BY DEF CopyInv, Copying, KeyInv, MustKeep, InDiff, Logged, Kept, Holds, fileVars

\* A step that turns off copyOk, or has no .cpd afterwards, or leaves the phases
\* in which the compacted files grow.
LEMMA CopyEnds ==
  ASSUME copyOk' => status' = "up",
         \/ ~copyOk'
         \/ "cpd" \notin files'
         \/ vac' \notin {"idle", "scan", "diff", "renameDat"}
  PROVE  CopyInv'
BY DEF CopyInv, Copying

\* The scan reaches or has passed the record of every needle: what it meets is
\* copied unless it is garbage, empty or has a ttl.
LEMMA CopyScan ==
  ASSUME IInv, vac = "scan", ScanSkip \/ ScanEnd
  PROVE  CopyInv'
<1>1. /\ UNCHANGED <<fileVars, nm, lastIdxOff, status, content, copyOk>>
      /\ vac' \in {"scan", "idle"}
  BY DEF ScanSkip, ScanEnd, memVars
<1>2. \A k : /\ MustKeep(k)' <=> MustKeep(k)
             /\ InDiff(k)' <=> InDiff(k)
             /\ Logged(k)' <=> Logged(k)
             /\ Kept(k)' <=> Kept(k)
  BY <1>1 DEF MustKeep, InDiff, Logged, Kept, Holds, fileVars
<1>3. (copyOk' => status' = "up") /\ (Copying' => Copying)
  BY <1>1 DEF IInv, CopyInv, Copying, fileVars
<1>4. ASSUME Copying, NEW k \in Keys, MustKeep(k), nm[k].off >= pos
      PROVE  vac' = "scan" /\ nm'[k].off >= pos'
  <2>a. /\ nm[k].off \in DOMAIN dat.recs /\ nm[k].size > 0 /\ k \in DOMAIN nm
        /\ dat.recs[nm[k].off].val \notin TtlValues
    BY <1>4 DEF MustKeep
  <2>b. dat.recs[nm[k].off] = [key |-> k, val |-> content[k]]
    BY <2>a DEF IInv, MapInv
  <2>1. /\ nm[k].off \in DOMAIN dat.recs /\ nm[k].size > 0 /\ k \in DOMAIN nm
        /\ dat.recs[nm[k].off].key = k /\ dat.recs[nm[k].off].val \notin TtlValues
    BY <2>a, <2>b
  <2>2. dat \in DataFile /\ pos \in Nat \ {0}
    BY DEF IInv, TypeOK
  <2>3. /\ nm[k].off \in Nat \ {0} /\ DOMAIN dat.recs = 1..Len(dat.recs)
        /\ Len(dat.recs) \in Nat
    BY <2>1, <2>2, RecordAt
  <2>4. pos \in DOMAIN dat.recs
    BY <1>4, <2>1, <2>2, <2>3
  <2>5. ScanSkip
    BY <2>4 DEF ScanEnd
  <2>6. nm[k].off # pos
    BY <2>1, <2>5 DEF ScanSkip, CopyVisited
  <2>7. pos' = pos + 1 /\ vac' = "scan"
    BY <2>5 DEF ScanSkip
  <2> QED BY <1>1, <1>4, <2>2, <2>3, <2>6, <2>7
<1>5. ASSUME Copying', NEW k \in Keys PROVE KeyInv(k)'
  <2>1. KeyInv(k) /\ Copying
    BY <1>3, <1>5 DEF IInv, CopyInv
  <2> QED BY <1>1, <1>2, <1>4, <2>1 DEF KeyInv
<1>6. Copying' => lastIdxOff' <= Len(idx')
  BY <1>1, <1>3 DEF IInv, CopyInv, fileVars
<1> QED BY <1>3, <1>5, <1>6 DEF CopyInv

\* Copying the visited record.
LEMMA CopyRecord ==
  ASSUME IInv, ScanCopy(TRUE)
  PROVE  CopyInv'
<1>1. /\ UNCHANGED <<files, dat, idx, nm, lastIdxOff, status, vac, content>>
      /\ vac = "scan" /\ pos \in DOMAIN dat.recs /\ pos' = pos + 1
      /\ copyOk' = copyOk
  BY DEF ScanCopy, memVars, IInv, TypeOK
<1>2. (copyOk' => status' = "up") /\ (Copying' => Copying)
  BY <1>1 DEF IInv, CopyInv, Copying
<1> SUFFICES ASSUME Copying PROVE lastIdxOff' <= Len(idx') /\ \A k \in Keys : KeyInv(k)'
  BY <1>2 DEF CopyInv
<1> DEFINE rec == dat.recs[pos]
           e == Entry(rec.key, EndOf(cpd), SizeOf(rec.val))
<1>3. /\ dat \in DataFile /\ cpd \in DataFile /\ cpx \in Seq(IndexEntry)
      /\ pos \in Nat \ {0}
  BY DEF IInv, TypeOK
<1>4. rec.key \in Keys /\ rec.val \in Values
  BY <1>1, <1>3, RecordAt
<1>5. e \in IndexEntry /\ e.key = rec.key
  <2>1. EndOf(cpd) \in Nat
    BY <1>3, <1>4, AppendRecFacts
  <2>2. e \in IndexEntry
    BY <1>4, <2>1, EntryType, SizeOfType
  <2> QED BY <2>2 DEF Entry
<1>6. cpd' = AppendRec(cpd, rec.key, rec.val) /\ cpx' = Append(cpx, e)
  BY DEF ScanCopy, Copying, IInv, FilesInv, CompactFilesMatch
<1>7. \A k : /\ MustKeep(k)' <=> MustKeep(k)
             /\ InDiff(k)' <=> InDiff(k)
             /\ Logged(k)' <=> Logged(k)
  BY <1>1 DEF MustKeep, InDiff, Logged
<1>8. ASSUME NEW k \in Keys, MustKeep(k), k = rec.key PROVE Kept(k)'
  <2>1. /\ nm[k].off = pos /\ nm[k].size > 0 /\ k \in DOMAIN nm
    BY <1>8 DEF ScanCopy, CopyVisited
  <2>2. /\ rec = [key |-> k, val |-> content[k]] /\ nm[k].size = SizeOf(content[k])
    BY <1>1, <2>1 DEF IInv, MapInv
  <2>3. rec.val = content[k] /\ SizeOf(rec.val) = 1
    BY <2>1, <2>2 DEF SizeOf
  <2>4. content[k] \in Values
    BY <1>4, <2>3
  <2>5. HoldsIn(Append(cpx, Entry(k, EndOf(cpd), 1)), AppendRec(cpd, k, content[k]), k,
                [key |-> k, val |-> content[k]])
    BY <1>3, <2>4, HoldsNew
  <2>6. cpx' = Append(cpx, Entry(k, EndOf(cpd), 1)) /\ cpd' = AppendRec(cpd, k, content[k])
    BY <1>6, <1>8, <2>3
  <2> QED BY <1>1, <2>5, <2>6 DEF Kept, Holds
<1>9. ASSUME NEW k \in Keys, k # rec.key, Kept(k) PROVE Kept(k)'
  <2>1. HoldsIn(cpx, cpd, k, [key |-> k, val |-> content[k]])
    BY <1>9 DEF Kept, Holds
  <2> HIDE DEF e, rec
  <2>2. HoldsIn(Append(cpx, e), AppendRec(cpd, rec.key, rec.val), k,
                [key |-> k, val |-> content[k]])
    BY <1>3, <1>4, <1>5, <1>9, <2>1, HoldsAppend
  <2> QED BY <1>1, <1>6, <2>2 DEF Kept, Holds
<1>10. ASSUME NEW k \in Keys, MustKeep(k), k # rec.key, nm[k].off >= pos
       PROVE  nm'[k].off >= pos'
  <2>a. nm[k].off \in DOMAIN dat.recs /\ k \in DOMAIN nm
    BY <1>10 DEF MustKeep
  <2>b. dat.recs[nm[k].off] = [key |-> k, val |-> content[k]]
    BY <1>1, <2>a DEF IInv, MapInv
  <2>1. nm[k].off \in DOMAIN dat.recs /\ dat.recs[nm[k].off].key = k
    BY <2>a, <2>b
  <2>2. nm[k].off \in Nat
    BY <1>3, <2>1, RecordAt
  <2>3. nm[k].off # pos
    BY <1>10, <2>1
  <2> QED BY <1>1, <1>3, <1>10, <2>2, <2>3
<1>11. ASSUME NEW k \in Keys PROVE KeyInv(k)'
  <2>1. KeyInv(k)
    BY DEF IInv, CopyInv
  <2> HIDE DEF rec, e
  <2> QED BY <1>1, <1>7, <1>8, <1>9, <1>10, <2>1 DEF KeyInv
<1>12. lastIdxOff' <= Len(idx')
  BY <1>1 DEF IInv, CopyInv
<1> QED BY <1>11, <1>12

\* One turn of makeup_diff brings over the needle it is about, as the map has it.
LEMMA CopyDiff ==
  ASSUME IInv, NEW key \in Keys, MakeupDiff(key)
  PROVE  CopyInv'
<1>1. /\ UNCHANGED <<files, dat, idx, nm, lastIdxOff, status, vac, content, copyOk>>
      /\ vac = "diff" /\ key \in todo /\ todo' = todo \ {key}
  BY DEF MakeupDiff, memVars
<1>2. (copyOk' => status' = "up") /\ (Copying' => Copying)
  BY <1>1 DEF IInv, CopyInv, Copying
<1> SUFFICES ASSUME Copying PROVE lastIdxOff' <= Len(idx') /\ \A k \in Keys : KeyInv(k)'
  BY <1>2 DEF CopyInv
<1> DEFINE le == LastEntry(key)
<1>3. /\ dat \in DataFile /\ cpd \in DataFile /\ cpx \in Seq(IndexEntry)
      /\ TypeOK /\ InDiff(key)
  BY <1>1 DEF IInv, TypeOK, FilesInv
<1>4. le \in IndexEntry
  <2>1. PICK i \in DOMAIN idx : LastEntry(key) = idx[i]
    BY <1>3, LastEntryFacts
  <2>2. idx \in Seq(IndexEntry)
    BY DEF IInv, TypeOK
  <2> QED BY <2>1, <2>2, LogFacts
<1> HIDE DEF le
<1>5. \E rec \in Record, o \in Nat :
        cpd' = AppendRec(cpd, rec.key, rec.val) /\ cpx' = Append(cpx, Entry(key, o, le.size))
  <2>1. CASE le.off # 0 /\ le.size # 0
    <3>1. le.off \in DOMAIN dat.recs
      BY <2>1 DEF MakeupDiff, le
    <3>2. dat.recs[le.off] \in Record
      BY <1>3, <3>1, RecordAt
    <3>3. EndOf(cpd) \in Nat
      BY <1>3, EmptyFacts, AppendRecFacts
    <3>4. /\ cpd' = AppendRec(cpd, dat.recs[le.off].key, dat.recs[le.off].val)
          /\ cpx' = Append(cpx, Entry(key, EndOf(cpd), le.size))
      BY <2>1 DEF MakeupDiff, le
    <3> QED BY SMTT(30), <3>2, <3>3, <3>4
  <2>2. CASE ~(le.off # 0 /\ le.size # 0)
    <3> DEFINE rec == [key |-> key, val |-> EmptyValue]
    <3>1. rec \in Record /\ rec.key = key /\ rec.val = EmptyValue
      BY EmptyFacts DEF Record
    <3> HIDE DEF rec
    <3>2. cpd' = AppendRec(cpd, rec.key, rec.val) /\ cpx' = Append(cpx, Entry(key, 0, le.size))
      BY <2>2, <3>1 DEF MakeupDiff, le
    <3> QED BY <3>1, <3>2
  <2> QED BY <2>1, <2>2
<1>6. ASSUME NEW k \in Keys, k # key, Kept(k) PROVE Kept(k)'
  <2>1. PICK rec \in Record, o \in Nat :
          /\ cpd' = AppendRec(cpd, rec.key, rec.val)
          /\ cpx' = Append(cpx, Entry(key, o, le.size))
    BY <1>5
  <2> DEFINE e == Entry(key, o, le.size)
  <2>2. e \in IndexEntry
    BY <1>4, EntryType DEF IndexEntry
  <2>3. e.key # k
    BY <1>6 DEF Entry
  <2>4. rec.key \in Keys /\ rec.val \in Values
    BY DEF Record
  <2>5. HoldsIn(cpx, cpd, k, [key |-> k, val |-> content[k]])
    BY <1>6 DEF Kept, Holds
  <2> HIDE DEF e
  <2>6. HoldsIn(Append(cpx, e), AppendRec(cpd, rec.key, rec.val), k,
                [key |-> k, val |-> content[k]])
    BY <1>3, <2>2, <2>3, <2>4, <2>5, HoldsAppend
  <2>7. cpx' = Append(cpx, e)
    BY <2>1 DEF e
  <2> QED BY <1>1, <2>1, <2>6, <2>7 DEF Kept, Holds
<1>7. ASSUME MustKeep(key) PROVE Kept(key)'
  <2>1. Logged(key)
    BY <1>3, <1>7 DEF IInv, CopyInv, KeyInv
  <2>2. le.off = nm[key].off /\ le.size = nm[key].size
    BY <1>3, <2>1, LastEntryLogged DEF le
  <2>3. /\ key \in DOMAIN nm /\ nm[key].size > 0 /\ nm[key].off \in DOMAIN dat.recs
    BY SMTT(30), <1>7 DEF MustKeep
  <2>4. /\ dat.recs[nm[key].off] = [key |-> key, val |-> content[key]]
        /\ nm[key].size = SizeOf(content[key])
    BY SMTT(30), <1>1, <2>3 DEF IInv, MapInv
  <2>5. /\ dat.recs[nm[key].off].key = key /\ dat.recs[nm[key].off].val = content[key]
    BY <2>4, SMTT(30)
  <2>6. /\ nm[key].off # 0 /\ content[key] \in Values
    BY SMTT(30), <1>3, <2>3, <2>5, RecordAt
  <2>7. nm[key].size = 1
    BY <2>3, <2>4, SMTT(30) DEF SizeOf
  <2>8. le.off # 0 /\ le.size # 0
    BY SMTT(30), <2>2, <2>6, <2>7
  <2>9. /\ cpd' = AppendRec(cpd, dat.recs[le.off].key, dat.recs[le.off].val)
        /\ cpx' = Append(cpx, Entry(key, EndOf(cpd), le.size))
    BY SMTT(30), <2>8 DEF MakeupDiff, le
  <2>10. /\ cpd' = AppendRec(cpd, key, content[key])
         /\ cpx' = Append(cpx, Entry(key, EndOf(cpd), 1))
    BY SMTT(30), <2>2, <2>5, <2>7, <2>9
  <2>11. HoldsIn(Append(cpx, Entry(key, EndOf(cpd), 1)), AppendRec(cpd, key, content[key]),
                 key, [key |-> key, val |-> content[key]])
    BY <1>3, <2>6, HoldsNew
  <2> QED BY <1>1, <2>10, <2>11 DEF Kept, Holds
<1>8. \A k : /\ MustKeep(k)' <=> MustKeep(k)
             /\ InDiff(k)' <=> InDiff(k)
             /\ Logged(k)' <=> Logged(k)
  BY SMTT(30), <1>1 DEF MustKeep, InDiff, Logged
<1>9. ASSUME NEW k \in Keys PROVE KeyInv(k)'
  <2>1. KeyInv(k)
    BY DEF IInv, CopyInv
  <2> QED BY <1>1, <1>6, <1>7, <1>8, <2>1 DEF KeyInv
<1>10. lastIdxOff' <= Len(idx')
  BY <1>1 DEF IInv, CopyInv
<1> QED BY <1>9, <1>10

\* Every action keeps what is known of the compacted files.
LEMMA CopyStep == IInv /\ [Next]_vars => CopyInv'
<1> SUFFICES ASSUME IInv, [Next]_vars PROVE CopyInv'
  OBVIOUS
<1>a. CopyInv /\ TypeOK /\ FilesInv
  BY DEF IInv
<1>b. copyOk \in BOOLEAN /\ (copyOk => status = "up")
  BY <1>a DEF TypeOK, CopyInv
<1>c. \A r \in reqs : r.key \in Keys /\ r.val \in Values
  BY <1>a, RequestFields DEF TypeOK
<1>d. dat \in DataFile /\ idx \in Seq(IndexEntry)
  BY <1>a DEF TypeOK
<1>1. ASSUME NEW r \in reqs, NEW logged \in BOOLEAN, WriteNeedle(r, logged)
      PROVE  CopyInv'
  <2> DEFINE nv == [off |-> EndOf(dat), size |-> SizeOf(r.val)]
             e == Entry(r.key, nv.off, nv.size)
  <2>1. /\ dat' = AppendRec(dat, r.key, r.val) /\ nm' = Put(nm, r.key, nv)
        /\ content' = Put(content, r.key, r.val) /\ vac \in {"idle", "scan"}
        /\ copyOk' = (copyOk /\ logged)
        /\ logged => idx' = Append(idx, e)
        /\ UNCHANGED <<files, cpd, cpx, lastIdxOff, status, vac, pos>>
    BY <1>1, Zenon DEF WriteNeedle, Shared
  <2>2. CASE ~(copyOk /\ logged /\ "cpd" \in files)
    BY <1>b, <2>1, <2>2, CopyEnds
  <2>3. CASE copyOk /\ logged /\ "cpd" \in files
    <3>1. r.key \in Keys /\ r.val \in Values
      BY <1>c
    <3>2. EndOf(dat) \in Nat
      BY ZenonT(30), <1>d, <3>1, AppendRecFacts
    <3>3. e \in IndexEntry
      BY <3>1, <3>2, EntryType, SizeOfType
    <3>4. e.key = r.key /\ e.off = nv.off /\ e.size = nv.size
      BY DEF Entry
    <3> HIDE DEF e, nv
    <3>5. /\ DOMAIN nm' = DOMAIN nm \cup {r.key} /\ nm'[r.key] = nv
          /\ \A k \in DOMAIN nm : k # r.key => nm'[k] = nm[k]
      BY <2>1 DEF Put
    <3>6. \A k \in DOMAIN content : k # r.key => content'[k] = content[k]
      BY <2>1 DEF Put
    <3>7. DOMAIN nm \subseteq DOMAIN content
      BY <2>1 DEF IInv, MapInv
    <3>8. Copying
      BY <2>1, <2>3 DEF Copying
    <3>9. lastIdxOff' <= Len(idx') /\ \A k \in Keys : KeyInv(k)'
      BY <2>1, <2>3, <3>1, <3>3, <3>4, <3>5, <3>6, <3>7, <3>8, CopyServe
    <3> QED BY <1>b, <2>1, <3>9 DEF CopyInv
  <2> QED BY <2>2, <2>3
<1>2. ASSUME NEW r \in reqs, NEW logged \in BOOLEAN, DeleteNeedle(r, logged)
      PROVE  CopyInv'
  <2> DEFINE e == Entry(r.key, nm[r.key].off, nm[r.key].size)
  <2>1. /\ dat' = AppendRec(dat, r.key, r.val) /\ nm' = Remove(nm, r.key)
        /\ content' = Remove(content, r.key) /\ vac \in {"idle", "scan"}
        /\ copyOk' = (copyOk /\ logged) /\ r.key \in DOMAIN nm
        /\ logged => idx' = Append(idx, e)
        /\ UNCHANGED <<files, cpd, cpx, lastIdxOff, status, vac, pos>>
    BY <1>2, ZenonT(30) DEF DeleteNeedle, Shared
  <2>2. CASE ~(copyOk /\ logged /\ "cpd" \in files)
    BY SMTT(30), <1>b, <2>1, <2>2, CopyEnds
  <2>3. CASE copyOk /\ logged /\ "cpd" \in files
    <3>1. r.key \in Keys /\ r.val \in Values
      BY <1>c
    <3>2. e \in IndexEntry
      BY SMTT(30), <1>a, <2>1, <3>1, EntryType DEF TypeOK, NeedleValue
    <3>3. e.key = r.key
      BY SMTT(30) DEF Entry
    <3> HIDE DEF e
    <3>4. /\ DOMAIN nm' = DOMAIN nm \ {r.key}
          /\ \A k \in DOMAIN nm : k # r.key => nm'[k] = nm[k]
      BY <2>1 DEF Remove
    <3>5. \A k \in DOMAIN content : k # r.key => content'[k] = content[k]
      BY <2>1 DEF Remove
    <3>6. DOMAIN nm \subseteq DOMAIN content
      BY ZenonT(30), <2>1 DEF IInv, MapInv
    <3>7. Copying
      BY <2>1, <2>3 DEF Copying
    <3>8. lastIdxOff' <= Len(idx') /\ \A k \in Keys : KeyInv(k)'
      BY <2>1, <2>3, <3>1, <3>2, <3>3, <3>4, <3>5, <3>6, <3>7, CopyServe
    <3> QED BY SMTT(30), <1>b, <2>1, <3>8 DEF CopyInv
  <2> QED BY <2>2, <2>3
<1>3. ASSUME NEW c \in Clients, NEW k \in Keys, NEW v \in Values, PostNeedle(c, k, v)
      PROVE  CopyInv'
  BY <1>a, <1>3, CopyFrame DEF PostNeedle, Admit, memVars
<1>4. ASSUME NEW c \in Clients, NEW k \in Keys, DeleteRequest(c, k) PROVE CopyInv'
  BY SMTT(30), <1>a, <1>4, CopyFrame DEF DeleteRequest, Admit, memVars
<1>5. ASSUME NEW r \in reqs, RequestFails(r) \/ DeleteMissing(r) PROVE CopyInv'
  BY SMTT(30), <1>a, <1>5, CopyFrame DEF RequestFails, DeleteMissing, memVars
<1>6. CASE MarkReadonly \/ UNCHANGED vars
  BY <1>a, <1>6, CopyFrame DEF MarkReadonly, vars, memVars
<1>7. CASE Compact
  <2>1. /\ status = "up" /\ UNCHANGED <<dat, idx, nm, content, status>>
        /\ copyOk' = (mapper /\ dat.recs # <<>>) /\ pos' = 1
        /\ mapper => lastIdxOff' = Len(idx)
        /\ dat.recs # <<>> => vac' = "scan"
    BY <1>7 DEF Compact
  <2>2. CASE ~copyOk'
    BY <2>1, <2>2, CopyEnds
  <2>3. CASE copyOk'
    <3>1. lastIdxOff' = Len(idx') /\ vac' = "scan" /\ pos' = 1
      BY <2>1, <2>3
    <3>2. Len(idx) \in Nat /\ DOMAIN idx = 1..Len(idx)
      BY <1>d, LogFacts
    <3>3. \A k : ~InDiff(k)'
      BY <2>1, <3>1, <3>2 DEF InDiff, Since
    <3>4. ASSUME NEW k \in Keys, MustKeep(k)' PROVE nm'[k].off >= pos'
      <4>1. nm[k].off \in DOMAIN dat.recs
        BY <2>1, <3>4 DEF MustKeep
      <4>2. nm[k].off \in Nat \ {0}
        BY <1>d, <4>1, RecordAt
      <4> QED BY <2>1, <4>2
    <3>5. \A k \in Keys : KeyInv(k)'
      BY <3>1, <3>3, <3>4 DEF KeyInv
    <3>6. lastIdxOff' <= Len(idx')
      BY <2>1, <3>1, <3>2
    <3> QED BY <2>1, <3>5, <3>6 DEF CopyInv
  <2> QED BY <2>2, <2>3
<1>8. ASSUME NEW written \in BOOLEAN, ScanCopy(written) PROVE CopyInv'
  <2>1. CASE written
    <3>1. written = TRUE
      BY <2>1
    <3> QED BY <1>8, <3>1, CopyRecord
  <2>2. CASE ~written
    <3>1. ~copyOk'
      BY <1>8, <2>2 DEF ScanCopy
    <3> QED BY <3>1, CopyEnds
  <2> QED BY <2>1, <2>2
<1>9. CASE ScanSkip \/ ScanEnd
  <2>1. vac = "scan"
    BY <1>9 DEF ScanSkip, ScanEnd
  <2> QED BY SMTT(30), <1>9, <2>1, CopyScan
<1>10. CASE ScanError \/ ReloadVolume \/ DestroyVolume \/ Crash
  <2>1. ~copyOk'
    BY <1>10 DEF ScanError, ReloadVolume, DestroyVolume, Crash
  <2> QED BY SMTT(30), <2>1, CopyEnds
<1>11. CASE CleanupCompact \/ MakeupFails \/ DiscardCompact \/ RenameDat \/ RenameIdx
  <2>1. UNCHANGED <<status, copyOk>>
    BY SMTT(30), <1>11 DEF CleanupCompact, MakeupFails, DiscardCompact, RenameDat, RenameIdx
  <2>2. "cpd" \notin files' \/ vac' \notin {"idle", "scan", "diff", "renameDat"}
    BY <1>a, <1>11 DEF CleanupCompact, MakeupFails, DiscardCompact, RenameDat, RenameIdx,
       FilesInv, CompactFilesMatch
  <2> QED BY SMTT(30), <1>b, <2>1, <2>2, CopyEnds
<1>12. CASE CommitCompact
  <2>1. /\ UNCHANGED <<files, dat, cpd, idx, cpx, nm, lastIdxOff, status, content, copyOk>>
        /\ vac = "idle"
        /\ \/ vac' = "renameDat" /\ Len(idx) <= lastIdxOff
           \/ vac' = "diff" /\ todo' = DiffKeys
           \/ vac' = "discard"
    BY <1>12 DEF CommitCompact, Exclusive, fileVars
  <2>2. DOMAIN idx = 1..Len(idx) /\ Len(idx) \in Nat /\ lastIdxOff \in Nat
    BY <1>a, <1>d, LogFacts, ZenonT(30) DEF TypeOK
  <2>3. \A k : /\ MustKeep(k)' <=> MustKeep(k)
               /\ InDiff(k)' <=> InDiff(k)
               /\ Logged(k)' <=> Logged(k)
               /\ Kept(k)' <=> Kept(k)
    BY <2>1 DEF MustKeep, InDiff, Logged, Kept, Holds
  <2>4. \A k : Len(idx) <= lastIdxOff => ~InDiff(k)
    BY <2>2 DEF InDiff, Since
  <2>5. \A k : InDiff(k) => k \in DiffKeys
    BY <2>2 DEF InDiff, Since, DiffKeys
  <2>6. CASE vac' = "discard"
    BY <1>b, <2>1, <2>6, CopyEnds
  <2>7. CASE vac' # "discard"
    <3>1. Copying' => Copying
      BY SMTT(30), <2>1 DEF Copying
    <3>2. ASSUME Copying, NEW k \in Keys PROVE KeyInv(k)'
      <4>1. KeyInv(k)
        BY <1>a, <3>2 DEF CopyInv
      <4> QED BY SMTT(30), <2>1, <2>3, <2>4, <2>5, <2>7, <4>1 DEF KeyInv
    <3>3. Copying => lastIdxOff' <= Len(idx')
      BY <1>a, <2>1 DEF CopyInv
    <3> QED BY <1>b, <2>1, <3>1, <3>2, <3>3 DEF CopyInv
  <2> QED BY SMTT(30), <2>6, <2>7
<1>13. ASSUME NEW k \in Keys, MakeupDiff(k) PROVE CopyInv'
  BY <1>13, CopyDiff
<1>14. CASE MakeupDone
  <2>1. /\ UNCHANGED <<files, dat, cpd, idx, cpx, nm, lastIdxOff, status, content, copyOk>>
        /\ vac = "diff" /\ todo = {} /\ vac' = "renameDat"
    BY <1>14, ZenonT(30) DEF MakeupDone, fileVars, memVars
  <2>2. \A k : /\ MustKeep(k)' <=> MustKeep(k)
               /\ InDiff(k)' <=> InDiff(k)
               /\ Logged(k)' <=> Logged(k)
               /\ Kept(k)' <=> Kept(k)
    BY <2>1 DEF MustKeep, InDiff, Logged, Kept, Holds
  <2>3. Copying' => Copying
    BY SMTT(30), <2>1 DEF Copying
  <2>4. ASSUME Copying, NEW k \in Keys PROVE KeyInv(k)'
    <3>1. KeyInv(k)
      BY <1>a, <2>4 DEF CopyInv
    <3> QED BY SMTT(30), <2>1, <2>2, <3>1 DEF KeyInv
  <2>5. Copying => lastIdxOff' <= Len(idx')
    BY SMTT(30), <1>a, <2>1 DEF CopyInv
  <2> QED BY <1>b, <2>1, <2>3, <2>4, <2>5 DEF CopyInv
<1>15. CASE Restart
  <2>1. ~copyOk'
    BY <1>b, <1>15 DEF Restart
  <2> QED BY <2>1, CopyEnds
<1> QED
  BY SMTT(30), NextCases, <1>1, <1>2, <1>3, <1>4, <1>5, <1>6, <1>7, <1>8, <1>9, <1>10, <1>11,
     <1>12, <1>13, <1>14, <1>15

-----------------------------------------------------------------------------
(* The theorems *)

\* The inductive invariant holds in every reachable state.
THEOREM Invariance == Spec => []IInv
<1>1. Init => IInv
  <2> SUFFICES ASSUME Init PROVE IInv
    OBVIOUS
  <2>1. TypeOK
    <3>1. DOMAIN nm \subseteq Keys /\ nm \in [DOMAIN nm -> NeedleValue]
      BY EmptyFacts DEF Init
    <3>2. DOMAIN content \subseteq Keys /\ content \in [DOMAIN content -> Values]
      BY EmptyFacts DEF Init
    <3>3. dat \in DataFile /\ cpd \in DataFile
      BY EmptyFacts DEF Init
    <3>4. idx \in Seq(IndexEntry) /\ cpx \in Seq(IndexEntry)
      BY EmptyFacts DEF Init
    <3>5. files \subseteq Suffixes /\ todo \subseteq Keys /\ reqs \subseteq Request
      BY DEF Init, Suffixes
    <3>6. /\ mapper \in BOOLEAN /\ noWrite \in BOOLEAN /\ isCompacting \in BOOLEAN
          /\ copyOk \in BOOLEAN
      BY DEF Init
    <3>7. /\ fileCount \in Nat /\ delCount \in Nat /\ lastIdxOff \in Nat /\ lastRev \in Nat
          /\ pos \in Nat \ {0} /\ status = "up" /\ vac = "idle"
      BY DEF Init
    <3> QED
      BY SMTT(30), <3>1, <3>2, <3>3, <3>4, <3>5, <3>6, <3>7 DEF TypeOK
  <2>2. MapInv
    BY EmptyFacts DEF Init, MapInv
  <2>3. FilesInv
    BY DEF Init, FilesInv, CompactFilesMatch
  <2>4. CopyInv
    BY DEF Init, CopyInv, Copying
  <2> QED BY <2>1, <2>2, <2>3, <2>4 DEF IInv
<1>2. IInv /\ [Next]_vars => IInv'
  BY TypeStep, MapStep, FilesStep, CopyStep DEF IInv
<1> QED
  BY <1>1, <1>2, PTL DEF Spec

\* The state of a volume keeps its types.
THEOREM TypeCorrect == Spec => []TypeOK
<1>1. IInv => TypeOK
  BY SMTT(30) DEF IInv
<1> QED
  BY <1>1, Invariance, PTL

\* Volume::read_needle returns the needle asked for as its latest write left it,
\* whatever compactions, failed requests, crashes and reloads came before.
THEOREM ReadsCurrent == Spec => []ReadsAreCurrent
<1>1. IInv => ReadsAreCurrent
  <2> SUFFICES ASSUME IInv, Shared, NEW k \in DOMAIN nm
               PROVE  /\ nm[k].off \in DOMAIN dat.recs /\ k \in DOMAIN content
                      /\ ReadNeedle(k) = [found |-> TRUE,
                                          rec |-> [key |-> k, val |-> content[k]]]
    BY SMTT(30) DEF ReadsAreCurrent
  <2>1. /\ nm[k].off \in DOMAIN dat.recs /\ k \in DOMAIN content
        /\ dat.recs[nm[k].off] = [key |-> k, val |-> content[k]]
    BY DEF Shared, IInv, MapInv
  <2>2. nm[k].off # 0
    BY SMTT(30), <2>1, RecordAt DEF IInv, TypeOK
  <2>3. ReadNeedle(k) = [found |-> TRUE, rec |-> dat.recs[nm[k].off]]
    BY <2>2 DEF ReadNeedle
  <2> QED BY SMTT(30), <2>1, <2>3
<1> QED
  BY <1>1, Invariance, PTL

\* A .cpd comes with its .cpx and is one revision ahead of .dat.
THEOREM FilesMatch == Spec => []CompactFilesMatch
<1>1. IInv => CompactFilesMatch
  BY SMTT(30) DEF IInv, FilesInv
<1> QED
  BY <1>1, Invariance, PTL

\* What commit_compact installs after an error-free compaction holds every needle
\* that must be kept, at its latest version, for any interleaving of requests with
\* the scan and with the time between compact() and commit_compact().
THEOREM CompactionLossless == Spec => []CompactionKeepsLive
<1>1. IInv => CompactionKeepsLive
  BY DEF IInv, CopyInv, Copying, KeyInv, Kept, CompactionKeepsLive
<1> QED
  BY <1>1, Invariance, PTL

\* Once read-only and without requests under way, a volume does not change.
THEOREM ReadonlyStable == Spec => ReadonlyFreezes
<1>1. [Next]_vars => [noWrite /\ reqs = {} => reqs' = {} /\ content' = content]_vars
  <2> SUFFICES ASSUME Next, noWrite, reqs = {} PROVE reqs' = {} /\ content' = content
    BY DEF vars
  <2>1. ~Serve
    BY Zenon DEF Serve, PostNeedle, DeleteRequest, Admit, MarkReadonly
  <2>2. CASE VacuumStep
    BY <2>2, Zenon DEF VacuumStep, ScanCopy, ScanSkip, ScanEnd, ScanError, MakeupDiff, MakeupFails,
       MakeupDone, DiscardCompact, RenameDat, RenameIdx, ReloadVolume
  <2>3. CASE Compact \/ CleanupCompact \/ CommitCompact
    BY <2>3, Zenon DEF Compact, CleanupCompact, CommitCompact
  <2>4. CASE DestroyVolume \/ Crash \/ Restart
    BY <2>4, Zenon DEF DestroyVolume, Crash, Restart
  <2> QED BY <2>1, <2>2, <2>3, <2>4, ZenonT(30) DEF Next
<1> QED
  BY <1>1, PTL DEF Spec, ReadonlyFreezes

-----------------------------------------------------------------------------
(* The metrics *)

\* GarbageAccounting without its condition, over a finite map.
CountInv == IsFiniteSet(DOMAIN nm) /\ fileCount = delCount + Cardinality(DOMAIN nm)

\* Files set minus files deleted is the number of needles in the map.
THEOREM GarbageCounted == Spec => []GarbageAccounting
<1>1. Init => CountInv
  BY SMTT(30), FS_EmptySet DEF Init, CountInv, NoMap
<1>2. CountInv /\ TypeOK /\ [Next]_vars => CountInv'
  <2> SUFFICES ASSUME CountInv, TypeOK, [Next]_vars PROVE CountInv'
    OBVIOUS
  <2>a. Cardinality(DOMAIN nm) \in Nat /\ IsFiniteSet(DOMAIN nm)
    BY FS_CardinalityType DEF CountInv
  <2>1. ASSUME UNCHANGED <<nm, fileCount, delCount>> PROVE CountInv'
    BY <2>1 DEF CountInv
  <2>2. ASSUME nm' = NoMap, fileCount' = 0, delCount' = 0 PROVE CountInv'
    BY SMTT(30), <2>2, FS_EmptySet DEF CountInv, NoMap
  <2>3. ASSUME NEW r \in reqs, NEW logged \in BOOLEAN, WriteNeedle(r, logged)
        PROVE  CountInv'
    <3>1. DOMAIN nm' = DOMAIN nm \cup {r.key}
      <4>1. PICK nv : nm' = Put(nm, r.key, nv) BY <2>3, ZenonT(30) DEF WriteNeedle
      <4> QED BY <4>1 DEF Put
    <3>2. IsFiniteSet(DOMAIN nm') /\ Cardinality(DOMAIN nm') =
            IF r.key \in DOMAIN nm THEN Cardinality(DOMAIN nm)
                                   ELSE Cardinality(DOMAIN nm) + 1
      BY <2>a, <3>1, FS_AddElement, SMTT(30)
    <3>3. fileCount' = fileCount + 1 /\ delCount' = delCount + Bump(nm, r.key)
      BY <2>3 DEF WriteNeedle
    <3>4. fileCount \in Nat /\ delCount \in Nat
      BY DEF TypeOK
    <3> QED BY <2>a, <3>2, <3>3, <3>4, SMTT(30), Zenon DEF CountInv, Bump
  <2>4. ASSUME NEW r \in reqs, NEW logged \in BOOLEAN, DeleteNeedle(r, logged)
        PROVE  CountInv'
    <3>1. DOMAIN nm' = DOMAIN nm \ {r.key} /\ r.key \in DOMAIN nm
      BY <2>4 DEF DeleteNeedle, Remove
    <3>2. IsFiniteSet(DOMAIN nm') /\ Cardinality(DOMAIN nm') = Cardinality(DOMAIN nm) - 1
      BY SMTT(30), <2>a, <3>1, FS_RemoveElement
    <3>3. fileCount' = fileCount /\ delCount' = delCount + 1
      BY <2>4 DEF DeleteNeedle
    <3>4. fileCount \in Nat /\ delCount \in Nat
      BY DEF TypeOK
    <3> QED BY SMTT(30), <2>a, <3>2, <3>3, <3>4 DEF CountInv
  <2>5. CASE ReloadVolume \/ DestroyVolume \/ Crash
    BY <2>2, <2>5, Zenon DEF ReloadVolume, DestroyVolume, Crash
  <2>6. ASSUME NEW c \in Clients, NEW k \in Keys, NEW v \in Values, PostNeedle(c, k, v)
        PROVE  CountInv'
    BY <2>1, <2>6, Zenon DEF PostNeedle, Admit, memVars
  <2>7. ASSUME NEW c \in Clients, NEW k \in Keys, DeleteRequest(c, k) PROVE CountInv'
    BY <2>1, <2>7, Zenon DEF DeleteRequest, Admit, memVars
  <2>8. ASSUME NEW r \in reqs, RequestFails(r) \/ DeleteMissing(r) PROVE CountInv'
    BY <2>1, <2>8, Zenon DEF RequestFails, DeleteMissing, memVars
  <2>9. ASSUME NEW written \in BOOLEAN, ScanCopy(written) PROVE CountInv'
    BY <2>1, <2>9, Zenon DEF ScanCopy, memVars
  <2>10. ASSUME NEW k \in Keys, MakeupDiff(k) PROVE CountInv'
    BY <2>1, <2>10, Zenon DEF MakeupDiff, memVars
  <2>11. CASE MarkReadonly \/ Compact \/ CleanupCompact \/ CommitCompact \/ Restart
    BY <2>1, <2>11, Zenon DEF MarkReadonly, Compact, CleanupCompact, CommitCompact, Restart, memVars
  <2>12. CASE ScanSkip \/ ScanEnd \/ ScanError \/ MakeupFails \/ MakeupDone
    BY <2>1, <2>12, Zenon DEF ScanSkip, ScanEnd, ScanError, MakeupFails, MakeupDone, memVars
  <2>13. CASE DiscardCompact \/ RenameDat \/ RenameIdx \/ UNCHANGED vars
    BY <2>1, <2>13, Zenon DEF DiscardCompact, RenameDat, RenameIdx, vars, memVars
  <2> QED
    BY SMTT(30), NextCases, <2>3, <2>4, <2>5, <2>6, <2>7, <2>8, <2>9, <2>10, <2>11, <2>12, <2>13
<1>3. CountInv => GarbageAccounting
  BY DEF CountInv, GarbageAccounting
<1> QED
  BY <1>1, <1>2, <1>3, TypeCorrect, PTL DEF Spec

=============================================================================
