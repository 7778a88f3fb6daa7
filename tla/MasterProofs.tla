------------------------------ MODULE MasterProofs ------------------------------
(***************************************************************************)
(* What a master keeps in memory: its Raft log, for logs of any length and *)
(* any set of entries, and the locations of erasure coded shards, for every*)
(* number of nodes, volumes and shards and every set of reports.           *)
(***************************************************************************)
EXTENDS EcRegistry, LogStore, TLAPS

(***************************************************************************)
(* The Raft log.  The inductive invariant names the last index: the        *)
(* indexes are an interval that begins after the purged ones.  What the    *)
(* code computes as the last id of the log is the end of the interval.     *)
(***************************************************************************)
\* The indexes from the first that is not purged to l.
Spans(l) == l \in Int /\ purged <= l /\ Indexes = (purged + 1)..l

LogInv ==
  /\ purged \in -1..MaxIndex /\ \A i \in Indexes : log[i] \in Entries
  /\ log = [i \in Indexes |-> log[i]]
  /\ \E l \in -1..MaxIndex : Spans(l)

\* The largest element of an interval, or what precedes it when it is empty, is its end.
LEMMA EndOf ==
  ASSUME NEW p \in Int, NEW l \in Int, p <= l, NEW d, d = (p + 1)..l
  PROVE  LastOf(d, p) = l
<1>1. CASE d = {}
  BY <1>1 DEF LastOf
<1>2. CASE d # {}
  <2>1. l \in d /\ \A j \in d : j <= l
    BY <1>2
  <2>2. \A i \in d : (\A j \in d : j <= i) => i = l
    BY <2>1
  <2> QED BY <1>2, <2>1, <2>2 DEF LastOf
<1> QED BY Zenon, <1>1, <1>2

\* The last id that get_log_state reports is the end of the interval, also when it is empty.
LEMMA LastIsEnd ==
  ASSUME purged \in Int, NEW l, Spans(l)
  PROVE  LastLogId = l
BY EndOf DEF LastLogId, Spans

\* The empty log of a new store spans no index.
LEMMA LogStarts == LogInit => LogInv
<1> SUFFICES ASSUME LogInit PROVE LogInv OBVIOUS
<1>1. Indexes = {} /\ purged = -1
  BY DEF LogInit, NoLog, Indexes
<1>2. log = [i \in Indexes |-> log[i]]
  BY <1>1 DEF LogInit, NoLog, Indexes
<1>3. Spans(-1)
  BY <1>1 DEF Spans
<1>4. MaxIndex \in Nat
  BY LogStoreAssumption
<1> QED BY <1>1, <1>2, <1>3, <1>4 DEF LogInv

\* What each call does to the interval: an append adds its end, truncate and purge cut it.
LEMMA AppendSpans ==
  ASSUME LogInv, NEW e \in Entries, AppendEntry(e), NEW l, Spans(l)
  PROVE  /\ Spans(l + 1)' /\ LastLogId = l /\ l < MaxIndex
         /\ log' = [j \in (purged + 1)..(l + 1) |-> IF j = l + 1 THEN e ELSE log[j]]
<1>1. LastLogId = l
  BY LastIsEnd DEF LogInv
<1>2. Indexes \cup {l + 1} = (purged + 1)..(l + 1)
  BY DEF Spans, LogInv
<1>3. log' = [j \in (purged + 1)..(l + 1) |-> IF j = l + 1 THEN e ELSE log[j]]
  BY <1>1, <1>2 DEF AppendEntry, Insert
<1>4. l \in Int /\ purged \in Int /\ purged <= l /\ purged' = purged /\ l < MaxIndex
  BY <1>1 DEF Spans, AppendEntry, LogInv
<1>5. Indexes' = (purged + 1)..(l + 1)
  BY <1>3 DEF Indexes
<1>6. Spans(l + 1)'
  BY <1>4, <1>5 DEF Spans
<1> QED BY <1>1, <1>3, <1>4, <1>6

\* truncate() leaves an interval that ends before the index given.
LEMMA TruncateSpans ==
  ASSUME LogInv, NEW i \in 0..MaxIndex, Truncate(i), NEW l, Spans(l)
  PROVE  /\ Spans(i - 1)' /\ LastLogId = l /\ purged < i /\ i <= l
         /\ log' = [j \in (purged + 1)..(i - 1) |-> log[j]]
<1>1. LastLogId = l
  BY LastIsEnd DEF LogInv
<1>2. Below(i) = (purged + 1)..(i - 1)
  BY <1>1, LogStoreAssumption DEF Below, Spans, LogInv, Truncate
<1>3. log' = [j \in (purged + 1)..(i - 1) |-> log[j]]
  BY <1>2 DEF Truncate, Keep
<1> QED BY <1>1, <1>3, LogStoreAssumption DEF Spans, Truncate, Indexes, LogInv

\* purge() leaves an interval that begins after the index given.
LEMMA PurgeSpans ==
  ASSUME LogInv, NEW i \in 0..MaxIndex, Purge(i), NEW l, Spans(l)
  PROVE  /\ Spans(IF i <= l THEN l ELSE i)' /\ purged <= i /\ purged' = i
         /\ log' = [j \in (i + 1)..l |-> log[j]]
<1>1. Above(i) = (i + 1)..l
  BY LogStoreAssumption DEF Above, Spans, LogInv, Purge
<1>2. log' = [j \in (i + 1)..l |-> log[j]]
  BY <1>1 DEF Purge, Keep
<1>3. Indexes' = (i + 1)..l
  BY <1>2 DEF Indexes
<1>4. (i + 1)..l = (i + 1)..(IF i <= l THEN l ELSE i)
  BY LogStoreAssumption DEF Spans
<1> QED BY <1>2, <1>3, <1>4, LogStoreAssumption DEF Spans, Purge

\* Every call keeps the indexes an interval after the last purged one.
LEMMA LogSteps == LogInv /\ [LogNext]_logVars => LogInv'
<1> SUFFICES ASSUME LogInv, [LogNext]_logVars PROVE LogInv' OBVIOUS
<1> USE LogStoreAssumption
<1>0. PICK l \in -1..MaxIndex : Spans(l)
  BY DEF LogInv
<1>1. ASSUME NEW e \in Entries, AppendEntry(e) PROVE LogInv'
  <2>1. Spans(l + 1)' /\ l < MaxIndex
        /\ log' = [j \in (purged + 1)..(l + 1) |-> IF j = l + 1 THEN e ELSE log[j]]
    BY <1>0, <1>1, AppendSpans
  <2>2. \A j \in (purged + 1)..(l + 1) : j # l + 1 => j \in Indexes
    BY <1>0 DEF Spans, LogInv
  <2>3. \A j \in Indexes' : log'[j] \in Entries
    BY <2>1, <2>2 DEF Indexes, LogInv
  <2> QED BY <1>0, <1>1, <2>1, <2>3 DEF LogInv, AppendEntry, Indexes
<1>2. ASSUME NEW i \in 0..MaxIndex, Truncate(i) PROVE LogInv'
  <2>1. Spans(i - 1)' /\ purged < i /\ i <= l /\ log' = [j \in (purged + 1)..(i - 1) |-> log[j]]
    BY <1>0, <1>2, TruncateSpans
  <2>2. \A j \in (purged + 1)..(i - 1) : j \in Indexes
    BY <1>0, <2>1 DEF Spans, LogInv
  <2>3. \A j \in Indexes' : log'[j] \in Entries
    BY <2>1, <2>2 DEF Indexes, LogInv
  <2> QED BY <1>0, <1>2, <2>1, <2>3 DEF LogInv, Truncate, Indexes
<1>3. ASSUME NEW i \in 0..MaxIndex, Purge(i) PROVE LogInv'
  <2>1. Spans(IF i <= l THEN l ELSE i)' /\ purged <= i /\ purged' = i /\ log' = [j \in (i + 1)..l |-> log[j]]
    BY <1>0, <1>3, PurgeSpans
  <2>2. \A j \in (i + 1)..l : j \in Indexes
    BY <1>0, <2>1 DEF Spans, LogInv
  <2>3. \A j \in Indexes' : log'[j] \in Entries
    BY <2>1, <2>2 DEF Indexes, LogInv
  <2>4. (IF i <= l THEN l ELSE i) \in -1..MaxIndex
    BY <1>0
  <2> QED BY <2>1, <2>3, <2>4 DEF LogInv, Indexes
<1>4. CASE UNCHANGED logVars
  BY <1>4 DEF logVars, LogInv, Spans, Indexes
<1> QED BY <1>1, <1>2, <1>3, <1>4 DEF LogNext

\* A log never has a hole, and it begins after the last entry that was purged, however
\* appends, truncations and purges follow each other.
THEOREM LogHasNoHoles == LogSpec => []NoHoles
<1>1. LogInv => NoHoles
  BY LastIsEnd DEF LogInv, NoHoles, Spans
<1> QED BY LogStarts, LogSteps, <1>1, PTL DEF LogSpec


\* Append and SubSeq, given by their positions.
LEMMA GrowSeq ==
  ASSUME NEW E, NEW s \in Seq(E), NEW e \in E, NEW n, n = Len(s) + 1
  PROVE  [k \in 1..n |-> IF k = n THEN e ELSE s[k]] = Append(s, e)
<1> DEFINE a == Append(s, e)
           t == [k \in 1..n |-> IF k = n THEN e ELSE s[k]]
<1>1. a \in Seq(E) /\ Len(a) = n /\ (\A i \in 1..Len(s) : a[i] = s[i]) /\ a[n] = e /\ Len(s) \in Nat
  OBVIOUS
<1>2. a \in [1..n -> E]
  <2>1. \A q \in Seq(E) : q \in [1..Len(q) -> E] OBVIOUS
  <2> HIDE DEF a
  <2> QED BY <1>1, <2>1
<1>3. \A k \in 1..n : a[k] = t[k]
  BY <1>1
<1> HIDE DEF a
<1>4. a = t
  BY <1>2, <1>3
<1> QED BY <1>4 DEF a

\* The first n elements of a sequence, written as a function.
LEMMA CutSeq ==
  ASSUME NEW E, NEW s \in Seq(E), NEW n \in 0..Len(s)
  PROVE  [k \in 1..n |-> s[k]] = SubSeq(s, 1, n)
OBVIOUS

\* A sequence without its first m elements, written as a function.
LEMMA ForgetSeq ==
  ASSUME NEW E, NEW s \in Seq(E), NEW m \in Nat, NEW n, n = IF m <= Len(s) THEN Len(s) - m ELSE 0
  PROVE  [k \in 1..n |-> s[k + m]] = SubSeq(s, m + 1, Len(s))
<1>1. Len(s) \in Nat /\ \A i \in 1..Len(s) : s[i] \in E
  OBVIOUS
<1>2. n \in Nat /\ 1..(Len(s) - (m + 1) + 1) = 1..n
  BY <1>1
<1>3. SubSeq(s, m + 1, Len(s)) = [i \in 1..(Len(s) - (m + 1) + 1) |-> s[i + (m + 1) - 1]]
  BY <1>1
<1>4. \A k \in 1..n : k + (m + 1) - 1 = k + m
  OBVIOUS
<1> QED BY <1>2, <1>3, <1>4

\* The sequence of the entries, named by the end of the interval.
LEMMA ContentsAre ==
  ASSUME LogInv, NEW l, Spans(l)
  PROVE  /\ Contents = [k \in 1..(l - purged) |-> log[purged + k]]
         /\ Contents \in Seq(Entries) /\ Len(Contents) = l - purged
<1>1. LastLogId = l
  BY LastIsEnd DEF LogInv
<1>2. l - purged \in Nat
  BY DEF Spans, LogInv
<1>3. \A k \in 1..(l - purged) : log[purged + k] \in Entries
  BY DEF Spans, LogInv
<1> QED BY <1>1, <1>2, <1>3 DEF Contents

\* The empty store maps to the empty log.
LEMMA InitImplements == LogInit => Abstract!Init
<1> SUFFICES ASSUME LogInit PROVE Abstract!Init OBVIOUS
<1>1. Indexes = {} /\ purged = -1
  BY DEF LogInit, NoLog, Indexes
<1>2. LastLogId = -1
  BY <1>1 DEF LastLogId, LastOf
<1>3. Contents = <<>>
  BY <1>1, <1>2 DEF Contents
<1> QED BY <1>1, <1>3 DEF Abstract!Init

\* An append is a Grow, a truncation a Cut, and a purge a Forget of the abstract log.
LEMMA StepImplements == LogInv /\ LogInv' /\ [LogNext]_logVars => [Abstract!Next]_<<purged + 1, Contents>>
<1> SUFFICES ASSUME LogInv, LogInv', [LogNext]_logVars PROVE [Abstract!Next]_<<purged + 1, Contents>> OBVIOUS
<1> USE LogStoreAssumption
<1>0. PICK l \in -1..MaxIndex : Spans(l)
  BY DEF LogInv
<1>a. /\ Contents = [k \in 1..(l - purged) |-> log[purged + k]]
      /\ Contents \in Seq(Entries) /\ Len(Contents) = l - purged
  BY <1>0, ContentsAre
<1>b. ASSUME NEW m \in Int, Spans(m)'
      PROVE  Contents' = [k \in 1..(m - purged') |-> log'[purged' + k]]
  <2>1. purged' \in Int /\ purged' <= m /\ Indexes' = (purged' + 1)..m
    BY <1>b DEF Spans, LogInv
  <2>2. LastOf(Indexes', purged') = m
    BY <2>1, EndOf
  <2>3. LastLogId' = m
    BY <2>2 DEF LastLogId
  <2> QED BY <2>3, Zenon DEF Contents
<1>c. purged \in Int /\ l \in Int /\ purged <= l
  BY <1>0 DEF Spans, LogInv
<1>1. ASSUME NEW e \in Entries, AppendEntry(e) PROVE Abstract!Grow
  <2> DEFINE n == Len(Contents) + 1
  <2>1. /\ Spans(l + 1)'
        /\ log' = [j \in (purged + 1)..(l + 1) |-> IF j = l + 1 THEN e ELSE log[j]]
    BY <1>0, <1>1, AppendSpans
  <2>2. purged' = purged
    BY <1>1 DEF AppendEntry
  <2>a. l + 1 \in Int
    BY <1>c
  <2>3. Contents' = [k \in 1..((l + 1) - purged') |-> log'[purged' + k]]
    BY <1>b, <2>1, <2>a, Zenon
  <2>4. n = (l + 1) - purged /\ n = (l - purged) + 1
    BY <1>a, <1>c
  <2>5. Contents' = [k \in 1..n |-> log'[purged + k]]
    BY <2>2, <2>3, <2>4
  <2>7. \A k \in 1..n : log'[purged + k] = IF k = n THEN e ELSE Contents[k]
    BY <1>a, <1>c, <2>1, <2>4
  <2>6. [k \in 1..n |-> log'[purged + k]] = [k \in 1..n |-> IF k = n THEN e ELSE Contents[k]]
    BY <2>7
  <2>8. [k \in 1..n |-> IF k = n THEN e ELSE Contents[k]] = Append(Contents, e)
    <3>1. n = Len(Contents) + 1 /\ Contents \in Seq(Entries)
      BY <1>a
    <3> HIDE DEF n
    <3>2. \A s \in Seq(Entries) : n = Len(s) + 1 => [k \in 1..n |-> IF k = n THEN e ELSE s[k]] = Append(s, e)
      BY GrowSeq
    <3> QED BY <3>1, <3>2
  <2>9. Contents' = Append(Contents, e)
    BY <2>5, <2>6, <2>8
  <2> QED BY <2>2, <2>9 DEF Abstract!Grow
<1>2. ASSUME NEW i \in 0..MaxIndex, Truncate(i) PROVE Abstract!Cut
  <2> DEFINE n == (i - 1) - purged
  <2>1. Spans(i - 1)' /\ purged < i /\ i <= l /\ log' = [j \in (purged + 1)..(i - 1) |-> log[j]]
    BY <1>0, <1>2, TruncateSpans
  <2>2. purged' = purged
    BY <1>2 DEF Truncate
  <2>3. Contents' = [k \in 1..((i - 1) - purged') |-> log'[purged' + k]]
    BY <1>b, <2>1
  <2>4. n \in 0..Len(Contents)
    BY <1>a, <1>c, <2>1
  <2>5. Contents' = [k \in 1..n |-> log'[purged + k]]
    BY <2>2, <2>3
  <2>6. \A k \in 1..n : log'[purged + k] = Contents[k]
    BY <1>a, <1>c, <2>1
  <2>7. [k \in 1..n |-> Contents[k]] = SubSeq(Contents, 1, n)
    BY <1>a, <2>4, CutSeq
  <2>8. Contents' = SubSeq(Contents, 1, n)
    BY <2>5, <2>6, <2>7
  <2> QED BY <2>2, <2>4, <2>8 DEF Abstract!Cut
<1>3. ASSUME NEW i \in 0..MaxIndex, Purge(i) PROVE Abstract!Forget
  <2> DEFINE m == i - purged
             end == IF i <= l THEN l ELSE i
             n == IF m <= Len(Contents) THEN Len(Contents) - m ELSE 0
  <2>1. Spans(end)' /\ purged <= i /\ purged' = i /\ log' = [j \in (i + 1)..l |-> log[j]]
    BY <1>0, <1>3, PurgeSpans
  <2>2. Contents' = [k \in 1..(end - purged') |-> log'[purged' + k]]
    BY <1>b, <1>c, <2>1
  <2>3. m \in Nat /\ (i + 1) - (purged + 1) = m /\ end - i = n
    BY <1>a, <1>c, <2>1
  <2>4. Contents' = [k \in 1..n |-> log'[i + k]]
    <3> HIDE DEF n, m, end
    <3> QED BY <2>1, <2>2, <2>3
  <2>5. \A k \in 1..n : log'[i + k] = Contents[k + m]
    <3> SUFFICES ASSUME NEW k \in 1..n PROVE log'[i + k] = Contents[k + m] OBVIOUS
    <3>1. k \in Int /\ i \in Int /\ i + k \in (i + 1)..l /\ k + m \in 1..(l - purged)
      BY <1>a, <1>c, <2>1
    <3>2. purged + (k + m) = i + k
      BY <1>c, <3>1
    <3> QED BY <1>a, <2>1, <3>1, <3>2
  <2>6. [k \in 1..n |-> Contents[k + m]] = SubSeq(Contents, m + 1, Len(Contents))
    <3>1. Contents \in Seq(Entries) /\ m \in Nat
      BY <1>a, <2>3
    <3>2. n = IF m <= Len(Contents) THEN Len(Contents) - m ELSE 0
      OBVIOUS
    <3> HIDE DEF n, m
    <3> QED BY <3>1, <3>2, ForgetSeq, Zenon
  <2>7. Contents' = SubSeq(Contents, m + 1, Len(Contents))
    <3> HIDE DEF n, m
    <3> QED BY <2>4, <2>5, <2>6
  <2> QED BY SMTT(30), <2>1, <2>3, <2>7 DEF Abstract!Forget
<1>4. CASE UNCHANGED logVars
  BY <1>4 DEF logVars, Contents, LastLogId, Indexes
<1> QED BY <1>1, <1>2, <1>3, <1>4 DEF LogNext, Abstract!Next

\* The log store is a log: appending, truncating and purging the map of entries are growing,
\* cutting and forgetting a sequence, for every set of entries and every bound.
THEOREM LogStoreImplementsLog == LogSpec => ImplementsLog
<1>1. LogInit => Abstract!Init
  BY InitImplements
<1>2. LogInv /\ LogInv' /\ [LogNext]_logVars => [Abstract!Next]_<<purged + 1, Contents>>
  BY StepImplements
<1> QED BY <1>1, <1>2, LogStarts, LogSteps, PTL DEF LogSpec, ImplementsLog, Abstract!Spec

(***************************************************************************)
(* The locations of shards                                                 *)
(***************************************************************************)
Infos == [vid : Vids, bits : SUBSET ShardIds]
Lists == [ShardIds -> Seq(Nodes)]

\* A stream that saw no locations still has the volume to register.
TypeInv ==
  /\ known \in [Nodes -> SUBSET Vids] /\ listed \subseteq Vids
  /\ locations \in [Vids -> Lists]
  /\ news \in [Nodes -> Seq(Infos)] /\ olds \in [Nodes -> Seq(Infos)]
  /\ seen \in [Nodes -> BOOLEAN] /\ \A n \in Nodes : seen[n] => news[n] # <<>>
  /\ reported \in [Nodes -> [Vids -> SUBSET ShardIds]]

\* What a stream is going to register its server has reported.
NewsInv ==
  \A n \in Nodes : \A k \in 1..Len(news[n]) : news[n][k].bits \subseteq reported[n][news[n][k].vid]

Sound(list, v, i) ==
  IsInjective(list) /\ \A k \in 1..Len(list) : i \in reported[list[k]][v]

\* Locations, whether they can be looked up or not; there are none before.
LocationsInv ==
  \A v \in Vids, i \in ShardIds :
    Sound(locations[v][i], v, i) /\ (v \notin listed => locations[v][i] = <<>>)

IInv == TypeInv /\ NewsInv /\ LocationsInv

(***************************************************************************)
(* Lists of nodes                                                          *)
(***************************************************************************)
\* add_ec_shard keeps a list free of repetitions and of other nodes.
LEMMA AddFacts ==
  ASSUME NEW list \in Seq(Nodes), NEW n \in Nodes, IsInjective(list)
  PROVE  /\ Add(list, n) \in Seq(Nodes) /\ IsInjective(Add(list, n))
         /\ \A k \in 1..Len(Add(list, n)) :
              Add(list, n)[k] = n \/ \E j \in 1..Len(list) : Add(list, n)[k] = list[j]
         /\ \A m : Contains(list, m) => Contains(Add(list, n), m)
<1>1. CASE \E k \in DOMAIN list : list[k] = n
  BY <1>1 DEF Add
<1>2. CASE ~\E k \in DOMAIN list : list[k] = n
  <2>1. PICK r : r = Append(list, n) BY Zenon
  <2>2. /\ r \in Seq(Nodes) /\ Len(r) = Len(list) + 1 /\ Len(list) \in Nat
        /\ r[Len(list) + 1] = n /\ \A k \in 1..Len(list) : r[k] = list[k]
    BY <2>1
  <2>3. DOMAIN r = 1..(Len(list) + 1) /\ DOMAIN list = 1..Len(list) BY <2>2
  <2>4. IsInjective(r) BY <1>2, <2>2, <2>3 DEF IsInjective
  <2>5. \A m : Contains(list, m) => Contains(r, m) BY <2>2 DEF Contains
  <2>6. \A k \in 1..Len(r) : r[k] = n \/ \E j \in 1..Len(list) : r[k] = list[j] BY <2>2
  <2>7. Add(list, n) = r BY <1>2, <2>1 DEF Add
  <2> QED BY <2>2, <2>4, <2>5, <2>6, <2>7
<1> QED BY <1>1, <1>2

\* A sequence without its element at k.
LEMMA RemoveAtFacts ==
  ASSUME NEW S, NEW s \in Seq(S), NEW k \in 1..Len(s)
  PROVE  /\ RemoveAt(s, k) \in Seq(S) /\ Len(RemoveAt(s, k)) = Len(s) - 1
         /\ \A j \in 1..(Len(s) - 1) : RemoveAt(s, k)[j] = IF j < k THEN s[j] ELSE s[j + 1]
<1>1. Len(s) \in Nat /\ \A j \in 1..Len(s) : s[j] \in S OBVIOUS
<1>2. PICK m \in Nat : m = Len(s) - 1 BY <1>1
<1>3. PICK r : r = [j \in 1..m |-> IF j < k THEN s[j] ELSE s[j + 1]] BY Zenon
<1>4. r \in [1..m -> S] BY <1>1, <1>2, <1>3
<1>5. r \in Seq(S) /\ Len(r) = m BY <1>4
<1>6. RemoveAt(s, k) = r BY <1>2, <1>3, Zenon DEF RemoveAt
<1> QED BY <1>2, <1>3, <1>5, <1>6

\* delete_ec_shard takes the node out of the list and leaves the others.
LEMMA WithoutFacts ==
  ASSUME NEW list \in Seq(Nodes), NEW n \in Nodes, IsInjective(list)
  PROVE  /\ Without(list, n) \in Seq(Nodes) /\ IsInjective(Without(list, n))
         /\ \A k \in 1..Len(Without(list, n)) : \E j \in 1..Len(list) : Without(list, n)[k] = list[j]
         /\ \A m : m # n /\ Contains(list, m) => Contains(Without(list, n), m)
<1>1. CASE ~\E k \in DOMAIN list : list[k] = n
  BY <1>1 DEF Without
<1>2. CASE \E k \in DOMAIN list : list[k] = n
  <2> DEFINE k == CHOOSE k \in DOMAIN list : list[k] = n /\ \A j \in 1..(k - 1) : list[j] # n
  <2>1. Len(list) \in Nat /\ DOMAIN list = 1..Len(list) OBVIOUS
  <2>2. \E x \in DOMAIN list : list[x] = n /\ \A j \in 1..(x - 1) : list[j] # n
    BY <1>2, <2>1 DEF IsInjective
  <2>3. k \in 1..Len(list) /\ list[k] = n BY <2>1, <2>2
  <2>4. Without(list, n) = RemoveAt(list, k) BY <1>2 DEF Without
  <2> HIDE DEF k
  <2>5. PICK r : r = RemoveAt(list, k) OBVIOUS
  <2>6. /\ r \in Seq(Nodes) /\ Len(r) = Len(list) - 1
        /\ \A j \in 1..(Len(list) - 1) : r[j] = IF j < k THEN list[j] ELSE list[j + 1]
    BY Zenon, <2>3, <2>5, RemoveAtFacts
  <2>7. DOMAIN r = 1..(Len(list) - 1) BY <2>6
  <2>8. IsInjective(r)
    <3> SUFFICES ASSUME NEW x \in 1..(Len(list) - 1), NEW y \in 1..(Len(list) - 1), r[x] = r[y] PROVE x = y
      BY <2>7 DEF IsInjective
    <3>1. PICK x1 \in 1..Len(list) : x1 = IF x < k THEN x ELSE x + 1 BY <2>1, <2>3
    <3>2. PICK y1 \in 1..Len(list) : y1 = IF y < k THEN y ELSE y + 1 BY <2>1, <2>3
    <3>3. list[x1] = list[y1] BY <2>6, <3>1, <3>2
    <3>4. x1 = y1 BY <2>1, <3>3 DEF IsInjective
    <3> QED BY <2>3, <3>1, <3>2, <3>4
  <2>9. \A j \in 1..Len(r) : \E i \in 1..Len(list) : r[j] = list[i] BY <2>1, <2>3, <2>6
  <2>10. ASSUME NEW m, m # n, Contains(list, m) PROVE Contains(r, m)
    <3>1. PICK i \in 1..Len(list) : list[i] = m BY <2>10 DEF Contains
    <3>2. CASE i < k BY <2>1, <2>3, <2>6, <3>1, <3>2 DEF Contains
    <3>3. CASE i > k
      <4>1. i - 1 \in 1..Len(r) /\ r[i - 1] = m BY <2>1, <2>3, <2>6, <3>1, <3>3
      <4> QED BY <4>1 DEF Contains
    <3> QED BY <2>3, <2>10, <3>1, <3>2, <3>3
  <2> QED BY <2>4, <2>5, <2>6, <2>8, <2>9, <2>10
<1> QED BY <1>1, <1>2

(***************************************************************************)
(* Registering and unregistering                                           *)
(***************************************************************************)
\* The locations of one volume are replaced by sound ones.
LEMMA LocationsStep ==
  ASSUME IInv, NEW v \in Vids, NEW L \in Lists, locations' = [locations EXCEPT ![v] = L],
         \A i \in ShardIds : Sound(L[i], v, i), UNCHANGED reported,
         listed' = listed \/ listed' = listed \cup {v},
         v \notin listed' => \A i \in ShardIds : L[i] = <<>>
  PROVE  locations' \in [Vids -> Lists] /\ LocationsInv'
<1>1. /\ locations' \in [Vids -> Lists] /\ locations'[v] = L
      /\ \A w \in Vids \ {v} : locations'[w] = locations[w]
  BY DEF IInv, TypeInv
<1>2. \A i \in ShardIds : Sound(L[i], v, i)' BY DEF Sound
<1>3. \A w \in Vids, i \in ShardIds : Sound(locations[w][i], w, i) /\ (w \notin listed => locations[w][i] = <<>>)
  BY DEF IInv, LocationsInv
<1> QED BY <1>1, <1>2, <1>3 DEF LocationsInv, Sound

\* The first of the volumes a stream has to register, and the others.
LEMMA PopFacts ==
  ASSUME IInv, NEW n \in Nodes, news[n] # <<>>
  PROVE  /\ Head(news[n]) \in Infos
         /\ Head(news[n]).vid \in Vids /\ Head(news[n]).bits \subseteq reported[n][Head(news[n]).vid]
         /\ Pop(news, n) \in [Nodes -> Seq(Infos)]
         /\ \A m \in Nodes : \A k \in 1..Len(Pop(news, n)[m]) :
              Pop(news, n)[m][k].bits \subseteq reported[m][Pop(news, n)[m][k].vid]
         /\ \A m \in Nodes \ {n} : Pop(news, n)[m] = news[m]
<1>1. news \in [Nodes -> Seq(Infos)] /\ news[n] \in Seq(Infos) BY DEF IInv, TypeInv
<1>2. Head(news[n]) \in Infos /\ Head(news[n]) = news[n][1] /\ 1 \in 1..Len(news[n]) BY <1>1
<1>3. Head(news[n]).vid \in Vids BY <1>2 DEF Infos
<1>4. Head(news[n]).bits \subseteq reported[n][Head(news[n]).vid] BY <1>2 DEF IInv, NewsInv
<1>5. PICK q \in Seq(Infos) : q = Tail(news[n])
  <2>1. Tail(news[n]) \in Seq(Infos) BY <1>1
  <2> QED BY <2>1, Zenon
<1>6. \A k \in 1..Len(q) : k + 1 \in 1..Len(news[n]) /\ q[k] = news[n][k + 1] BY <1>1, <1>5
<1>7. Pop(news, n) = [news EXCEPT ![n] = q] BY <1>5 DEF Pop
<1>8. PICK p : p = Pop(news, n) OBVIOUS
<1>9. p \in [Nodes -> Seq(Infos)] /\ p[n] = q /\ \A m \in Nodes \ {n} : p[m] = news[m] BY <1>1, <1>7, <1>8
<1>10. \A m \in Nodes : \A k \in 1..Len(p[m]) : p[m][k].bits \subseteq reported[m][p[m][k].vid]
  BY SMTT(30), <1>6, <1>9 DEF IInv, NewsInv
<1> QED BY <1>2, <1>3, <1>4, <1>8, <1>9, <1>10

\* register_ec_shards for a volume that has locations
LEMMA RegisterListedStep ==
  ASSUME IInv, NEW n \in Nodes, RegisterListed(n)
  PROVE  IInv'
<1>1. news[n] # <<>> /\ ~seen[n] /\ UNCHANGED <<node, listed, olds, seen, history>> /\ news' = Pop(news, n)
  BY DEF RegisterListed
<1>2. PICK e \in Infos : e = Head(news[n]) BY SMTT(30), <1>1, PopFacts
<1>3. e.vid \in Vids /\ e.bits \subseteq reported[n][e.vid] BY <1>1, <1>2, PopFacts
<1>4. PICK v \in Vids : v = e.vid BY <1>3
<1>5. PICK L : L = With(v, n, e) OBVIOUS
<1>6. locations' = [locations EXCEPT ![v] = L] /\ v \in listed BY <1>2, <1>4, <1>5, Zenon DEF RegisterListed
<1>7. ASSUME NEW i \in ShardIds
      PROVE  L[i] \in Seq(Nodes) /\ Sound(L[i], v, i)
  <2>1. locations[v][i] \in Seq(Nodes) BY DEF IInv, TypeInv, Lists
  <2>2. Sound(locations[v][i], v, i) BY DEF IInv, LocationsInv
  <2>3. CASE i \in e.bits
    <3>1. L[i] = Add(locations[v][i], n) BY <1>5, <2>3 DEF With, ShardIdsOf
    <3>2. i \in reported[n][v] BY <1>3, <1>4, <2>3
    <3>3. /\ L[i] \in Seq(Nodes) /\ IsInjective(L[i])
          /\ \A k \in 1..Len(L[i]) : L[i][k] = n \/ \E j \in 1..Len(locations[v][i]) : L[i][k] = locations[v][i][j]
      <4>1. IsInjective(locations[v][i]) BY <2>2 DEF Sound
      <4>2. PICK list \in Seq(Nodes) : list = locations[v][i] BY <2>1
      <4>3. PICK r : r = Add(list, n) OBVIOUS
      <4>4. IsInjective(list) BY <4>1, <4>2
      <4>5. /\ r \in Seq(Nodes) /\ IsInjective(r)
            /\ \A k \in 1..Len(r) : r[k] = n \/ \E j \in 1..Len(list) : r[k] = list[j]
        BY Zenon, <4>3, <4>4, AddFacts
      <4>6. L[i] = r BY <3>1, <4>2, <4>3
      <4> QED BY <4>2, <4>5, <4>6, ZenonT(30)
    <3> QED BY SMTT(30), <2>2, <3>2, <3>3 DEF Sound
  <2>4. CASE i \notin e.bits
    BY <1>5, <2>1, <2>2, <2>4 DEF With, ShardIdsOf
  <2> QED BY <2>3, <2>4
<1>8. L \in Lists
  <2>1. L = [i \in ShardIds |-> L[i]] BY <1>5 DEF With
  <2> QED BY <1>7, <2>1 DEF Lists
<1>9. locations' \in [Vids -> Lists] /\ LocationsInv' BY Zenon, <1>1, <1>6, <1>7, <1>8, LocationsStep DEF history
<1>10. TypeInv'
  <2>1. news' \in [Nodes -> Seq(Infos)] /\ \A m \in Nodes \ {n} : news'[m] = news[m] BY <1>1, PopFacts
  <2>2. \A m \in Nodes : seen'[m] => news'[m] # <<>> BY <1>1, <2>1 DEF IInv, TypeInv
  <2> QED BY <1>1, <1>9, <2>1, <2>2 DEF IInv, TypeInv, node, history
<1>11. NewsInv'
  <2>1. reported' = reported BY <1>1 DEF history
  <2>2. \A m \in Nodes : \A k \in 1..Len(news'[m]) : news'[m][k].bits \subseteq reported[m][news'[m][k].vid]
    BY <1>1, PopFacts, Zenon
  <2> QED BY <2>1, <2>2, Zenon DEF NewsInv
<1> QED BY <1>9, <1>10, <1>11 DEF IInv

\* register_ec_shards for a volume that had none
LEMMA RegisterNewStep ==
  ASSUME IInv, NEW n \in Nodes, RegisterNew(n)
  PROVE  IInv'
<1>1. seen[n] /\ UNCHANGED <<node, olds, history>> /\ news' = Pop(news, n) /\ seen' = [seen EXCEPT ![n] = FALSE]
  BY DEF RegisterNew
<1>2. news[n] # <<>> BY <1>1 DEF IInv, TypeInv
<1>3. PICK e \in Infos : e = Head(news[n]) BY <1>2, PopFacts
<1>4. e.vid \in Vids /\ e.bits \subseteq reported[n][e.vid] BY <1>2, <1>3, PopFacts
<1>5. PICK v \in Vids : v = e.vid BY <1>4
<1>6. PICK L : L = [i \in ShardIds |-> IF i \in ShardIdsOf(e) THEN <<n>> ELSE <<>>] BY Zenon
<1>7. locations' = [locations EXCEPT ![v] = L] /\ listed' = listed \cup {v}
  BY <1>3, <1>5, <1>6, Zenon DEF RegisterNew, Listed
<1>8. ASSUME NEW i \in ShardIds
      PROVE  L[i] \in Seq(Nodes) /\ Sound(L[i], v, i)
  <2>1. CASE i \in e.bits
    <3>1. L[i] = <<n>> BY <1>6, <2>1 DEF ShardIdsOf
    <3>2. i \in reported[n][v] BY <1>4, <1>5, <2>1
    <3> QED BY <3>1, <3>2 DEF Sound, IsInjective
  <2>2. CASE i \notin e.bits
    <3>1. L[i] = <<>> BY <1>6, <2>2 DEF ShardIdsOf
    <3> QED BY <3>1 DEF Sound, IsInjective
  <2> QED BY <2>1, <2>2
<1>9. L \in Lists
  <2>1. L = [i \in ShardIds |-> L[i]] BY <1>6
  <2> QED BY <1>8, <2>1 DEF Lists
<1>10. locations' \in [Vids -> Lists] /\ LocationsInv' BY Zenon, <1>1, <1>7, <1>8, <1>9, LocationsStep DEF history
<1>11. TypeInv'
  <2>1. news' \in [Nodes -> Seq(Infos)] /\ \A m \in Nodes \ {n} : news'[m] = news[m] BY <1>1, <1>2, PopFacts
  <2>2. seen' \in [Nodes -> BOOLEAN] /\ \A m \in Nodes : seen'[m] => news'[m] # <<>>
    BY <1>1, <2>1 DEF IInv, TypeInv
  <2> QED BY <1>1, <1>7, <1>10, <2>1, <2>2 DEF IInv, TypeInv, node, history
<1>12. NewsInv'
  <2>1. reported' = reported BY <1>1 DEF history
  <2>2. \A m \in Nodes : \A k \in 1..Len(news'[m]) : news'[m][k].bits \subseteq reported[m][news'[m][k].vid]
    BY <1>1, <1>2, PopFacts, ZenonT(30)
  <2> QED BY <2>1, <2>2, Zenon DEF NewsInv
<1> QED BY <1>10, <1>11, <1>12 DEF IInv

\* unregister_ec_shards
LEMMA UnregisterStep ==
  ASSUME IInv, NEW n \in Nodes, Unregister(n)
  PROVE  IInv'
<1>1. olds[n] # <<>> /\ UNCHANGED <<node, listed, news, seen, history>> /\ olds' = Pop(olds, n)
  BY DEF Unregister
<1>2. olds \in [Nodes -> Seq(Infos)] /\ olds[n] \in Seq(Infos) BY DEF IInv, TypeInv
<1>3. PICK e \in Infos : e = Head(olds[n]) BY <1>1, <1>2
<1>4. PICK v \in Vids : v = e.vid BY DEF Infos
<1>5. PICK L : L = [i \in ShardIds |-> IF i \in ShardIdsOf(e) /\ v \in listed
                                      THEN Without(locations[v][i], n) ELSE locations[v][i]] BY Zenon
<1>6. locations' = [locations EXCEPT ![v] = L] BY <1>3, <1>4, <1>5, Zenon DEF Unregister
<1>7. ASSUME NEW i \in ShardIds
      PROVE  /\ L[i] \in Seq(Nodes) /\ Sound(L[i], v, i)
             /\ v \notin listed => L[i] = <<>>
  <2>1. locations[v][i] \in Seq(Nodes) BY DEF IInv, TypeInv, Lists
  <2>2. Sound(locations[v][i], v, i) /\ (v \notin listed => locations[v][i] = <<>>) BY DEF IInv, LocationsInv
  <2>3. CASE i \in ShardIdsOf(e) /\ v \in listed
    <3>1. L[i] = Without(locations[v][i], n) BY <1>5, <2>3
    <3>2. /\ L[i] \in Seq(Nodes) /\ IsInjective(L[i])
          /\ \A k \in 1..Len(L[i]) : \E j \in 1..Len(locations[v][i]) : L[i][k] = locations[v][i][j]
      <4>1. IsInjective(locations[v][i]) BY <2>2 DEF Sound
      <4>2. PICK list \in Seq(Nodes) : list = locations[v][i] BY <2>1
      <4>3. PICK r : r = Without(list, n) OBVIOUS
      <4>4. IsInjective(list) BY <4>1, <4>2
      <4>5. /\ r \in Seq(Nodes) /\ IsInjective(r)
            /\ \A k \in 1..Len(r) : \E j \in 1..Len(list) : r[k] = list[j]
        BY Zenon, <4>3, <4>4, WithoutFacts
      <4>6. L[i] = r BY <3>1, <4>2, <4>3
      <4> QED BY <4>2, <4>5, <4>6, Zenon
    <3> QED BY <2>2, <2>3, <3>2 DEF Sound
  <2>4. CASE ~(i \in ShardIdsOf(e) /\ v \in listed)
    BY <1>5, <2>1, <2>2, <2>4
  <2> QED BY <2>3, <2>4
<1>8. L \in Lists
  <2>1. L = [i \in ShardIds |-> L[i]] BY <1>5
  <2> QED BY <1>7, <2>1 DEF Lists
<1>9. locations' \in [Vids -> Lists] /\ LocationsInv' BY Zenon, <1>1, <1>6, <1>7, <1>8, LocationsStep DEF history
<1>10. olds' \in [Nodes -> Seq(Infos)]
  <2>1. Tail(olds[n]) \in Seq(Infos) BY <1>1, <1>2
  <2> QED BY <1>1, <1>2, <2>1 DEF Pop
<1>11. TypeInv' BY <1>1, <1>9, <1>10 DEF IInv, TypeInv, node, history
<1>12. NewsInv' BY <1>1 DEF IInv, NewsInv, history
<1> QED BY <1>9, <1>11, <1>12 DEF IInv

\* The locations of a node change only through its own stream, unless a stream that saw
\* no locations of a volume inserts its own after another one.
LEMMA OthersStep ==
  ASSUME IInv, Next, ~Overtaken, NEW n \in Nodes, news'[n] = news[n], olds'[n] = olds[n],
         NEW v \in Vids, NEW i \in ShardIds, Has(v, i, n)
  PROVE  Has(v, i, n)'
<1>1. PICK m \in Nodes :
        \/ \E w \in Vids, j \in ShardIds : NewShard(m, w, j) \/ DeletedShard(m, w, j)
        \/ \E r \in Reports : FullReport(m, r)
        \/ Reconnect(m) \/ RegisterListed(m) \/ SeesNone(m) \/ RegisterNew(m) \/ Unregister(m)
  BY Zenon DEF Next
<1>2. CASE locations' = locations BY <1>2 DEF Has
<1>3. locations \in [Vids -> Lists] /\ locations[v] \in Lists /\ locations[v][i] \in Seq(Nodes)
  BY DEF IInv, TypeInv, Lists
<1>4. IsInjective(locations[v][i]) BY DEF IInv, LocationsInv, Sound
<1>5. CASE RegisterListed(m)
  <2>1. PICK e : e = Head(news[m]) OBVIOUS
  <2>2. locations' = [locations EXCEPT ![e.vid] = With(e.vid, m, e)] BY <1>5, <2>1, Zenon DEF RegisterListed
  <2>3. CASE e.vid # v BY <1>3, <2>2, <2>3 DEF Has
  <2>4. CASE e.vid = v
    <3>1. locations'[v][i] = locations[v][i] \/ locations'[v][i] = Add(locations[v][i], m)
      BY <1>3, <2>2, <2>4 DEF With
    <3>2. Contains(Add(locations[v][i], m), n) BY <1>3, <1>4, AddFacts, Zenon DEF Has
    <3> QED BY SMTT(30), <3>1, <3>2 DEF Has
  <2> QED BY <2>3, <2>4
<1>6. CASE RegisterNew(m)
  <2>1. PICK w : w = Head(news[m]).vid OBVIOUS
  <2>2. w \notin listed BY SMTT(30), <1>6, <2>1 DEF RegisterNew, Overtaken
  <2>3. w # v
    <3>1. ASSUME v \notin listed PROVE FALSE
      <4>1. locations[v][i] = <<>> BY <3>1 DEF IInv, LocationsInv
      <4>2. Len(locations[v][i]) = 0 BY SMTT(30), <4>1
      <4> QED BY <4>2 DEF Has, Contains
    <3> QED BY <2>2, <3>1
  <2>4. locations'[v] = locations[v] BY SMTT(30), <1>3, <1>6, <2>1, <2>3 DEF RegisterNew
  <2> QED BY <2>4 DEF Has
<1>7. CASE Unregister(m)
  <2>1. olds[m] # <<>> /\ olds' = Pop(olds, m) /\ olds[m] \in Seq(Infos) BY SMTT(30), <1>7 DEF Unregister, IInv, TypeInv
  <2>2. olds'[m] = Tail(olds[m]) BY SMTT(30), <2>1 DEF Pop, IInv, TypeInv
  <2>3. m # n
    <3>1. Len(Tail(olds[m])) # Len(olds[m]) BY SMTT(30), <2>1
    <3> QED BY ZenonT(30), <2>2, <3>1
  <2>4. PICK w : w = Head(olds[m]).vid BY Zenon
  <2>5. CASE w # v
    <3>1. locations'[v] = locations[v] BY SMTT(30), <1>3, <1>7, <2>4, <2>5 DEF Unregister
    <3> QED BY <3>1 DEF Has
  <2>6. CASE w = v
    <3>1. locations'[v][i] = locations[v][i] \/ locations'[v][i] = Without(locations[v][i], m)
      BY <1>3, <1>7, <2>4, <2>6 DEF Unregister
    <3>2. Contains(Without(locations[v][i], m), n) BY <1>3, <1>4, <2>3, WithoutFacts, Zenon DEF Has
    <3> QED BY <3>1, <3>2 DEF Has
  <2> QED BY SMTT(30), <2>5, <2>6
<1> QED BY <1>1, <1>2, <1>5, <1>6, <1>7, ZenonT(30) DEF NewShard, DeletedShard, FullReport, Reconnect, SeesNone

(***************************************************************************)
(* Messages                                                                *)
(***************************************************************************)
\* A message adds to what its server has reported.
LEMMA MessageFacts ==
  ASSUME TypeInv, NEW n \in Nodes, NEW r \in [Vids -> SUBSET ShardIds], Message(n, r)
  PROVE  /\ reported' \in [Nodes -> [Vids -> SUBSET ShardIds]]
         /\ \A m \in Nodes, v \in Vids : reported[m][v] \subseteq reported'[m][v]
         /\ \A v \in Vids : r[v] \subseteq reported'[n][v]
         /\ news[n] = <<>>
<1>1. PICK t : t = [v \in Vids |-> reported[n][v] \cup r[v]] BY Zenon
<1>2. reported \in [Nodes -> [Vids -> SUBSET ShardIds]] BY DEF TypeInv
<1>3. t \in [Vids -> SUBSET ShardIds] /\ \A v \in Vids : t[v] = reported[n][v] \cup r[v] BY <1>1, <1>2
<1>4. reported' = [reported EXCEPT ![n] = t] BY <1>1, Zenon DEF Message
<1> QED BY <1>2, <1>3, <1>4 DEF Message, Idle

\* A message gives its stream volumes to register that its server has reported.
LEMMA ReportStep ==
  ASSUME IInv, NEW n \in Nodes, NEW r \in [Vids -> SUBSET ShardIds], Message(n, r),
         NEW q \in Seq(Infos), NEW o \in Seq(Infos),
         news' = [news EXCEPT ![n] = q], olds' = [olds EXCEPT ![n] = o],
         \A k \in 1..Len(q) : q[k].bits \subseteq reported'[n][q[k].vid],
         known' \in [Nodes -> SUBSET Vids], UNCHANGED <<listed, locations, seen>>
  PROVE  IInv'
<1>1. /\ reported' \in [Nodes -> [Vids -> SUBSET ShardIds]]
      /\ \A m \in Nodes, v \in Vids : reported[m][v] \subseteq reported'[m][v]
      /\ news[n] = <<>>
  BY MessageFacts DEF IInv
<1>2. TypeInv' BY Zenon, <1>1 DEF IInv, TypeInv
<1>3. NewsInv'
  <2>1. ASSUME NEW m \in Nodes, m # n, NEW k \in 1..Len(news[m])
        PROVE  news[m][k].bits \subseteq reported'[m][news[m][k].vid]
    <3>1. news[m] \in Seq(Infos) BY DEF IInv, TypeInv
    <3>2. news[m][k] \in Infos BY <3>1
    <3>3. news[m][k].vid \in Vids BY <3>2 DEF Infos
    <3> QED BY Zenon, <1>1, <3>3 DEF IInv, NewsInv
  <2>2. news'[n] = q /\ \A m \in Nodes \ {n} : news'[m] = news[m] BY DEF IInv, TypeInv
  <2> QED BY <2>1, <2>2 DEF NewsInv
<1>4. LocationsInv'
  <2>1. ASSUME NEW v \in Vids, NEW i \in ShardIds, NEW k \in 1..Len(locations[v][i])
        PROVE  i \in reported'[locations[v][i][k]][v]
    <3>1. locations[v][i] \in Seq(Nodes) BY DEF IInv, TypeInv, Lists
    <3>2. locations[v][i][k] \in Nodes BY <3>1
    <3> QED BY Zenon, <1>1, <3>2 DEF IInv, LocationsInv, Sound
  <2> QED BY <2>1 DEF IInv, LocationsInv, Sound
<1> QED BY <1>2, <1>3, <1>4 DEF IInv

INSTANCE FiniteSetTheorems

\* The elements of a finite set, in a sequence.
LEMMA SetToSeqFacts ==
  ASSUME NEW S, IsFiniteSet(S)
  PROVE  SetToSeq(S) \in Seq(S)
<1>1. Cardinality(S) \in Nat /\ ExistsBijection(1..Cardinality(S), S) BY FS_CardinalityType
<1>2. \E f \in [1..Cardinality(S) -> S] : IsInjective(f)
  BY <1>1 DEF ExistsBijection, Bijection, Injection, IsInjective
<1>3. SetToSeq(S) \in [1..Cardinality(S) -> S] BY <1>2 DEF SetToSeq
<1> QED BY <1>1, <1>3

\* Volumes whose shards have been counted, in a sequence: nothing is left of the shards.
LEMMA CountedFacts ==
  ASSUME NEW W \in SUBSET Vids
  PROVE  LET q == SetToSeq({Counted(v) : v \in W}) IN
         q \in Seq(Infos) /\ \A k \in 1..Len(q) : q[k].bits = {}
<1> DEFINE T == {Counted(v) : v \in W}
           f == [v \in W |-> Counted(v)]
<1>1. IsFiniteSet(W) BY RegistryAssumption, FS_Subset
<1>2. f \in Surjection(W, T) BY DEF Surjection
<1>3. IsFiniteSet(T) BY <1>1, <1>2, FS_Surjection
<1>4. \A t \in T : t \in Infos /\ t.bits = {} BY DEF Counted, Info, Infos
<1>5. SetToSeq(T) \in Seq(T) BY <1>3, SetToSeqFacts
<1>6. PICK q : q = SetToSeq(T) OBVIOUS
<1> HIDE DEF T, f
<1>7. q \in Seq(T) BY <1>5, <1>6
<1>8. Len(q) \in Nat /\ \A k \in 1..Len(q) : q[k] \in T BY <1>7
<1>9. q \in Seq(Infos) BY <1>4, <1>7, <1>8
<1> QED BY Zenon, <1>4, <1>6, <1>8, <1>9 DEF T

\* What a full report leaves to register and to unregister.
LEMMA ReportFacts ==
  ASSUME TypeInv, NEW n \in Nodes, NEW r \in Reports
  PROVE  /\ NewOf(n, r) \in Seq(Infos) /\ OldOf(n, r) \in Seq(Infos)
         /\ \A k \in 1..Len(NewOf(n, r)) : NewOf(n, r)[k].bits = {}
<1> DEFINE had == {v \in known[n] : r[v] # {}}
           W == {w \in had : r[w] \ bits[n][w] # {}}
           U == {w \in known[n] : bits[n][w] \ r[w] # {} \/ r[w] = {}}
           a == SetToSeq({Counted(v) : v \in W})
           b == SetToSeq({Counted(v) : v \in had})
<1>1. W \subseteq Vids /\ had \subseteq Vids /\ U \subseteq Vids BY DEF TypeInv
<1>2. NewOf(n, r) = a \o b BY DEF NewOf
<1>3. OldOf(n, r) = SetToSeq({Counted(v) : v \in U}) BY DEF OldOf
<1> HIDE DEF had, W, U
<1>4. OldOf(n, r) \in Seq(Infos) BY <1>1, <1>3, CountedFacts, Zenon
<1>5. a \in Seq(Infos) /\ \A k \in 1..Len(a) : a[k].bits = {} BY <1>1, CountedFacts, Zenon
<1>6. b \in Seq(Infos) /\ \A k \in 1..Len(b) : b[k].bits = {} BY <1>1, CountedFacts, Zenon
<1> HIDE DEF a, b
<1>7. /\ a \o b \in Seq(Infos) /\ Len(a \o b) = Len(a) + Len(b)
      /\ \A j \in 1..(Len(a) + Len(b)) : (a \o b)[j] = IF j <= Len(a) THEN a[j] ELSE b[j - Len(a)]
  BY <1>5, <1>6
<1>8. PICK c : c = a \o b BY Zenon
<1>9. Len(a) \in Nat /\ Len(b) \in Nat BY <1>5, <1>6
<1>10. \A k \in 1..Len(c) : c[k].bits = {}
  <2> SUFFICES ASSUME NEW k \in 1..Len(c) PROVE c[k].bits = {} OBVIOUS
  <2>1. k \in 1..(Len(a) + Len(b)) /\ c[k] = IF k <= Len(a) THEN a[k] ELSE b[k - Len(a)] BY <1>7, <1>8, Zenon
  <2>2. CASE k <= Len(a)
    <3>1. k \in 1..Len(a) BY <1>9, <2>1, <2>2
    <3> QED BY <1>5, <2>1, <2>2, <3>1, Zenon
  <2>3. CASE ~(k <= Len(a))
    <3>1. k - Len(a) \in 1..Len(b) BY <1>9, <2>1, <2>3
    <3> QED BY <1>6, <2>1, <2>3, <3>1, Zenon
  <2> QED BY <2>2, <2>3
<1> QED BY <1>2, <1>4, <1>7, <1>8, <1>10

\* Every kind of message.
LEMMA MessageSteps ==
  ASSUME IInv, NEW n \in Nodes,
         \/ \E v \in Vids, i \in ShardIds : NewShard(n, v, i) \/ DeletedShard(n, v, i)
         \/ \E r \in Reports : FullReport(n, r)
         \/ Reconnect(n)
  PROVE  IInv'
<1>1. TypeInv BY DEF IInv
<1>2. news[n] \in Seq(Infos) /\ olds[n] \in Seq(Infos) /\ known[n] \subseteq Vids BY <1>1 DEF TypeInv
<1>3. news = [news EXCEPT ![n] = news[n]] /\ olds = [olds EXCEPT ![n] = olds[n]] BY <1>1 DEF TypeInv
<1>4. None \in [Vids -> SUBSET ShardIds] BY DEF None
<1>5. \A k \in 1..Len(news[n]) : news[n][k].bits \subseteq reported[n][news[n][k].vid] BY DEF IInv, NewsInv
<1>6. ASSUME NEW r \in [Vids -> SUBSET ShardIds], Message(n, r)
      PROVE  \A k \in 1..Len(news[n]) : news[n][k].bits \subseteq reported'[n][news[n][k].vid]
  <2>1. news[n] = <<>> BY <1>1, <1>6, MessageFacts
  <2>2. Len(news[n]) = 0 BY <2>1
  <2> QED BY <2>2
<1>7. ASSUME NEW v \in Vids, NEW i \in ShardIds, NewShard(n, v, i) PROVE IInv'
  <2>1. PICK r \in [Vids -> SUBSET ShardIds] : r = [None EXCEPT ![v] = {i}] BY Zenon, <1>4
  <2>2. r[v] = {i} BY <1>4, <2>1
  <2>3. Message(n, r) BY <1>7, <2>1, Zenon DEF NewShard
  <2>4. PICK e : e = Info(v, IF v \in known[n] THEN {i} ELSE {}) OBVIOUS
  <2>5. e \in Infos /\ e.vid = v /\ e.bits \subseteq {i} BY <2>4 DEF Info, Infos
  <2>6. PICK q : q = <<e>> BY Zenon
  <2>7. q \in Seq(Infos) /\ Len(q) = 1 /\ q[1] = e BY <2>5, <2>6
  <2>8. {i} \subseteq reported'[n][v] BY <1>1, <2>2, <2>3, MessageFacts
  <2>9. \A k \in 1..Len(q) : q[k].bits \subseteq reported'[n][q[k].vid] BY <2>5, <2>7, <2>8
  <2>10. news' = [news EXCEPT ![n] = q] BY <1>7, <2>4, <2>6, Zenon DEF NewShard
  <2>11. olds' = [olds EXCEPT ![n] = olds[n]] /\ UNCHANGED <<listed, locations, seen>> BY <1>3, <1>7 DEF NewShard
  <2>12. known' \in [Nodes -> SUBSET Vids] BY <1>1, <1>7 DEF NewShard, AddOrUpdate, TypeInv
  <2> QED BY Zenon, <1>2, <2>3, <2>7, <2>9, <2>10, <2>11, <2>12, ReportStep
<1>8. ASSUME NEW v \in Vids, NEW i \in ShardIds, DeletedShard(n, v, i) PROVE IInv'
  <2>1. Message(n, None) BY <1>8 DEF DeletedShard
  <2>2. PICK o : o = <<Info(v, {i})>> BY Zenon
  <2>3. o \in Seq(Infos) BY <2>2 DEF Info, Infos
  <2>4. olds' = [olds EXCEPT ![n] = o] BY <1>8, <2>2, Zenon DEF DeletedShard
  <2>5. news' = [news EXCEPT ![n] = news[n]] /\ UNCHANGED <<listed, locations, seen>> BY <1>3, <1>8 DEF DeletedShard
  <2>6. known' \in [Nodes -> SUBSET Vids] BY <1>1, <1>8 DEF DeletedShard, TypeInv
  <2> QED BY Zenon, <1>2, <1>4, <1>6, <2>1, <2>3, <2>4, <2>5, <2>6, ReportStep
<1>9. ASSUME NEW r \in Reports, FullReport(n, r) PROVE IInv'
  <2>1. r \in [Vids -> SUBSET ShardIds] BY RegistryAssumption
  <2>2. Message(n, r) BY <1>9 DEF FullReport
  <2>3. /\ NewOf(n, r) \in Seq(Infos) /\ OldOf(n, r) \in Seq(Infos)
        /\ \A k \in 1..Len(NewOf(n, r)) : NewOf(n, r)[k].bits \subseteq reported'[n][NewOf(n, r)[k].vid]
    BY <1>1, ReportFacts
  <2>4. /\ news' = [news EXCEPT ![n] = NewOf(n, r)] /\ olds' = [olds EXCEPT ![n] = OldOf(n, r)]
        /\ UNCHANGED <<listed, locations, seen>>
    BY <1>9 DEF FullReport
  <2>5. known' = known \/ known' = [known EXCEPT ![n] = {v \in Vids : r[v] # {}}]
    BY <1>9, Zenon DEF FullReport, UpdateEcShards, node
  <2>6. known' \in [Nodes -> SUBSET Vids] BY Zenon, <1>1, <2>5 DEF TypeInv
  <2> QED BY Zenon, <2>1, <2>2, <2>3, <2>4, <2>6, ReportStep
<1>10. CASE Reconnect(n)
  <2>1. Message(n, None) BY <1>10 DEF Reconnect
  <2>2. /\ news' = [news EXCEPT ![n] = news[n]] /\ olds' = [olds EXCEPT ![n] = olds[n]]
        /\ UNCHANGED <<listed, locations, seen>>
    BY <1>3, <1>10 DEF Reconnect
  <2>3. known' \in [Nodes -> SUBSET Vids] BY <1>1, <1>10 DEF Reconnect, TypeInv
  <2> QED BY Zenon, <1>2, <1>4, <1>6, <2>1, <2>2, <2>3, ReportStep
<1> QED BY <1>7, <1>8, <1>9, <1>10

(***************************************************************************)
(* The theorems                                                            *)
(***************************************************************************)
\* The invariant holds at the start, ...
LEMMA InvInit == Init => IInv
<1> SUFFICES ASSUME Init PROVE IInv OBVIOUS
<1>1. None \in [Vids -> SUBSET ShardIds] BY DEF None
<1>2. /\ <<>> \in Seq(Infos) /\ <<>> \in Seq(Nodes) /\ Len(<<>>) = 0
      /\ \A v, i : Sound(<<>>, v, i)
  BY DEF Sound, IsInjective
<1>3. TypeInv BY <1>1, <1>2 DEF Init, TypeInv, Lists
<1>4. NewsInv BY <1>2 DEF Init, NewsInv
<1>5. LocationsInv BY <1>2 DEF Init, LocationsInv
<1> QED BY <1>3, <1>4, <1>5 DEF IInv

\* ... and every step keeps it.
LEMMA InvStep == IInv /\ [Next]_vars => IInv'
<1> SUFFICES ASSUME IInv, [Next]_vars PROVE IInv' OBVIOUS
<1>1. ASSUME NEW n \in Nodes, SeesNone(n) PROVE IInv'
  <2>1. TypeInv' BY SMTT(30), <1>1 DEF SeesNone, IInv, TypeInv, node, history
  <2>2. NewsInv' /\ LocationsInv' BY SMTT(30), <1>1 DEF SeesNone, IInv, NewsInv, LocationsInv, Sound, history
  <2> QED BY <2>1, <2>2 DEF IInv
<1>2. CASE UNCHANGED vars
  BY <1>2 DEF vars, node, history, IInv, TypeInv, NewsInv, LocationsInv, Sound
<1> QED BY <1>1, <1>2, MessageSteps, RegisterListedStep, RegisterNewStep, UnregisterStep, Zenon DEF Next

\* The invariant holds in every behaviour.
LEMMA InvHolds == Spec => []IInv
BY InvInit, InvStep, PTL DEF Spec

\* No node is ever listed twice for a shard (add_ec_shard looks for it first, and
\* locations that are inserted anew have one node at most).
THEOREM NoneTwice == Spec => []OncePerNode
<1>1. IInv => OncePerNode
  BY DEF IInv, LocationsInv, Sound, OncePerNode, Lookup, IsInjective
<1> QED BY <1>1, InvHolds, PTL

\* A node that is listed for a shard has reported it.
THEOREM ListedReported == Spec => []OnlyReported
<1>1. ASSUME IInv PROVE OnlyReported
  <2> SUFFICES ASSUME NEW v \in Vids, NEW i \in ShardIds, NEW k \in DOMAIN Lookup(v, i)
               PROVE  i \in reported[Lookup(v, i)[k]][v]
    BY DEF OnlyReported
  <2>1. locations[v][i] \in Seq(Nodes) BY <1>1 DEF IInv, TypeInv, Lists
  <2>2. Lookup(v, i) = locations[v][i] BY <1>1 DEF Lookup, IInv, LocationsInv
  <2>3. k \in 1..Len(locations[v][i]) BY <2>1, <2>2
  <2> QED BY <1>1, <2>2, <2>3 DEF IInv, LocationsInv, Sound
<1> QED BY <1>1, InvHolds, PTL

\* No stream takes away what another has registered.
THEOREM OthersKept == Spec => KeepsOthers
<1>1. ASSUME IInv, [Next]_vars
      PROVE  [\A n \in Nodes : ~Overtaken /\ <<news[n], olds[n]>> = <<news[n], olds[n]>>'
                => \A v \in Vids, i \in ShardIds : Has(v, i, n) => Has(v, i, n)']_vars
  BY <1>1, OthersStep
<1> QED BY <1>1, InvHolds, PTL DEF Spec, KeepsOthers

=============================================================================
