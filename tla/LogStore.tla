-------------------------------- MODULE LogStore --------------------------------
(***************************************************************************)
(* The Raft log of a master, kept in memory: a map from indexes to entries,*)
(* and the last index that was purged.  The calls are those of openraft,   *)
(* which asks for the state of the log, appends after its last entry,      *)
(* cuts it where it differs from the leader's, and purges what a snapshot  *)
(* covers, also beyond the end when the snapshot came from the leader.     *)
(* A restart makes a new, empty log.                                       *)
(***************************************************************************)
EXTENDS Integers, Sequences, FiniteSets

CONSTANTS Entries,
          MaxIndex   \* bound on the indexes

ASSUME LogStoreAssumption == MaxIndex \in Nat

VARIABLES log,     \* index -> entry
          purged   \* last_purged_log_id, -1 for none

logVars == <<log, purged>>

\* No entry and no purged id.
NoLog == [i \in {} |-> 0]
LogInit == log = NoLog /\ purged = -1

Indexes == DOMAIN log

\* The largest index of d, or none.
LastOf(d, none) == IF d = {} THEN none ELSE CHOOSE i \in d : \A j \in d : j <= i

\* get_log_state: the last entry, or the last purged one
LastLogId == LastOf(Indexes, purged)

Insert(i, e) == [j \in Indexes \cup {i} |-> IF j = i THEN e ELSE log[j]]
Keep(kept) == [j \in kept |-> log[j]]

\* append, of one entry: several are appended one after the other
AppendEntry(e) ==
  /\ LastLogId < MaxIndex
  /\ log' = Insert(LastLogId + 1, e) /\ UNCHANGED purged

\* truncate: range(log_id.index..) is removed
Below(i) == {j \in Indexes : j < i}

Truncate(i) ==
  /\ purged < i /\ i <= LastLogId
  /\ log' = Keep(Below(i)) /\ UNCHANGED purged

\* Variant: the entry with the index stays.
AboveOrAt(i) == {j \in Indexes : j >= i}
\* Variant: a purge clears the log.
AboveNone(i) == {}
\* purge: range(..=log_id.index) is removed
Above(i) == {j \in Indexes : j > i}

Purge(i) ==
  /\ purged <= i
  /\ purged' = i /\ log' = Keep(Above(i))

LogNext ==
  \/ \E e \in Entries : AppendEntry(e)
  \/ \E i \in 0..MaxIndex : Truncate(i) \/ Purge(i)

LogSpec == LogInit /\ [][LogNext]_logVars

-----------------------------------------------------------------------------
(* Properties *)

\* The log has no hole and begins after the last purged entry, so that a range of it that
\* is read (try_get_log_entries) has an entry for every index.
NoHoles == Indexes = (purged + 1)..LastLogId

Contents == [k \in 1..(LastLogId - purged) |-> log[purged + k]]
Abstract == INSTANCE RaftLog WITH first <- purged + 1, entries <- Contents

\* The map and the purged id behave like a log: every call does to the sequence of the
\* entries what its name says.
ImplementsLog == Abstract!Spec
=============================================================================
