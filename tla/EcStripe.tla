------------------------------ MODULE EcStripe ------------------------------
(***************************************************************************)
(* The files of an erasure coded volume in one directory: writing the      *)
(* shards of a .dat file, rebuilding missing shards, locating a needle in  *)
(* the shards and writing the .dat file back.                              *)
(*                                                                         *)
(* Byte number o of the .dat file is the number o.  The k-th bytes of all  *)
(* shards form a codeword of the Reed-Solomon code, any DataShards of them *)
(* determine it; a shard file is the sequence of the codewords it holds a  *)
(* symbol of, and the symbol of data shard s is the s-th of the bytes that *)
(* are coded.                                                              *)
(***************************************************************************)
EXTENDS Integers, Sequences, FiniteSets

CONSTANTS DataShards, ParityShards,
          LargeBlock, SmallBlock, Buffer,   \* sizes in bytes
          Sizes,                            \* bound: sizes of the .dat file
          MaxLost,                          \* bound on the shard files lost
          MaxCrashes                        \* bound on the number of crashes

ASSUME StripeAssumption ==
  /\ {DataShards, ParityShards, LargeBlock, SmallBlock, Buffer} \subseteq Nat \ {0}
  /\ SmallBlock % Buffer = 0 /\ LargeBlock % SmallBlock = 0 /\ SmallBlock < LargeBlock
  /\ Sizes \subseteq Nat \ {0} /\ MaxLost \in Nat /\ MaxCrashes \in Nat

VARIABLES size,       \* of the .dat file
          have,       \* shards that have a file
          file,       \* shard -> codewords
          coded,      \* history: what the shards held when they had been written
          pc, result, \* what is under way, and how the last rebuild ended
          processed, block, batch, \* encoder: offset of the row, its block size, its batch
          input,      \* rebuild: shards that have data
          start, unit,\* rebuild: offset and bytes per round
          lost, crashes

encoder == <<processed, block, batch>>
rebuild == <<input, start, unit>>
vars == <<size, have, file, coded, pc, result, encoder, rebuild, lost, crashes>>

Shards == 0..(DataShards + ParityShards - 1)
LargeRow == LargeBlock * DataShards
SmallRow == SmallBlock * DataShards
Pad == -1
Least(a, b) == IF a < b THEN a ELSE b

Init ==
  /\ size \in Sizes
  /\ have = {} /\ file = [s \in Shards |-> <<>>] /\ coded = <<>>
  /\ pc = "volume" /\ result = "none"
  /\ processed = 0 /\ block = 0 /\ batch = 0
  /\ input = {} /\ start = 0 /\ unit = 0
  /\ lost = 0 /\ crashes = 0

-----------------------------------------------------------------------------
(* Writing the shards *)

\* encode_data_file: the size of the blocks of the next row.
BlockSize(remaining) == IF remaining > LargeRow THEN LargeBlock ELSE SmallBlock

\* generate_ec_files, open_ec_files: all shard files are created or truncated.
WriteEcFiles ==
  /\ pc = "volume"
  /\ have' = Shards /\ file' = [s \in Shards |-> <<>>]
  /\ pc' = "encode" /\ processed' = 0 /\ block' = BlockSize(size) /\ batch' = 0
  /\ UNCHANGED <<size, coded, result, rebuild, lost, crashes>>

\* encode_data_one_batch: what is read for each data shard, filled up with zeros.
Codewords(offset) ==
  [k \in 1..Buffer |-> [s \in 1..DataShards |->
     LET o == offset + (s - 1) * block + k - 1 IN IF o < size THEN o ELSE Pad]]

\* encode_data, one batch; after the last one of a row, encode_data_file goes on.
EncodeBatch ==
  LET more == Codewords(processed + batch * Buffer)
      next == processed + block * DataShards IN
  /\ pc = "encode"
  /\ file' = [s \in Shards |-> file[s] \o more]
  /\ IF batch + 1 < block \div Buffer
     THEN batch' = batch + 1 /\ UNCHANGED <<processed, block, pc, coded>>
     ELSE /\ batch' = 0 /\ processed' = next
          /\ block' = BlockSize(size - next)
          /\ pc' = IF size - next > 0 THEN "encode" ELSE "idle"
          /\ coded' = IF size - next > 0 THEN coded ELSE file'[0]
  /\ UNCHANGED <<size, have, result, rebuild, lost, crashes>>

-----------------------------------------------------------------------------
(* Rebuilding shards *)

\* A shard file is lost with its disk, or deleted by volume_ec_shards_delete.
LoseShard(s) ==
  /\ pc = "idle" /\ s \in have /\ lost < MaxLost
  /\ have' = have \ {s} /\ file' = [file EXCEPT ![s] = <<>>]
  /\ lost' = lost + 1 /\ result' = "none"
  /\ UNCHANGED <<size, coded, pc, encoder, rebuild, crashes>>

\* A lost shard is fetched from elsewhere.
FetchShard(s) ==
  /\ pc = "idle" /\ s \notin have
  /\ have' = have \cup {s} /\ file' = [file EXCEPT ![s] = coded]
  /\ result' = "none"
  /\ UNCHANGED <<size, coded, pc, encoder, rebuild, lost, crashes>>

\* generate_missing_ec_files: a file is created for each shard that has none.
Rebuild ==
  /\ pc = "idle"
  /\ input' = have /\ have' = Shards /\ start' = 0 /\ unit' = 0
  /\ pc' = "rebuild" /\ result' = "none"
  /\ UNCHANGED <<size, file, coded, encoder, lost, crashes>>

\* Bytes that a read_at of a block of the shard returns.
ReadAt(s) == IF start >= Len(file[s]) THEN 0 ELSE Least(SmallBlock, Len(file[s]) - start)

\* Variant: the end of the shards does not end the loop.
EndRebuildNever(r) == UNCHANGED <<pc, result, input, start, unit, file>>
\* rebuild_ec_files_inner returns.
EndRebuild(r) ==
  /\ pc' = "idle" /\ result' = r /\ input' = {} /\ start' = 0 /\ unit' = 0
  /\ UNCHANGED file

\* Variant: the offset is advanced once per buffer read and written.
AdvanceTwice(n) == start + 2 * n
Advance(n) == start + n

\* rebuild_ec_files_inner, one round: the shards are read in order, up to the first one
\* that is at its end or has another number of bytes; then the missing ones are
\* reconstructed, for which DataShards of them are needed.
RebuildRound ==
  LET first == CHOOSE s \in input : \A t \in input : s <= t
      n == IF unit = 0 /\ input # {} THEN ReadAt(first) ELSE unit
      odd == {s \in input : ReadAt(s) = 0 \/ ReadAt(s) # n}
      stop == CHOOSE s \in odd : \A t \in odd : s <= t IN
  /\ pc = "rebuild"
  /\ \/ odd # {} /\ EndRebuild(IF ReadAt(stop) = 0 THEN "ok" ELSE "error")
     \/ odd = {} /\ Cardinality(input) < DataShards /\ EndRebuild("error")
     \/ /\ odd = {} /\ Cardinality(input) >= DataShards
        /\ file' = [s \in Shards |-> IF s \in input THEN file[s]
                                     ELSE file[s] \o SubSeq(file[first], start + 1, start + n)]
        /\ start' = Advance(n) /\ unit' = n
        /\ UNCHANGED <<pc, result, input>>
  /\ UNCHANGED <<size, have, coded, encoder, lost, crashes>>

\* The server stops in the middle of an encoding or a rebuild and is started again.
Crash ==
  /\ pc \in {"encode", "rebuild"} /\ crashes < MaxCrashes
  /\ pc' = IF pc = "encode" THEN "volume" ELSE "idle"
  /\ processed' = 0 /\ block' = 0 /\ batch' = 0 /\ input' = {} /\ start' = 0 /\ unit' = 0
  /\ crashes' = crashes + 1 /\ result' = "none"
  /\ UNCHANGED <<size, have, file, coded, lost>>

-----------------------------------------------------------------------------
(* Locating a needle *)

\* locate_offset: block, whether it is a large one, offset in it
LocateOffset(dataSize, offset) ==
  LET rows == dataSize \div LargeRow
      o == offset - rows * LargeRow IN
  IF offset < rows * LargeRow
  THEN [block |-> offset \div LargeBlock, large |-> TRUE, inner |-> offset % LargeBlock]
  ELSE [block |-> o \div SmallBlock, large |-> FALSE, inner |-> o % SmallBlock]

\* locate_data: large_block_rows of the intervals
LargeBlockRows(dataSize) == (dataSize + SmallRow) \div LargeRow

\* Variant: the first small block is not the first block again.
BlockAfterOn(at, rows) == [block |-> at.block + 1, inner |-> 0,
                           large |-> at.large /\ at.block + 1 # rows * DataShards]
\* locate_data: the block after one
BlockAfter(at, rows) ==
  IF at.large /\ at.block + 1 = rows * DataShards
  THEN [block |-> 0, large |-> FALSE, inner |-> 0]
  ELSE [block |-> at.block + 1, large |-> at.large, inner |-> 0]

\* Interval::shard_id, Interval::offset
ShardId(at) == at.block % DataShards
Offset(at, rows) ==
  LET row == at.block \div DataShards IN
  at.inner + IF at.large THEN row * LargeBlock ELSE rows * LargeBlock + row * SmallBlock

\* What read_exact_at gives for n bytes of a shard; nothing beyond its end.
ReadShard(s, offset, n) ==
  IF offset + n > Len(coded) THEN <<>>
  ELSE [k \in 1..n |-> coded[offset + k][s + 1]]

\* locate_data, and the bytes of the intervals one after the other.
RECURSIVE ReadIntervals(_, _, _)
ReadIntervals(at, rows, n) ==
  LET there == (IF at.large THEN LargeBlock ELSE SmallBlock) - at.inner IN
  IF n <= there THEN ReadShard(ShardId(at), Offset(at, rows), n)
  ELSE ReadShard(ShardId(at), Offset(at, rows), there)
         \o ReadIntervals(BlockAfter(at, rows), rows, n - there)

\* locate_ec_shard_needle: the data size is taken from the size of a shard.
ReadNeedle(offset, n) ==
  LET dataSize == Len(coded) * DataShards IN
  ReadIntervals(LocateOffset(dataSize, offset), LargeBlockRows(dataSize), n)

-----------------------------------------------------------------------------
(* Writing the .dat file back *)

\* Variant: there are only small blocks.
DecodeBlockSmall(n) == SmallBlock
\* write_data_file: the size of the blocks of the next row.
DecodeBlock(n) == IF n >= LargeRow THEN LargeBlock ELSE SmallBlock

\* write_data_file: n bytes, the shards having been read up to pos.
RECURSIVE WriteDataFile(_, _)
WriteDataFile(n, pos) ==
  LET blk == DecodeBlock(n)
      row == [i \in 1..Least(n, blk * DataShards) |->
                coded[pos + ((i - 1) % blk) + 1][(i - 1) \div blk + 1]] IN
  IF n > 0 THEN row \o WriteDataFile(n - blk * DataShards, pos + blk) ELSE <<>>

-----------------------------------------------------------------------------

Next ==
  \/ WriteEcFiles \/ EncodeBatch \/ Rebuild \/ RebuildRound \/ Crash
  \/ \E s \in Shards : LoseShard(s) \/ FetchShard(s)

Spec == Init /\ [][Next]_vars /\ WF_vars(EncodeBatch) /\ WF_vars(RebuildRound)

-----------------------------------------------------------------------------
(* Properties *)

\* The shards have just been written; what was coded stays as it is afterwards.
Written == pc = "idle" /\ coded # <<>> /\ lost = 0 /\ result = "none"
Bytes(offset, n) == [k \in 1..n |-> offset + k - 1]
SmallRows == (Len(coded) % LargeBlock) \div SmallBlock

\* Every needle is read back from the shards as it was (locate_data and Interval::offset
\* against encode_data_file), whatever its offset and length and the blocks it crosses,
\* for volumes whose last, incomplete large row is at least two small rows short of one.
LocatesShort ==
  (Written /\ Len(coded) % LargeBlock # 0 /\ SmallRows + 1 < LargeBlock \div SmallBlock) =>
    \A o \in 0..(size - 1) : \A n \in 1..(size - o) : ReadNeedle(o, n) = Bytes(o, n)

\* The .dat file that is "generated from .ec00 ~ .ec13" is the one that was encoded, for
\* volumes that are not a whole number of large rows (write_data_file).
DecodesPartial == Written /\ size % LargeRow # 0 => WriteDataFile(size, 0) = Bytes(0, size)

\* Any DataShards of the shards are enough: when a rebuild returns successfully all
\* shards hold what was encoded (generate_missing_ec_files), as long as none was
\* interrupted and no more than ParityShards shards were ever lost.
RebuildRestores ==
  result = "ok" /\ crashes = 0 /\ lost <= ParityShards =>
    have = Shards /\ \A s \in Shards : file[s] = coded

\* A rebuild or an encoding that is not interrupted comes to an end.
Ends == pc \in {"rebuild", "encode"} ~> pc \in {"idle", "volume"}
=============================================================================
