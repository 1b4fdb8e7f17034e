------------------------- MODULE BlockShardPlacement -------------------------
(***************************************************************************)
(* BlockShard(blocks_per_rank, dim): rank r has blocks[r] blocks of every  *)
(* parameter's dimension, one after another.  A rank stores its shards     *)
(* alone; the collectives' rows have a slot per parameter as large as the  *)
(* largest rank's shard, padded with zeros.                                *)
(*                                                                         *)
(* A bucket g is its world size n, its parameters' shapes, the blocks of   *)
(* each rank and the dimension, from 1.                                    *)
(***************************************************************************)
EXTENDS PlacementContract

Blocks(g, r) == g.blocks[r + 1]
BlocksBefore(g, r) == StartOf(g.blocks, r + 1)
MostBlocks(g) == Largest(g.blocks)
BlockDimSize(g, p) == g.shapes[p][g.dim] \div SumSeq(g.blocks)
BlockNumel(g, p) == ProductSeq([g.shapes[p] EXCEPT ![g.dim] = BlockDimSize(g, p)])

Shardable(g) ==
  /\ Len(g.blocks) = g.n
  /\ \A p \in Params(g) : g.dim \in DOMAIN g.shapes[p] /\ g.shapes[p][g.dim] % SumSeq(g.blocks) = 0

ShardRegion(g, r, p) ==
  Region([Origin(g.shapes[p]) EXCEPT ![g.dim] = BlocksBefore(g, r) * BlockDimSize(g, p)],
         [g.shapes[p] EXCEPT ![g.dim] = Blocks(g, r) * BlockDimSize(g, p)])
LocalShape(g, r, p) == ShardRegion(g, r, p).shape
Extracted(g, r, p, param) == ReadRegion(param, g.shapes[p], ShardRegion(g, r, p))
Layout(g, r, p) == OneChunk(ShardRegion(g, r, p).offsets, LocalShape(g, r, p))

BucketStorage(g, r) ==
  LET infos == SequentialInfos([p \in Params(g) |-> LocalShape(g, r, p)])
  IN  Storage(infos, TotalCapacity(infos))

Stored(g, r, info, p, param, storage) ==
  IF info.numel = 0 THEN storage ELSE Overwrite(storage, info.offset, Extracted(g, r, p, param))

----------------------------------------------------------------------------
Slots(g) == [p \in Params(g) |-> MostBlocks(g) * BlockNumel(g, p)]
SlotStart(g, p) == StartOf(Slots(g), p)
RowNumel(g) == SumSeq(Slots(g))

Sent(g, infos, storage) ==
  Copied(Cells(RowNumel(g), Zero),
         [p \in Params(g) |-> [at |-> SlotStart(g, p), data |-> LocalView(storage, infos[p])]])

BufferSizes(g) == [p \in Params(g) |-> Size(g, p)]

\* The ranks' shards concatenated along the dimension.
CopiedOut(g, gathered, buffers) ==
  [p \in Params(g) |->
     FoldLeft(LAMBDA full, r :
       WriteRegion(full, g.shapes[p], ShardRegion(g, r, p),
         Slice(gathered, r * RowNumel(g) + SlotStart(g, p), Blocks(g, r) * BlockNumel(g, p))),
       buffers[p], [r \in 1 .. g.n |-> r - 1])]

FullParams(g, buffers) == buffers

----------------------------------------------------------------------------
\* Into rows of zeros, or into columns of a caller's.
PackedRow(g, r, grads, row) ==
  Copied(row, [p \in Params(g) |-> [at |-> SlotStart(g, p), data |-> Extracted(g, r, p, grads[p])]])

Packed(g, grads, form) ==
  FlattenSeq([r \in 1 .. g.n |-> PackedRow(g, r - 1, grads, Cells(RowNumel(g), Zero))])

Unpacked(g, r, received) ==
  [p \in Params(g) |-> Slice(received, SlotStart(g, p), ProductSeq(LocalShape(g, r, p)))]
==============================================================================
