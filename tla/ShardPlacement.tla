---------------------------- MODULE ShardPlacement ----------------------------
(***************************************************************************)
(* Shard(dim): each parameter split in equal chunks of one dimension, with *)
(* the last ones short or empty when it is dimension 0.  Every rank's      *)
(* storage has room for the largest chunk, so the bucket's storage is the  *)
(* all-gather's input and its rows are equal.                              *)
(*                                                                         *)
(* A bucket g is its world size n, its parameters' shapes and the          *)
(* dimension, from 1, each is split along.                                 *)
(***************************************************************************)
EXTENDS PlacementContract

\* _check_shardable: only dimension 0 of the source may split unevenly.
Shardable(g) ==
  \A p \in Params(g) : /\ g.dims[p] \in DOMAIN g.shapes[p]
                       /\ g.dims[p] > 1 => g.shapes[p][g.dims[p]] % g.n = 0

ShardRegion(g, r, p) ==
  LET shape == g.shapes[p]
      d     == g.dims[p]
  IN  Region([Origin(shape) EXCEPT ![d] = ChunkStart(shape[d], g.n, r)],
             [shape EXCEPT ![d] = ChunkSize(shape[d], g.n, r)])
LocalShape(g, r, p) == ShardRegion(g, r, p).shape
Extracted(g, r, p, param) == ReadRegion(param, g.shapes[p], ShardRegion(g, r, p))
Layout(g, r, p) == OneChunk(ShardRegion(g, r, p).offsets, LocalShape(g, r, p))

\* Rank 0 has the largest chunk; its size is reserved on every rank.
Capacities(g) == [p \in Params(g) |-> ProductSeq(LocalShape(g, 0, p))]

BucketStorage(g, r) ==
  Storage([p \in Params(g) |->
             Info(LocalShape(g, r, p), StartOf(Capacities(g), p), Capacities(g)[p])],
          SumSeq(Capacities(g)))

\* The padding is zeroed, then the shard copied in.
Stored(g, r, info, p, param, storage) ==
  Overwrite(storage, info.offset, PadTo(Extracted(g, r, p, param), info.capacity, Zero))

Sent(g, infos, storage) == Slice(storage, infos[1].offset, TotalCapacity(infos))

----------------------------------------------------------------------------
BufferSizes(g) == [p \in Params(g) |-> g.n * Capacities(g)[p]]
Leading(g, p) == ProductSeq(SubSeq(g.shapes[p], 1, g.dims[p] - 1))

\* Each buffer seen as [leading, ranks, rest]: rank r's [leading, rest] is its
\* slot of rank r's row.
CopiedOut(g, gathered, buffers) ==
  LET caps == Capacities(g) IN
  [p \in Params(g) |->
     LET rest == caps[p] \div Leading(g, p) IN
     [i \in DOMAIN buffers[p] |->
        LET leading == (i - 1) \div (g.n * rest)
            r       == ((i - 1) \div rest) % g.n
        IN  gathered[r * SumSeq(caps) + StartOf(caps, p) + leading * rest + ((i - 1) % rest) + 1]]]

\* The full parameters are the first elements of the padded buffers.
FullParams(g, buffers) == [p \in Params(g) |-> Slice(buffers[p], 0, Size(g, p))]

----------------------------------------------------------------------------
\* How many elements of a grad go to each rank's row: a split along dimension
\* 0 pads it to whole chunks, and so does a group of one rank.
GradCells(g, p) ==
  IF g.dims[p] = 1 THEN ProductSeq([g.shapes[p] EXCEPT ![1] = (@ + g.n - 1) \div g.n])
  ELSE Size(g, p) \div g.n

\* What of a grad goes to a rank.  Along a later dimension a contiguous grad is
\* seen as [leading, ranks, rest]; another form is put in order of its chunks.
GradPiece(g, p, r, grad, form) ==
  LET m    == GradCells(g, p)
      rest == m \div Leading(g, p)
  IN  IF g.dims[p] = 1 THEN PadTo(SubSeq(grad, r * m + 1, Smaller((r + 1) * m, Len(grad))), m, Zero)
      ELSE IF form = "strided" THEN Extracted(g, r, p, grad)
      ELSE [i \in 1 .. m |-> grad[((i - 1) \div rest) * g.n * rest + r * rest + ((i - 1) % rest) + 1]]

Packed(g, grads, form) ==
  FlattenSeq([r \in 1 .. g.n |->
    FlattenSeq([p \in Params(g) |-> GradPiece(g, p, r - 1, grads[p], form)])])

Unpacked(g, r, received) ==
  LET sizes == [p \in Params(g) |-> GradCells(g, p)]
  IN  [p \in Params(g) |-> Slice(received, StartOf(sizes, p), ProductSeq(LocalShape(g, r, p)))]
==============================================================================
