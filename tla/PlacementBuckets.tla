--------------------------- MODULE PlacementBuckets ---------------------------
(***************************************************************************)
(* A bucket's weights and gradients through its placement: kept in every   *)
(* rank's storage, gathered into full parameters, computed with, reduced   *)
(* back to the shards, updated, and saved and loaded by their layouts.     *)
(*                                                                         *)
(* Each rank does the same, and a collective is one step: what each rank   *)
(* gathers is the same, so there is one copy of it.                        *)
(***************************************************************************)
EXTENDS PlacementContract

CONSTANTS
  Buckets,      \* [kind, n, shapes, outer, reduction] and what the kind needs
  MaxVersion    \* bound of the optimizer steps

ASSUME MaxVersionAssumption == MaxVersion \in Nat

Sh == INSTANCE ShardPlacement
Bl == INSTANCE BlockShardPlacement
Bb == INSTANCE BucketedBlockPlacement
Mx == INSTANCE MixedBucket

VARIABLES
  bucket,
  storage,    \* each rank's byte_storage
  phase,      \* sharded, gathering, full, packed, reduced
  version,
  gathered,   \* what the all-gather wrote
  kept,       \* the persistent buffers behind the unsharded parameters, once made
  allocated,  \* whether they have their memory
  packed,     \* each rank's input of the reduce-scatter
  shards,     \* each rank's reduced gradients, by parameter
  scale       \* what the reduction divided by

vars == <<bucket, storage, phase, version, gathered, kept, allocated, packed, shards, scale>>

----------------------------------------------------------------------------
(* The placement's operations, by its kind. *)

StorageOf(b, r) ==
  CASE b.kind = "shard" -> Sh!BucketStorage(b, r) [] b.kind = "block" -> Bl!BucketStorage(b, r)
    [] b.kind = "bucketed" -> Bb!BucketStorage(b, r) [] b.kind = "mixed" -> Mx!BucketStorage(b, r)

Stored(b, r, info, p, param, cells) ==
  CASE b.kind = "shard" -> Sh!Stored(b, r, info, p, param, cells)
    [] b.kind = "block" -> Bl!Stored(b, r, info, p, param, cells)
    [] b.kind = "bucketed" -> Bb!Stored(b, r, info, p, param, cells)
    [] b.kind = "mixed" -> Mx!Stored(b, r, info, p, param, cells)

\* The tables hold, for every bucket, what a placement derives from it alone:
\* TLC evaluates them once.
StorageTable == [b \in Buckets |-> [r \in Ranks(b) |-> StorageOf(b, r)]]
Infos(b, r) == StorageTable[b][r].infos

LayoutOf(b, r, p) ==
  CASE b.kind = "shard" -> Sh!Layout(b, r, p) [] b.kind = "block" -> Bl!Layout(b, r, p)
    [] b.kind = "bucketed" -> Bb!Layout(b, r, p) [] b.kind = "mixed" -> Mx!Layout(b, r, p)

SentBy(b, r, cells) ==
  LET infos == Infos(b, r) IN
  CASE b.kind = "shard" -> Sh!Sent(b, infos, cells) [] b.kind = "block" -> Bl!Sent(b, infos, cells)
    [] b.kind = "bucketed" -> Bb!Sent(b, infos, cells) [] b.kind = "mixed" -> Mx!Sent(b, infos, cells, r)

BufferSizes(b) ==
  CASE b.kind = "shard" -> Sh!BufferSizes(b) [] b.kind = "block" -> Bl!BufferSizes(b)
    [] b.kind = "bucketed" -> Bb!BufferSizes(b) [] b.kind = "mixed" -> Mx!BufferSizes(b)

SizesTable == [b \in Buckets |-> BufferSizes(b)]
JunkBuffers(b) == [i \in DOMAIN SizesTable[b] |-> Cells(SizesTable[b][i], Junk)]

\* What run_prepared_unshard leaves, of the rows of all ranks.
GatheredOf(b, rows) ==
  CASE b.kind \in {"shard", "block"} -> InRankOrder(b.n, rows)
    [] b.kind = "bucketed" -> Bb!Gathered(b, rows, JunkBuffers(b)[1])
    [] b.kind = "mixed" -> Mx!Gathered(b, rows)

\* Its gather writes the persistent buffers themselves.
GathersInto(b) == b.kind = "bucketed" \/ (b.kind = "mixed" /\ Mx!OwnerRows(b))

CopiedOut(b, cells, buffers) ==
  CASE b.kind = "shard" -> Sh!CopiedOut(b, cells, buffers) [] b.kind = "block" -> Bl!CopiedOut(b, cells, buffers)
    [] b.kind = "bucketed" -> <<cells>> [] b.kind = "mixed" -> Mx!CopiedOut(b, cells, buffers)

FullParams(b, buffers) ==
  CASE b.kind = "shard" -> Sh!FullParams(b, buffers) [] b.kind = "block" -> Bl!FullParams(b, buffers)
    [] b.kind = "bucketed" -> Bb!FullParams(b, buffers) [] b.kind = "mixed" -> Mx!FullParams(b, buffers)

PackedBy(b, grads, form) ==
  CASE b.kind = "shard" -> Sh!Packed(b, grads, form) [] b.kind = "block" -> Bl!Packed(b, grads, form)
    [] b.kind = "bucketed" -> Bb!Packed(b, grads, form) [] b.kind = "mixed" -> Mx!Packed(b, grads, form)

RankRow(b, cells, r) == IF b.kind = "mixed" THEN Mx!RankRow(b, cells, r) ELSE Row(cells, b.n, r)

Unpacked(b, r, received) ==
  CASE b.kind = "shard" -> Sh!Unpacked(b, r, received) [] b.kind = "block" -> Bl!Unpacked(b, r, received)
    [] b.kind = "bucketed" -> Bb!Unpacked(b, r, received) [] b.kind = "mixed" -> Mx!Unpacked(b, r, received)

\* Shard copies out of a buffer of its own, so its persistent ones need no
\* memory before that; the runtime asks the first parameter's placement.
RefillsInFinish(b) == b.kind = "shard" \/ (b.kind = "mixed" /\ b.places[1].kind = "shard")

----------------------------------------------------------------------------
(* Storage. *)

FullParam(b, p, v) == [k \in 1 .. Size(b, p) |-> Weight(p, k, v)]

\* byte_storage is allocated without values and each parameter copied in.
InitialStorage(b, r) ==
  FoldLeft(LAMBDA cells, p : Stored(b, r, Infos(b, r)[p], p, FullParam(b, p, 0), cells),
           Cells(StorageTable[b][r].total, Junk), [p \in Params(b) |-> p])

InitialTable == [b \in Buckets |-> [r \in Ranks(b) |-> InitialStorage(b, r)]]

\* The storage with new values in the parameters' views.
WithLocals(b, r, cells, local) ==
  Copied(cells, [p \in Params(b) |-> [at |-> Infos(b, r)[p].offset, data |-> local[p]]])

\* The chunks a rank has of a parameter's global tensor.
LayoutTable ==
  [b \in Buckets |-> [r \in Ranks(b) |-> [p \in Params(b) |-> Composed(b.outer[p], LayoutOf(b, r, p))]]]
GlobalLayout(b, r, p) == LayoutTable[b][r][p]
GlobalAt(b, p, c, x) == Position(b.globals[p], Shifted(Coordinate(c.size, x), c.globalAt))
LocalAt(b, r, p, c, x) == 1 + Position(Infos(b, r)[p].shape, Shifted(Coordinate(c.size, x), c.localAt))
Elements(c) == 0 .. ProductSeq(c.size) - 1

\* What a checkpoint of the storages holds of a parameter: values by position.
Saved(b, cells, p) ==
  UNION {UNION {LET c == GlobalLayout(b, r, p)[i]
                    local == LocalView(cells[r], Infos(b, r)[p])
                IN  {<<GlobalAt(b, p, c, x), local[LocalAt(b, r, p, c, x)]>> : x \in Elements(c)} :
                i \in DOMAIN GlobalLayout(b, r, p)} : r \in Ranks(b)}

\* The storage of a new job after it loaded one.
Loaded(b, r, saved) ==
  LET chunks(p) == GlobalLayout(b, r, p)
      value(p, at) == (CHOOSE e \in saved[p] : e[1] = at)[2]
      old(p) == LocalView(InitialTable[b][r], Infos(b, r)[p])
      fill(p, local, c) ==
        [i \in DOMAIN local |->
           IF \E x \in Elements(c) : LocalAt(b, r, p, c, x) = i
           THEN value(p, GlobalAt(b, p, c, CHOOSE x \in Elements(c) : LocalAt(b, r, p, c, x) = i))
           ELSE local[i]]
  IN  WithLocals(b, r, InitialTable[b][r],
        [p \in Params(b) |-> FoldLeft(LAMBDA local, c : fill(p, local, c), old(p), chunks(p))])

----------------------------------------------------------------------------
Init ==
  /\ bucket \in Buckets
  /\ storage = InitialTable[bucket]
  /\ phase = "sharded" /\ version = 0
  /\ gathered = <<>> /\ kept = <<>> /\ allocated = FALSE
  /\ packed = <<>> /\ shards = <<>> /\ scale = NoDivision

First == kept = <<>>

\* begin_unshard: a refill gets the persistent buffers their memory back.
Gather ==
  LET memory == allocated \/ (~First /\ ~RefillsInFinish(bucket))
      into   == ~First /\ GathersInto(bucket)
      cells  == GatheredOf(bucket, [r \in Ranks(bucket) |-> SentBy(bucket, r, storage[r])])
  IN  /\ phase = "sharded"
      /\ phase' = "gathering"
      /\ allocated' = memory
      /\ kept' = IF into /\ memory THEN <<cells>> ELSE kept
      /\ gathered' = IF into THEN <<>> ELSE cells
      /\ UNCHANGED <<bucket, storage, version, packed, shards, scale>>

\* finish_unshard: the first makes the unsharded parameters, over buffers of
\* their own.
Finish ==
  LET memory == allocated \/ First \/ RefillsInFinish(bucket)
  IN  /\ phase = "gathering"
      /\ phase' = "full"
      /\ allocated' = memory
      /\ kept' = IF (GathersInto(bucket) /\ ~First) \/ ~memory THEN kept
                 ELSE CopiedOut(bucket, gathered, JunkBuffers(bucket))
      /\ gathered' = <<>>
      /\ UNCHANGED <<bucket, storage, version, packed, shards, scale>>

\* Freed memory holds nothing.
Freed == kept' = JunkBuffers(bucket) /\ allocated' = FALSE

Reshard ==
  /\ phase = "full" /\ phase' = "sharded"
  /\ Freed
  /\ UNCHANGED <<bucket, storage, version, gathered, packed, shards, scale>>

\* Every rank's grads of the full parameters, in one form, go into its input
\* of the reduce-scatter; the parameters are resharded.
Backward(form) ==
  LET grads == [r \in Ranks(bucket) |-> [p \in Params(bucket) |->
                  LET full == FullParams(bucket, kept)[p]
                  IN  [k \in DOMAIN full |-> GradOf(r, full[k])]]]
  IN  /\ phase = "full" /\ phase' = "packed"
      /\ packed' = [r \in Ranks(bucket) |-> PackedBy(bucket, grads[r], form)]
      /\ Freed
      /\ UNCHANGED <<bucket, storage, version, gathered, shards, scale>>

ReduceGrads ==
  LET received(r) == Summed([q \in Ranks(bucket) |-> RankRow(bucket, packed[q], r)])
  IN  /\ phase = "packed" /\ phase' = "reduced"
      /\ shards' = [r \in Ranks(bucket) |-> Unpacked(bucket, r, received(r))]
      /\ scale' = Divisions(bucket.reduction, bucket.n)
      /\ packed' = <<>>
      /\ UNCHANGED <<bucket, storage, version, gathered, kept, allocated>>

Contributions(b, cell) == UNION {GradOf(r, cell) : r \in Ranks(b)}
Updated(b, cell, grad) ==
  IF cell # Junk /\ grad = Contributions(b, cell) THEN {[w EXCEPT ![4] = @ + 1] : w \in cell} ELSE Junk

OptimizerStep ==
  /\ phase = "reduced" /\ phase' = "sharded"
  /\ version < MaxVersion /\ version' = version + 1
  /\ storage' = [r \in Ranks(bucket) |->
       WithLocals(bucket, r, storage[r], [p \in Params(bucket) |->
         LET local == LocalView(storage[r], Infos(bucket, r)[p])
         IN  [i \in DOMAIN local |-> Updated(bucket, local[i], shards[r][p][i])]])]
  /\ shards' = <<>> /\ scale' = NoDivision
  /\ UNCHANGED <<bucket, gathered, kept, allocated, packed>>

\* A checkpoint is loaded by a job with another placement or world size.
Restart(b) ==
  LET saved == SubSeq([p \in Params(bucket) |-> Saved(bucket, storage, p)], 1, Len(bucket.shapes))
  IN  /\ phase = "sharded" /\ version > 0
      /\ b.shapes = bucket.shapes /\ b.outer = bucket.outer /\ b # bucket
      /\ bucket' = b
      /\ storage' = [r \in Ranks(b) |-> Loaded(b, r, saved)]
      /\ gathered' = <<>> /\ kept' = <<>> /\ allocated' = FALSE
      /\ UNCHANGED <<phase, version, packed, shards, scale>>

\* The last step ends a run.
Over == phase = "reduced" /\ version = MaxVersion /\ UNCHANGED vars

Next ==
  \/ Gather \/ Finish \/ Reshard \/ ReduceGrads \/ OptimizerStep \/ Over
  \/ \E form \in {"plain", "bucket", "strided"} : Backward(form)
  \/ \E b \in Buckets : Restart(b)

Spec == Init /\ [][Next]_vars

----------------------------------------------------------------------------
(* Properties. *)

\* Every rank computes with the parameters as they were before any sharding,
\* at the optimizer's last step: no padding, gap, stale or freed element shows.
FullParamsExact ==
  phase = "full" =>
    \A p \in Params(bucket) : FullParams(bucket, kept)[p] = FullParam(bucket, p, version)

\* Each element of a rank's shard gets the gradients every rank computed for
\* that element, once each, and nothing else.
GradsReduced ==
  phase = "reduced" =>
    \A r \in Ranks(bucket), p \in Params(bucket) :
      LET local == LocalView(storage[r], Infos(bucket, r)[p])
      IN  /\ Len(shards[r][p]) = Len(local)
          /\ \A i \in DOMAIN local : shards[r][p][i] = Contributions(bucket, local[i])

\* Rows are packed into memory nobody wrote, one kernel for the grads and one
\* for what they leave: every element that is reduced was written by one.
NothingUnwrittenReduced ==
  phase = "packed" => \A r \in Ranks(bucket) : Junk \notin {packed[r][i] : i \in DOMAIN packed[r]}

\* A bucket's gradients are divided by its factor once: by the collective's
\* inputs, its op and its outputs together.
AveragedOnce ==
  phase = "reduced" =>
    scale.pre[1] * scale.op[1] * scale.post[1] =
      (IF bucket.reduction.op = "avg" THEN Factor(bucket.reduction, bucket.n) ELSE 1)
        * scale.pre[2] * scale.op[2] * scale.post[2]

\* The ranks' declared layouts hold every element of the global tensors that
\* the outer layouts do, once, and where they say an element is there it is.
CheckpointExact ==
  phase = "sharded" =>
    \A p \in Params(bucket) :
      /\ Saved(bucket, storage, p) =
           UNION {LET c == bucket.outer[p][i] IN
                  {<<GlobalAt(bucket, p, c, x),
                     Weight(p, 1 + Position(bucket.shapes[p], Shifted(Coordinate(c.size, x), c.localAt)), version)>> :
                   x \in Elements(c)} : i \in DOMAIN bucket.outer[p]}
      /\ SumSeq([i \in 1 .. bucket.n |-> SumSeq([j \in DOMAIN GlobalLayout(bucket, i - 1, p) |->
                   ProductSeq(GlobalLayout(bucket, i - 1, p)[j].size)])])
           = SumSeq([i \in DOMAIN bucket.outer[p] |-> ProductSeq(bucket.outer[p][i].size)])
==============================================================================
