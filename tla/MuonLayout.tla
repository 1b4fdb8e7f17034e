----------------------------- MODULE MuonLayout -----------------------------
(***************************************************************************)
(* How DistMuon resolves a parameter's declared compute layout against its *)
(* storage: whether the layout is accepted, what every rank computes, and  *)
(* which mesh axis carries a redistribution, if any.                       *)
(*                                                                         *)
(* A layout is [shardings, order]: a placement for some axes, and for some *)
(* dimensions the axes that shard it, outermost first.  Dimensions and     *)
(* axes count from 1.                                                      *)
(***************************************************************************)
EXTENDS MuonSchedule

Replicate         == [kind |-> "replicate"]
Shard(dim)        == [kind |-> "shard", dim |-> dim]
Strided(dim, by)  == [kind |-> "strided", dim |-> dim, by |-> by]
BlockShard(sizes) == [kind |-> "block", sizes |-> sizes]
Owned(sizes)      == [kind |-> "owned", sizes |-> sizes]     \* <<>>: one matrix
Rejected          == [kind |-> "rejected"]

\* A layout declares something, and orders only axes that shard the dimension.
ValidLayout(layout) ==
  /\ DOMAIN layout.shardings # {}
  /\ \A d \in DOMAIN layout.order :
       /\ Len(layout.order[d]) >= 2 /\ IsInjective(layout.order[d])
       /\ \A a \in ToSet(layout.order[d]) :
            a \in DOMAIN layout.shardings /\ layout.shardings[a] = Shard(d)

Axes(param) == DOMAIN param.mesh.sizes
Rank(param) == Len(param.shape)
NoAxis == 0

\* Declarations for axes of other meshes drop out.
Declared(param, layout) == DOMAIN layout.shardings \cap Axes(param)
DeclaredAs(param, layout, kind) ==
  {a \in Declared(param, layout) : layout.shardings[a].kind = kind}

\* An axis applied later than its place in the mesh is strided by the axes it
\* follows that sit to its right.
StrideOf(param, layout, dim, axis) ==
  LET order  == Filter(layout.order[dim], LAMBDA a : a \in Axes(param))
      before == {a \in ToSet(order) : /\ PositionIn(order, a) < PositionIn(order, axis)
                                      /\ a > axis}
  IN  FoldSet(LAMBDA a, b : param.mesh.sizes[a] * b, 1, before)

Lowered(param, layout, axis) ==
  LET dims == {d \in DOMAIN layout.order : /\ Contains(layout.order[d], axis)
                                           /\ StrideOf(param, layout, d, axis) > 1}
  IN  IF dims = {} THEN layout.shardings[axis]
      ELSE LET d == Max(dims) IN Strided(d, StrideOf(param, layout, d, axis))

OnAxis(param, axis, placement) ==
  IF param.mesh.sizes[axis] = 1 THEN Replicate ELSE placement
Stored(param, axis) == OnAxis(param, axis, param.placements[axis])
Target(param, layout, axis) == OnAxis(param, axis, Lowered(param, layout, axis))

OwnedAxes(param, layout) == DeclaredAs(param, layout, "owned")
Targeted(param, layout) == Declared(param, layout) \ OwnedAxes(param, layout)
ActiveAxes(param, axes) == {a \in axes : param.mesh.sizes[a] > 1}
BlockAxes(param, layout) == DeclaredAs(param, layout, "block")
BlockSizes(param, layout) ==
  layout.shardings[CHOOSE a \in BlockAxes(param, layout) : TRUE].sizes
IsBlocked(param, layout) == BlockAxes(param, layout) # {}

OwnedFits(param, layout) ==
  LET owned == {layout.shardings[a].sizes : a \in OwnedAxes(param, layout)}
  IN  /\ Cardinality(owned) <= 1
      /\ \A sizes \in owned \ {<<>>} : Rank(param) = 2 /\ param.shape[1] % SumSeq(sizes) = 0

BlocksFit(param, layout) ==
  IsBlocked(param, layout) =>
    /\ Rank(param) = 2
    /\ \A a \in BlockAxes(param, layout) :
         layout.shardings[a].sizes = BlockSizes(param, layout)
    /\ param.shape[1] > 0 /\ param.shape[1] % SumSeq(BlockSizes(param, layout)) = 0
    /\ \A a \in Axes(param) : Stored(param, a) \in {Replicate, Shard(1)}
    /\ Declared(param, layout) = BlockAxes(param, layout) \cup DeclaredAs(param, layout, "replicate")

\* A strided axis follows exactly one axis, and that one directly.
OrderFits(param, layout) ==
  \A a \in Targeted(param, layout) :
    LET target   == Target(param, layout, a)
        Sharding(b) == IF b \in Targeted(param, layout) THEN Target(param, layout, b)
                                                        ELSE Stored(param, b)
        right    == {b \in Axes(param) \ OwnedAxes(param, layout) :
                       b > a /\ Sharding(b) = Shard(target.dim)}
    IN  target.kind = "strided" =>
          Cardinality(right) = 1 /\ \A b \in right : target.by = param.mesh.sizes[b]

\* Mutant of RowIntervals: cuts blocks like rows.
MutRowIntervalsOfRows(rows, placement, n) ==
  [i \in 0 .. n - 1 |->
     IF placement.kind = "replicate" THEN <<0, rows>>
     ELSE <<ChunkStart(rows, n, i), ChunkStart(rows, n, i + 1)>>]

\* The rows of each coordinate of an axis, however the placement names them.
RowIntervals(rows, placement, n) ==
  [i \in 0 .. n - 1 |->
     LET Start(k) == CASE placement.kind = "replicate" -> IF k = i THEN 0 ELSE rows
                       [] placement.kind = "shard"     -> ChunkStart(rows, n, k)
                       [] placement.kind = "block"     ->
                            BlockStart(placement.sizes,
                                       ChunkStart(NumBlocks(placement.sizes, rows), n, k))
     IN  <<Start(i), Start(i + 1)>>]

\* Only one axis may split matrix blocks, and every other one is replicated.
BlockTransportFits(param, layout) ==
  LET active == ActiveAxes(param, BlockAxes(param, layout))
  IN  IsBlocked(param, layout) =>
        /\ Cardinality(active) <= 1
        /\ \A a \in Axes(param) \ active : Stored(param, a) = Replicate

Changed(param, layout) ==
  IF ~IsBlocked(param, layout)
  THEN {a \in Targeted(param, layout) : Stored(param, a) # Target(param, layout, a)}
  ELSE {a \in ActiveAxes(param, BlockAxes(param, layout)) :
          LET n == param.mesh.sizes[a]
          IN  RowIntervals(param.shape[1], Stored(param, a), n)
                # RowIntervals(param.shape[1], Target(param, layout, a), n)}

TransportAxes(param, layout) ==
  Changed(param, layout) \cup ActiveAxes(param, OwnedAxes(param, layout))
TransportAxis(param, layout) ==
  IF TransportAxes(param, layout) = {} THEN NoAxis
  ELSE CHOOSE a \in TransportAxes(param, layout) : TRUE

\* A batch of matrices stored by rows may move to whole matrices within the
\* batch shard another axis keeps.
OrthogonalDim0(param, layout, axis, preserved) ==
  /\ ~IsBlocked(param, layout) /\ Rank(param) >= 3
  /\ axis \in Targeted(param, layout)
  /\ Target(param, layout, axis).kind = "strided" /\ Target(param, layout, axis).dim = 1
  /\ param.placements[axis] = Shard(Rank(param) - 1)
  /\ param.placements[preserved] = Shard(1)

\* Mutant of TransportFits: does not look at the other axes.
MutTransportFitsAnyOther(param, layout) ==
  /\ Cardinality(TransportAxes(param, layout)) <= 1
  /\ TransportAxis(param, layout) # NoAxis =>
       param.placements[TransportAxis(param, layout)].kind \in {"replicate", "shard"}

TransportFits(param, layout) ==
  LET axis  == TransportAxis(param, layout)
      other == {a \in Axes(param) \ {axis} : Stored(param, a) # Replicate}
      strided == {a \in Targeted(param, layout) : Target(param, layout, a).kind = "strided"}
  IN  /\ Cardinality(TransportAxes(param, layout)) <= 1
      /\ axis # NoAxis =>
           /\ param.placements[axis].kind \in {"replicate", "shard"}
           /\ Cardinality(other) <= 1
           /\ \A a \in other : OrthogonalDim0(param, layout, axis, a)
           /\ strided # {} => other # {}

\* What each axis holds while computing, and the dimensions that shards, with
\* the declared ones of axes of one rank.
ComputeOn(param, layout, axis) ==
  IF axis \in Targeted(param, layout) THEN Target(param, layout, axis) ELSE Stored(param, axis)
DimOf(placement) == IF placement.kind = "block" THEN 1 ELSE placement.dim
ComputeShardDims(param, layout) ==
  LET Dims(placements) == {DimOf(p) : p \in {q \in placements : q.kind \in {"shard", "strided", "block"}}}
  IN  Dims({ComputeOn(param, layout, a) : a \in Axes(param) \ OwnedAxes(param, layout)}
             \cup {Lowered(param, layout, a) : a \in Targeted(param, layout)})

ComputeSharding(param, layout) ==
  LET owned == {layout.shardings[a] : a \in OwnedAxes(param, layout)}
      dims  == ComputeShardDims(param, layout)
      owner == IF owned = {} THEN Rejected ELSE CHOOSE o \in owned : TRUE
  IN  IF ActiveAxes(param, OwnedAxes(param, layout)) # {} \/ dims = {} THEN owner
      ELSE IF dims # {1} \/ (~IsBlocked(param, layout) /\ Rank(param) < 3) THEN Rejected
      ELSE IF IsBlocked(param, layout) THEN BlockShard(BlockSizes(param, layout)) ELSE Shard(1)

Resolve(param, layout) ==
  IF /\ Rank(param) >= 2
     /\ Declared(param, layout) # {}
     /\ OwnedFits(param, layout)
     /\ BlocksFit(param, layout)
     /\ DeclaredAs(param, layout, "replicate") = {}
     /\ OrderFits(param, layout)
     /\ \A a \in Axes(param) : Stored(param, a).kind # "unsupported"
     /\ BlockTransportFits(param, layout)
     /\ TransportFits(param, layout)
  THEN [sharding |-> ComputeSharding(param, layout), axis |-> TransportAxis(param, layout)]
  ELSE [sharding |-> Rejected, axis |-> NoAxis]

----------------------------------------------------------------------------
(* What a rank computes. *)

MatrixSizes(sharding, shape) ==
  IF sharding.kind \in {"block", "owned"} /\ sharding.sizes # <<>> THEN sharding.sizes ELSE <<>>

\* Strided batches of equal matrices in the rows a rank computes: the first
\* row, the distance between matrices, their number and their rows.
MatrixViews(sizes, rows, start) ==
  LET period == SumSeq(sizes)
      View(i) ==
        LET first == (SumSeq(SubSeq(sizes, 1, i - 1)) - start) % period
            fit   == (rows - first - sizes[i]) \div period
        IN  [first |-> first, stride |-> period, count |-> Larger(0, 1 + fit), rows |-> sizes[i]]
  IN  Filter([i \in DOMAIN sizes |-> View(i)], LAMBDA v : v.count > 0)

PlanFor(param, sharding, group, axis, owner) ==
  LET domain == StorageDomain(param, axis, group.participants)
  IN  CASE sharding.kind = "owned" ->
             WholeTensorPlan(domain, group.participants, <<owner>>, param.shape)
        [] sharding.kind = "shard" -> Dim0ShardPlan(domain, group, domain.shape)
        [] sharding.kind = "block" ->
             BatchedMatrixPlan(domain, group, param.shape, sharding.sizes)
=============================================================================
