---------------------------- MODULE MuonSchedule ----------------------------
(***************************************************************************)
(* How DistMuon moves one bucket between the ranks that store its          *)
(* parameters and the ranks that compute their updates: the storage        *)
(* regions of every rank, a plan of routes per parameter, the checks a     *)
(* plan passes, and each rank's packed all-to-all schedule.                *)
(*                                                                         *)
(* A mesh is [sizes, ranks]: the size of each axis and the global ranks in *)
(* row-major order.  A parameter is [shape, mesh, placements]; dimensions  *)
(* and axes count from 1.  A group is the ranks of one mesh axis, both in  *)
(* mesh order and in the order of the process group.                       *)
(***************************************************************************)
EXTENDS TensorRegions, FiniteSetsExt

\* The elements of a sequence that pass a test, in their order.
Filter(s, Test(_)) == FlattenSeq([i \in DOMAIN s |-> IF Test(s[i]) THEN <<s[i]>> ELSE <<>>])

PositionIn(s, x) == CHOOSE i \in DOMAIN s : s[i] = x

MeshCoordinate(mesh, rank) == Coordinate(mesh.sizes, PositionIn(mesh.ranks, rank) - 1)

AxisRanks(mesh, axis, rank) ==
  Filter(mesh.ranks, LAMBDA r : \A a \in DOMAIN mesh.sizes \ {axis} :
                                      MeshCoordinate(mesh, r)[a] = MeshCoordinate(mesh, rank)[a])

\* A process group orders its ranks by number, whatever the mesh says.
ByNumber(ranks) ==
  [i \in 1 .. Cardinality(ranks) |->
     CHOOSE r \in ranks : Cardinality({q \in ranks : q < r}) = i - 1]

RedistributionGroup(mesh, axis, rank) ==
  [meshOrder    |-> AxisRanks(mesh, axis, rank),
   participants |-> ByNumber(ToSet(AxisRanks(mesh, axis, rank)))]

\* The axes that shard a dimension of a parameter.
ShardAxes(param, dim) ==
  {a \in DOMAIN param.mesh.sizes : /\ param.mesh.sizes[a] # 1
                                   /\ param.placements[a].kind = "shard"
                                   /\ param.placements[a].dim = dim}

\* The region a rank stores: the last axis that shards a dimension decides.
StorageRegion(param, rank) ==
  LET coordinate == MeshCoordinate(param.mesh, rank)
      Chunk(dim, Part(_, _, _), whole) ==
        IF ShardAxes(param, dim) = {} THEN whole
        ELSE LET a == Max(ShardAxes(param, dim))
             IN  Part(param.shape[dim], param.mesh.sizes[a], coordinate[a])
  IN  Region([d \in DOMAIN param.shape |-> Chunk(d, ChunkStart, 0)],
             [d \in DOMAIN param.shape |-> Chunk(d, ChunkSize, param.shape[d])])

\* Sharded axes beside the one that carries the transport.
PreservedAxes(param, axis) ==
  {a \in DOMAIN param.mesh.sizes \ {axis} :
      param.mesh.sizes[a] # 1 /\ param.placements[a].kind # "replicate"}

SupportsTransport(param, axis) ==
  /\ param.placements[axis].kind \in {"replicate", "shard"}
  /\ Cardinality(PreservedAxes(param, axis)) <= 1
  /\ \A a \in PreservedAxes(param, axis) :
        /\ param.placements[axis].kind = "shard"
        /\ param.placements[a].kind = "shard"
        /\ param.placements[a].dim # param.placements[axis].dim

\* What the group of an axis stores between them: its shape, and each region
\* with the ranks that hold it.
StorageDomain(param, axis, participants) ==
  LET preserved == UNION {{param.placements[a].dim} : a \in PreservedAxes(param, axis)}
      mine      == StorageRegion(param, participants[1])
      origin    == [d \in DOMAIN param.shape |-> IF d \in preserved THEN mine.offsets[d] ELSE 0]
      region    == [p \in ToSet(participants) |-> Relative(StorageRegion(param, p), origin)]
      IsFirst(p) == \A i \in 1 .. PositionIn(participants, p) - 1 : region[participants[i]] # region[p]
      firsts    == Filter(participants, IsFirst)
  IN  [shape   |-> [d \in DOMAIN param.shape |->
                      IF d \in preserved THEN mine.shape[d] ELSE param.shape[d]],
       regions |-> [i \in DOMAIN firsts |->
                      [holders |-> Filter(participants, LAMBDA p : region[p] = region[firsts[i]]),
                       region  |-> region[firsts[i]]]]]

ValidDomain(domain) ==
  PartitionTensor([i \in DOMAIN domain.regions |-> domain.regions[i].region], domain.shape)

----------------------------------------------------------------------------
(* Plans. *)

Partition(shape, regions) == [shape |-> shape, regions |-> regions]
Route(region, from, sources, to, destinations) ==
  [region |-> region, from |-> from, sources |-> sources,
   to |-> to, destinations |-> destinations]
\* Mutant of InverseRoute: returns the update to one holder.
MutInverseRouteToOne(route) ==
  Route(route.region, route.to, route.destinations, route.from, <<Head(route.sources)>>)

InverseRoute(route) ==
  Route(route.region, route.to, route.destinations, route.from, route.sources)

\* A tensor with each region stored by its holders, one region per rank.
OneRegionEach(regions, participants) ==
  /\ \A i \in DOMAIN regions : /\ regions[i].holders # <<>>
                               /\ ToSet(regions[i].holders) \subseteq ToSet(participants)
  /\ \A p \in ToSet(participants) :
        Cardinality({i \in DOMAIN regions : Contains(regions[i].holders, p)}) = 1

StoredBy(regions, p) ==
  regions[CHOOSE i \in DOMAIN regions : Contains(regions[i].holders, p)].region

StoragePartitions(regions, participants) ==
  [p \in ToSet(participants) |->
     Partition(StoredBy(regions, p).shape, <<StoredBy(regions, p)>>)]

WholeTensorPlan(domain, participants, owners, shape) ==
  [participants |-> participants,
   shape        |-> shape,
   storage      |-> StoragePartitions(domain.regions, participants),
   compute      |-> [p \in ToSet(participants) |->
                       IF Contains(owners, p) THEN Partition(shape, <<AtOrigin(shape)>>)
                                              ELSE Partition(<<0>>, <<>>)],
   routes       |-> [i \in DOMAIN domain.regions |->
                       LET stored == domain.regions[i]
                       IN  Route(stored.region, AtOrigin(stored.region.shape), stored.holders,
                                 stored.region, owners)]]

\* Every stored region is cut along the pieces of every destination's region.
CutRoutes(domain, participants, computed, pieces) ==
  LET Cut(stored, p, piece) ==
        LET region == Intersection(stored.region, piece)
        IN  Route(region, Relative(region, stored.region.offsets), stored.holders,
                  Relative(region, computed[p].offsets), <<p>>)
      ToRank(stored, p) == [k \in DOMAIN pieces[p] |-> Cut(stored, p, pieces[p][k])]
      From(stored) == FlattenSeq([j \in DOMAIN participants |-> ToRank(stored, participants[j])])
  IN  Filter(FlattenSeq([i \in DOMAIN domain.regions |-> From(domain.regions[i])]),
                LAMBDA route : Numel(route.region) > 0)

ShardedPlan(domain, participants, shape, computed, pieces) ==
  [participants |-> participants,
   shape        |-> shape,
   storage      |-> StoragePartitions(domain.regions, participants),
   compute      |-> [p \in ToSet(participants) |-> Partition(computed[p].shape, <<computed[p]>>)],
   routes       |-> CutRoutes(domain, participants, computed, pieces)]

\* Rows first .. last - 1 of a tensor.
Rows(shape, first, last) ==
  Region([d \in DOMAIN shape |-> IF d = 1 THEN first ELSE 0],
         [d \in DOMAIN shape |-> IF d = 1 THEN last - first ELSE shape[d]])

\* The shard of a rank is its place on the mesh axis, not in the group.
MeshIndex(group, p) == PositionIn(group.meshOrder, p) - 1

Dim0ShardPlan(domain, group, shape) ==
  LET n        == Len(group.participants)
      computed == [p \in ToSet(group.participants) |->
                     LET first == ChunkStart(shape[1], n, MeshIndex(group, p))
                     IN  Rows(shape, first, first + ChunkSize(shape[1], n, MeshIndex(group, p)))]
  IN  ShardedPlan(domain, group.participants, shape, computed,
                  [p \in DOMAIN computed |-> <<computed[p]>>])

\* Matrices of the sizes of a repeating pattern, stacked along dimension 1.
NumBlocks(sizes, rows) == (rows \div SumSeq(sizes)) * Len(sizes)
BlockStart(sizes, i) ==
  (i \div Len(sizes)) * SumSeq(sizes) + SumSeq(SubSeq(sizes, 1, i % Len(sizes)))
Blocks(sizes, shape, first, count) ==
  [k \in 1 .. count |->
     Rows(shape, BlockStart(sizes, first + k - 1), BlockStart(sizes, first + k))]

BatchedMatrixPlan(domain, group, shape, sizes) ==
  LET n      == Len(group.participants)
      blocks == NumBlocks(sizes, shape[1])
      First(p) == ChunkStart(blocks, n, MeshIndex(group, p))
      Count(p) == ChunkSize(blocks, n, MeshIndex(group, p))
  IN  ShardedPlan(domain, group.participants, shape,
        [p \in ToSet(group.participants) |->
           Rows(shape, BlockStart(sizes, First(p)), BlockStart(sizes, First(p) + Count(p)))],
        [p \in ToSet(group.participants) |-> Blocks(sizes, shape, First(p), Count(p))])

\* Everything a plan is checked for before schedules are built from it.
ValidPlan(plan) ==
  LET everyone == ToSet(plan.participants)
      RoutesOf(Endpoint(_), p) == Filter(plan.routes, LAMBDA r : Contains(Endpoint(r), p))
      Sources(r) == r.sources
      Destinations(r) == r.destinations
      Map(Field(_), routes) == [i \in DOMAIN routes |-> Field(routes[i])]
      Logical(r) == r.region
      From(r) == r.from
      To(r) == r.to
      PartitionFits(partition) == /\ DisjointInBounds(partition.regions, plan.shape)
                                  /\ TotalNumel(partition.regions) = ProductSeq(partition.shape)
  IN  /\ IsInjective(plan.participants)
      /\ \A p \in everyone : PartitionFits(plan.storage[p]) /\ PartitionFits(plan.compute[p])
      /\ \A i \in DOMAIN plan.routes :
           LET r == plan.routes[i]
           IN  /\ r.sources # <<>> /\ r.destinations # <<>>
               /\ IsInjective(r.sources) /\ IsInjective(r.destinations)
               /\ ToSet(r.sources) \cup ToSet(r.destinations) \subseteq everyone
               /\ Numel(r.region) = Numel(r.from) /\ Numel(r.region) = Numel(r.to)
      /\ PartitionTensor(Map(Logical, plan.routes), plan.shape)
      /\ \A p \in everyone :
           LET out == RoutesOf(Sources, p)
               in  == RoutesOf(Destinations, p)
           IN  /\ CoverPartition(Map(Logical, out), plan.storage[p].regions, plan.shape)
               /\ PartitionTensor(Map(From, out), plan.storage[p].shape)
               /\ CoverPartition(Map(Logical, in), plan.compute[p].regions, plan.shape)
               /\ PartitionTensor(Map(To, in), plan.compute[p].shape)

----------------------------------------------------------------------------
(* Packed schedules. *)

Directions == {"storage_to_compute", "compute_to_storage"}
RoutesIn(direction, plan) ==
  IF direction = "storage_to_compute" THEN plan.routes
  ELSE [i \in DOMAIN plan.routes |-> InverseRoute(plan.routes[i])]

\* A destination that holds the region copies its own; any other receives it
\* from the first holder in the order of the group.
SourceOf(route, destination, participants) ==
  IF Contains(route.sources, destination) THEN destination
  ELSE Head(Filter(participants, LAMBDA p : Contains(route.sources, p)))

Transfers(routes, participants) ==
  FlattenSeq([i \in DOMAIN routes |->
    [j \in DOMAIN routes[i].destinations |->
       [source      |-> SourceOf(routes[i], routes[i].destinations[j], participants),
        destination |-> routes[i].destinations[j],
        from        |-> routes[i].from,
        to          |-> routes[i].to]]])

\* What one rank sends another: parameter by parameter, in the order of the routes.
Between(transfers, source, destination) ==
  FlattenSeq([param \in DOMAIN transfers |->
    LET chosen == Filter(transfers[param],
                    LAMBDA t : t.source = source /\ t.destination = destination)
    IN  [k \in DOMAIN chosen |->
           [param |-> param, from |-> chosen[k].from, to |-> chosen[k].to]]])

\* Regions laid out one after the other in a buffer.
Spans(pieces, Field(_)) ==
  [k \in DOMAIN pieces |->
     [param  |-> pieces[k].param,
      region |-> Field(pieces[k]),
      offset |-> SumSeq([i \in 1 .. k - 1 |-> Numel(Field(pieces[i]))])]]

PackedSchedule(plans, direction, me) ==
  LET participants == plans[1].participants
      transfers    == [i \in DOMAIN plans |-> Transfers(RoutesIn(direction, plans[i]), participants)]
      From(t)      == t.from
      To(t)        == t.to
      sent         == [j \in DOMAIN participants |-> Between(transfers, me, participants[j])]
      received     == [j \in DOMAIN participants |-> Between(transfers, participants[j], me)]
      Sizes(pieces, Field(_)) ==
        [j \in DOMAIN pieces |-> SumSeq([k \in DOMAIN pieces[j] |-> Numel(Field(pieces[j][k]))])]
  IN  [inputs       |-> Spans(FlattenSeq(sent), From),
       inputSplits  |-> Sizes(sent, From),
       outputs      |-> Spans(FlattenSeq(received), To),
       outputSplits |-> Sizes(received, To),
       remote       |-> \E i \in DOMAIN plans : \E k \in DOMAIN transfers[i] :
                           transfers[i][k].source # transfers[i][k].destination]
=============================================================================
