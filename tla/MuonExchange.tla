---------------------------- MODULE MuonExchange ----------------------------
(***************************************************************************)
(* One DistMuon bucket on every rank of its group: each rank plans on its  *)
(* own, the ranks compare their plans, and a step sends every gradient to  *)
(* the ranks that compute it and the updates back.  Each element is        *)
(* followed through the packed buffers to the place it is applied.         *)
(***************************************************************************)
EXTENDS MuonLayout

CONSTANT
  Worlds   \* [mesh, rank, params, layouts, divergent]: the group of `rank`, the
           \* bucket in its order, and the ranks configured otherwise

\* Shapes and blocks are those of tensors, and meshes number their ranks.
ASSUME WorldsAssumption ==
  \A w \in Worlds :
    /\ w.mesh.ranks \in Seq(Nat)
    /\ w.params \in Seq(ToSet(w.params))
    /\ \A i \in DOMAIN w.params :
         /\ w.params[i].shape \in Seq(Nat)
         /\ \A sharding \in Range(w.layouts[i].shardings) :
              sharding.kind = "block" => sharding.sizes \in Seq(Nat \ {0}) \ {<<>>}

VARIABLES
  world,
  bound,       \* what construction resolved of it
  phase,       \* rank -> where it stands
  plan,        \* rank -> its plans and schedules
  sendable,    \* rank -> its storage exchange buffer
  fragments,   \* rank -> its compute exchange buffer
  param        \* rank -> parameter -> local elements

vars == <<world, bound, phase, plan, sendable, fragments, param>>

\* Every parameter's layout, the redistributed ones, the axis they share (any
\* will do for a bucket that moves nothing) and its group.
Resolutions(w) == [i \in DOMAIN w.params |-> Resolve(w.params[i], w.layouts[i])]
BindingOf(w, resolved) ==
  LET moved == Filter([i \in DOMAIN w.params |-> i], LAMBDA i : resolved[i].axis # NoAxis)
      axis  == IF moved = <<>> THEN 1 ELSE resolved[moved[1]].axis
  IN  [resolved |-> resolved, redistributed |-> moved, axis |-> axis,
       group |-> RedistributionGroup(w.mesh, axis, w.rank)]

Resolved == bound.resolved
Redistributed == bound.redistributed
Local == DOMAIN world.params \ ToSet(Redistributed)
BucketAxis == bound.axis
Group == bound.group
Ranks == ToSet(Group.participants)

\* Accepted layouts that redistribute along one common axis.
Bindable ==
  /\ \A i \in DOMAIN Resolved : Resolved[i].sharding # Rejected
  /\ \A i \in ToSet(Redistributed) : Resolved[i].axis = BucketAxis

\* Elements are their position in the whole parameter, from 1; 0 is memory
\* nobody wrote, and an update adds UpdateTag.
UpdateTag == 1000
Untouched == 0
Garbage(n) == [k \in 1 .. n |-> Untouched]
WholeTensor(w, i) == [k \in 1 .. ProductSeq(w.params[i].shape) |-> k]
Shape(w, i, r) == StorageRegion(w.params[i], r).shape
Gradient(w, i, r) ==
  ReadRegion(WholeTensor(w, i), w.params[i].shape, StorageRegion(w.params[i], r))

Init ==
  /\ world \in {w \in Worlds : \A i \in DOMAIN w.params : ValidLayout(w.layouts[i])}
  /\ bound = BindingOf(world, Resolutions(world))
  /\ Bindable
  /\ phase = [r \in Ranks |-> "plan"]
  /\ plan = [r \in Ranks |-> <<>>]
  /\ sendable = [r \in Ranks |-> <<>>]
  /\ fragments = [r \in Ranks |-> <<>>]
  /\ param = [r \in Ranks |->
                [i \in DOMAIN world.params |-> Garbage(ProductSeq(Shape(world, i, r)))]]

----------------------------------------------------------------------------
(* Planning. *)

\* The balancer may pick any owner; a divergent rank picks another.
Owner(w, r) ==
  IF r \in w.divergent THEN Last(Group.participants) ELSE Head(Group.participants)

PlansOf(w, r) ==
  [k \in DOMAIN Redistributed |->
     LET i == Redistributed[k]
     IN  PlanFor(w.params[i], Resolved[i].sharding, Group, BucketAxis, Owner(w, r))]

DomainsValid ==
  \A i \in ToSet(Redistributed) :
    /\ SupportsTransport(world.params[i], BucketAxis)
    /\ LET domain == StorageDomain(world.params[i], BucketAxis, Group.participants)
       IN  ValidDomain(domain) /\ OneRegionEach(domain.regions, Group.participants)

Planned(w, plans, r) ==
  LET toCompute == PackedSchedule(plans, "storage_to_compute", r)
      toStorage == PackedSchedule(plans, "compute_to_storage", r)
      Count(splits) == SumSeq(splits)
  IN  [plans |-> plans, toCompute |-> toCompute, toStorage |-> toStorage,
       storageNumel |-> Larger(Count(toCompute.inputSplits), Count(toStorage.outputSplits)),
       computeNumel |-> Larger(Count(toCompute.outputSplits), Count(toStorage.inputSplits))]

\* The rows a rank computes of a parameter, matrix by matrix.
ComputedRows(w, i, region) ==
  LET sizes == MatrixSizes(Resolved[i].sharding, w.params[i].shape)
  IN  IF sizes = <<>> THEN {[first |-> 0, stride |-> 0, count |-> 1, rows |-> region.shape[1]]}
      ELSE ToSet(MatrixViews(sizes, region.shape[1], region.offsets[1]))
Viewed(view, row) ==
  \E c \in 0 .. view.count - 1 : /\ row >= view.first + c * view.stride
                                 /\ row < view.first + c * view.stride + view.rows

Updated(w, i, region, tensor) ==
  [k \in DOMAIN tensor |->
     tensor[k] + UpdateTag * Cardinality({v \in ComputedRows(w, i, region) :
                               Viewed(v, Coordinate(region.shape, k - 1)[1])})]

LocallyUpdated(w, i, r) == Updated(w, i, StorageRegion(w.params[i], r), Gradient(w, i, r))

\* A bucket that moves nothing has no plan to compare and no collective to join.
RunLocalBucket(r) ==
  /\ phase[r] = "plan" /\ Redistributed = <<>>
  /\ param' = [param EXCEPT ![r] = [i \in DOMAIN world.params |-> LocallyUpdated(world, i, r)]]
  /\ phase' = [phase EXCEPT ![r] = "done"]
  /\ UNCHANGED <<world, bound, plan, sendable, fragments>>

Acceptable(plans, r) ==
  /\ DomainsValid
  /\ \A k \in DOMAIN plans : /\ ValidPlan(plans[k])
                             /\ plans[k].storage[r].shape = Shape(world, Redistributed[k], r)

\* A rank takes its plans, or raises.
Adopt(r, plans) ==
  IF Acceptable(plans, r)
  THEN /\ plan' = [plan EXCEPT ![r] = Planned(world, plans, r)]
       /\ phase' = [phase EXCEPT ![r] = "validate"]
  ELSE phase' = [phase EXCEPT ![r] = "invalid"] /\ UNCHANGED plan

Plan(r) ==
  /\ phase[r] = "plan" /\ Redistributed # <<>>
  /\ Adopt(r, PlansOf(world, r))
  /\ UNCHANGED <<world, bound, sendable, fragments, param>>

\* Mutant of ValidateAcrossRanks: compares with the first rank's plan only.
MutValidateWithFirst ==
  /\ \A r \in Ranks : phase[r] = "validate"
  /\ phase' = [r \in Ranks |->
                 IF plan[Head(Group.participants)].plans = plan[r].plans
                 THEN "prepare" ELSE "differ"]
  /\ UNCHANGED <<world, bound, plan, sendable, fragments, param>>

\* Every rank gathers every rank's plan and raises unless all equal its own.
ValidateAcrossRanks ==
  /\ \A r \in Ranks : phase[r] = "validate"
  /\ phase' = [r \in Ranks |->
                 IF \A s \in Ranks : plan[s].plans = plan[r].plans
                 THEN "prepare" ELSE "differ"]
  /\ UNCHANGED <<world, bound, plan, sendable, fragments, param>>

----------------------------------------------------------------------------
(* A step. *)

Overwrite(buffer, offset, elements) ==
  SubSeq(buffer, 1, offset) \o elements
    \o SubSeq(buffer, offset + Len(elements) + 1, Len(buffer))

SpansOf(spans, k) == Filter(spans, LAMBDA s : s.param = k)

\* Copies one parameter's regions into a buffer, and out of it.
PackInto(buffer, spans, k, tensor, shape) ==
  FoldLeft(LAMBDA b, s : Overwrite(b, s.offset, ReadRegion(tensor, shape, s.region)),
           buffer, SpansOf(spans, k))
UnpackInto(tensor, shape, spans, k, buffer) ==
  FoldLeft(LAMBDA t, s : WriteRegion(t, shape, s.region,
                           SubSeq(buffer, s.offset + 1, s.offset + Numel(s.region))),
           tensor, SpansOf(spans, k))

Each(n) == [k \in 1 .. n |-> k]

PrepareRedistributed(r) ==
  /\ phase[r] = "prepare"
  /\ sendable' = [sendable EXCEPT ![r] =
       FoldLeft(LAMBDA b, k : PackInto(b, plan[r].toCompute.inputs, k,
                                Gradient(world, Redistributed[k], r),
                                plan[r].plans[k].storage[r].shape),
                Garbage(plan[r].storageNumel), Each(Len(plan[r].plans)))]
  /\ fragments' = [fragments EXCEPT ![r] = Garbage(plan[r].computeNumel)]
  /\ phase' = [phase EXCEPT ![r] = "gather"]
  /\ UNCHANGED <<world, bound, plan, param>>

\* The part of a rank's input for the j-th participant.
Chunk(buffer, splits, j) ==
  LET before == SumSeq(SubSeq(splits, 1, j - 1))
  IN  SubSeq(buffer, before + 1, before + splits[j])

AllToAll(schedule, input, output, r) ==
  LET everyone == Group.participants
      me       == PositionIn(everyone, r)
      received == [j \in DOMAIN everyone |->
                     Chunk(input[everyone[j]], schedule[everyone[j]].inputSplits, me)]
  IN  Overwrite(output[r], 0, FlattenSeq(received))

\* Without remote transfers a rank copies its own input, and meets nobody.
Exchange(from, to, schedule, input, output) ==
  /\ \E who \in IF \E r \in Ranks : schedule[r].remote
                THEN {Ranks} ELSE {{r} : r \in Ranks} :
       /\ \A r \in who : phase[r] = from
       /\ phase' = [r \in Ranks |-> IF r \in who THEN to ELSE phase[r]]
       /\ output' = [r \in Ranks |->
                       CASE r \notin who -> output[r]
                         [] r \in who /\ schedule[r].remote ->
                              AllToAll(schedule, input, output, r)
                         [] r \in who /\ ~schedule[r].remote ->
                              Overwrite(output[r], 0,
                                SubSeq(input[r], 1, SumSeq(schedule[r].inputSplits)))]

Schedules(Which(_)) == [r \in Ranks |-> Which(plan[r])]
ToCompute(p) == p.toCompute
ToStorage(p) == p.toStorage

StorageToCompute ==
  /\ \E r \in Ranks : phase[r] = "gather"
  /\ Exchange("gather", "compute", Schedules(ToCompute), sendable, fragments)
  /\ UNCHANGED <<world, bound, plan, sendable, param>>

\* One parameter after the other: its fragments leave the buffer, are computed
\* on, and its update goes back into the same buffer.
ComputeOne(r, buffer, k) ==
  LET partition == plan[r].plans[k].compute[r]
      tensor == UnpackInto(Garbage(ProductSeq(partition.shape)), partition.shape,
                           plan[r].toCompute.outputs, k, buffer)
      update == Updated(world, Redistributed[k], partition.regions[1], tensor)
  IN  IF ProductSeq(partition.shape) = 0 THEN buffer
      ELSE PackInto(buffer, plan[r].toStorage.inputs, k, update, partition.shape)

Compute(r) ==
  /\ phase[r] = "compute"
  /\ fragments' = [fragments EXCEPT ![r] =
       FoldLeft(LAMBDA b, k : ComputeOne(r, b, k), @, Each(Len(plan[r].plans)))]
  /\ param' = [param EXCEPT ![r] =
       [i \in DOMAIN world.params |->
          IF i \in Local
          THEN LocallyUpdated(world, i, r)
          ELSE @[i]]]
  /\ phase' = [phase EXCEPT ![r] = "return"]
  /\ UNCHANGED <<world, bound, plan, sendable>>

ComputeToStorage ==
  /\ \E r \in Ranks : phase[r] = "return"
  /\ Exchange("return", "finalize", Schedules(ToStorage), fragments, sendable)
  /\ UNCHANGED <<world, bound, plan, fragments, param>>

FinalizeRedistributed(r) ==
  /\ phase[r] = "finalize"
  /\ param' = [param EXCEPT ![r] =
       [i \in DOMAIN world.params |->
          IF i \in Local THEN @[i]
          ELSE LET k == PositionIn(Redistributed, i)
                   shape == plan[r].plans[k].storage[r].shape
               IN  UnpackInto(Garbage(ProductSeq(shape)), shape,
                              plan[r].toStorage.outputs, k, sendable[r])]]
  /\ phase' = [phase EXCEPT ![r] = "done"]
  /\ UNCHANGED <<world, bound, plan, sendable, fragments>>

\* The step is over, or construction raised, on every rank.
Over ==
  /\ \/ \A r \in Ranks : phase[r] = "done"
     \/ \A r \in Ranks : phase[r] \in {"differ", "invalid"}
  /\ UNCHANGED vars

Next ==
  \/ \E r \in Ranks : \/ RunLocalBucket(r)
                             \/ Plan(r)
                             \/ PrepareRedistributed(r)
                             \/ Compute(r)
                             \/ FinalizeRedistributed(r)
  \/ ValidateAcrossRanks
  \/ StorageToCompute
  \/ ComputeToStorage
  \/ Over

Spec == Init /\ [][Next]_vars

----------------------------------------------------------------------------
(* Properties. *)

Starting == {"prepare", "gather", "compute", "return", "finalize", "done"}

\* _require_valid_plan never fires for a layout _resolve_storage_to_compute_transition
\* accepted: what DistMuon accepts at construction it can also transport.
AcceptedLayoutsPlan == \A r \in Ranks : phase[r] # "invalid"

\* A matrix is one that Newton-Schulz may run on alone.
Matrices(w, i, shape) ==
  LET sizes == MatrixSizes(Resolved[i].sharding, w.params[i].shape)
  IN  IF sizes # <<>> THEN ToSet(Blocks(sizes, shape, 0, NumBlocks(sizes, shape[1])))
      ELSE IF Len(shape) = 2 THEN {AtOrigin(shape)}
      ELSE {Rows(shape, k - 1, k) : k \in 1 .. shape[1]}

\* What a rank computes of a parameter, within the tensor its group shares.
ComputedOn(w, i, r) ==
  IF i \in Local THEN <<StorageRegion(w.params[i], r)>>
  ELSE plan[r].plans[PositionIn(Redistributed, i)].compute[r].regions

Contained(a, b) == Numel(Intersection(a, b)) = Numel(a)
LogicalShape(w, i, r) ==
  IF i \in Local THEN w.params[i].shape
  ELSE plan[r].plans[PositionIn(Redistributed, i)].shape

\* No rank computes part of a matrix (the assertion of _matrix_batch_views_from_shape
\* is about rows only): each matrix of a parameter lies whole on the ranks that
\* compute it, with each row of theirs in one view, and in a redistribution on
\* exactly one rank.
MatricesWhole ==
  \A i \in DOMAIN world.params :
    (\A r \in Ranks : phase[r] \in Starting) =>
      \A r \in Ranks : \A matrix \in Matrices(world, i, LogicalShape(world, i, r)) :
        LET Touching(s) == \E k \in DOMAIN ComputedOn(world, i, s) :
                              Numel(Intersection(matrix, ComputedOn(world, i, s)[k])) > 0
            Whole(s) == \E k \in DOMAIN ComputedOn(world, i, s) :
                              Contained(matrix, ComputedOn(world, i, s)[k])
        IN  /\ \A s \in Ranks : Touching(s) => Whole(s)
            /\ i \notin Local =>
                 Cardinality({s \in Ranks : Touching(s)}) = 1

\* When a rank finishes, every element it stores got the update of exactly that
\* element, once, whoever computed it: the bucket changes what travels together
\* and nothing else, and replicas of a parameter stay equal.
UpdatesApplied ==
  \A r \in Ranks : phase[r] = "done" =>
    \A i \in DOMAIN world.params :
      param[r][i] = [k \in DOMAIN Gradient(world, i, r) |-> Gradient(world, i, r)[k] + UpdateTag]

\* Ranks whose plans differ all raise, none is left in a collective; and the two
\* ends of every packed all-to-all that starts agree on what travels between them.
RanksAgree ==
  /\ (\E r \in Ranks : phase[r] = "differ") => \A r \in Ranks : phase[r] = "differ"
  /\ \A r, s \in Ranks :
       Redistributed # <<>> /\ phase[r] \in Starting /\ phase[s] \in Starting =>
         LET at(x) == PositionIn(Group.participants, x)
         IN  /\ plan[r].toCompute.inputSplits[at(s)] = plan[s].toCompute.outputSplits[at(r)]
             /\ plan[r].toStorage.inputSplits[at(s)] = plan[s].toStorage.outputSplits[at(r)]
=============================================================================
