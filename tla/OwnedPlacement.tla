---------------------------- MODULE OwnedPlacement ----------------------------
(***************************************************************************)
(* BucketedOwned: flat segments of parameters, each with an owner rank.  A *)
(* declaration is lowered to a BlockShard of dimension 0 per parameter,    *)
(* which makes a mixed bucket of it; one that cannot be is refused.        *)
(***************************************************************************)
EXTENDS PlacementContract, OwnerChoice

Segment(from, numel, owner) == [from |-> from, numel |-> numel, owner |-> owner]
Slab(shape) == ProductSeq(Tail(shape))
Whole(shape, segments) == Len(segments) = 1 /\ segments[1].from = 0 /\ segments[1].numel = ProductSeq(shape)

\* Mutant of Lowerable: takes slabs in any order of owners.
MutLowerableAnyOrder(shape, segments) ==
  \/ Whole(shape, segments)
  \/ /\ Len(segments) = shape[1]
     /\ \A i \in DOMAIN segments : segments[i].from = (i - 1) * Slab(shape) /\ segments[i].numel = Slab(shape)

\* The whole parameter, or its rows one by one with owners that never go back.
Lowerable(shape, segments) ==
  \/ Whole(shape, segments)
  \/ /\ Len(segments) = shape[1]
     /\ \A i \in DOMAIN segments : segments[i].from = (i - 1) * Slab(shape) /\ segments[i].numel = Slab(shape)
     /\ \A i, j \in DOMAIN segments : i < j => segments[i].owner <= segments[j].owner

\* blocks_per_rank: how many segments each rank owns.
Lowered(segments, n) ==
  [i \in 1 .. n |-> Len(SelectSeq(segments, LAMBDA s : s.owner = i - 1))]

MixedOf(n, shapes, segments) ==
  [n |-> n, shapes |-> shapes,
   places |-> [p \in DOMAIN shapes |-> [kind |-> "block", blocks |-> Lowered(segments[p], n), dim |-> 1]]]

----------------------------------------------------------------------------
(* Whole parameters, the largest first. *)

LargestFirst(sizes) ==
  SetToSortSeq(DOMAIN sizes, LAMBDA a, b : sizes[a] > sizes[b] \/ (sizes[a] = sizes[b] /\ a < b))

LeastLoaded(loads) ==
  CHOOSE r \in DOMAIN loads : \A q \in DOMAIN loads : loads[r] < loads[q] \/ (loads[r] = loads[q] /\ r <= q)

\* To the least loaded rank.
OwnersByLoad(sizes, carried) ==
  FoldLeft(LAMBDA acc, p : LET r == LeastLoaded(acc.loads)
                           IN  [loads |-> [acc.loads EXCEPT ![r] = @ + sizes[p]], owners |-> [acc.owners EXCEPT ![p] = r - 1]],
           [loads |-> carried, owners |-> [p \in DOMAIN sizes |-> 0]], LargestFirst(sizes)).owners

\* To the least loaded host, then its least loaded rank.
OwnersByHost(sizes, hosts, carried) ==
  FoldLeft(LAMBDA acc, p :
             LET r == CHOOSE r \in DOMAIN hosts : Chosen(acc.tally, hosts, FALSE, r)
             IN  [tally  |-> Assign(acc.tally, hosts, [primary |-> sizes[p], secondary |-> 0], r),
                  owners |-> [acc.owners EXCEPT ![p] = r - 1]],
           [tally |-> NewTally(hosts, carried), owners |-> [p \in DOMAIN sizes |-> 0]], LargestFirst(sizes)).owners

FullParamSegments(shapes, owners) ==
  [p \in DOMAIN shapes |-> <<Segment(0, ProductSeq(shapes[p]), owners[p])>>]

\* The owners of one bucket after another; with carry_loads each knows what
\* the ones before put on every rank.
OwnersOfBuckets(buckets, hosts, carryLoads) ==
  FoldLeft(LAMBDA acc, sizes :
             LET owners == OwnersByHost(sizes, hosts, IF carryLoads THEN acc.carried ELSE Zeros(DOMAIN hosts))
             IN  [carried |-> [i \in DOMAIN hosts |-> acc.carried[i] +
                                 SumSeq([p \in DOMAIN sizes |-> IF owners[p] = i - 1 THEN sizes[p] ELSE 0])],
                  owners  |-> Append(acc.owners, owners)],
           [carried |-> Zeros(DOMAIN hosts), owners |-> <<>>], buckets).owners

----------------------------------------------------------------------------
\* Packed experts: ceil(experts / n) to each rank in order.
ExpertOwner(experts, n, e) ==
  Smaller(e \div Larger(1, (experts + n - 1) \div n), n - 1)
ExpertSegments(shapes, n) ==
  [p \in DOMAIN shapes |-> [i \in 1 .. shapes[p][1] |->
     Segment((i - 1) * Slab(shapes[p]), Slab(shapes[p]), ExpertOwner(shapes[p][1], n, i - 1))]]
===============================================================================
