----------------------------- MODULE MixedBucket -----------------------------
(***************************************************************************)
(* One bucket of parameters under Shard(0) and several BlockShards, with   *)
(* one all-gather and one reduce-scatter.  Parameters of equal placements  *)
(* form a group, which keeps its own layout at its offset of every row.  A *)
(* group with one owner rank fills only the owner's row, so groups with    *)
(* different owners share the columns before those of the others.  When    *)
(* every group has one owner the rows keep their own lengths and the       *)
(* unsharded parameters are views of them.                                 *)
(*                                                                         *)
(* A bucket b is its world size n, its parameters' shapes and their        *)
(* placements: [kind |-> "shard"] or a kind "block" with blocks and dim.   *)
(***************************************************************************)
EXTENDS PlacementContract

S == INSTANCE ShardPlacement
B == INSTANCE BlockShardPlacement
NoOwner == -1

Groups(b) ==
  LET params == [p \in Params(b) |-> p]
      firsts == SelectSeq(params, LAMBDA p : \A q \in 1 .. p - 1 : b.places[q] # b.places[p])
  IN  [i \in DOMAIN firsts |-> SelectSeq(params, LAMBDA p : b.places[p] = b.places[firsts[i]])]
PlaceOf(b, i) == b.places[Groups(b)[i][1]]
IsShard(b, i) == PlaceOf(b, i).kind = "shard"
Taken(s, group) == [j \in DOMAIN group |-> s[group[j]]]

\* A group as a bucket of its own placement.
SubBucket(b, i) ==
  LET shapes == Taken(b.shapes, Groups(b)[i]) IN
  IF IsShard(b, i) THEN [n |-> b.n, shapes |-> shapes, dims |-> [j \in DOMAIN shapes |-> 1]]
  ELSE [n |-> b.n, shapes |-> shapes, blocks |-> PlaceOf(b, i).blocks, dim |-> PlaceOf(b, i).dim]
GroupOf(b, p) == CHOOSE i \in DOMAIN Groups(b) : \E j \in DOMAIN Groups(b)[i] : Groups(b)[i][j] = p
IndexOf(b, p) == LET group == Groups(b)[GroupOf(b, p)] IN CHOOSE j \in DOMAIN group : group[j] = p

\* The rank with the only block of a group, if one has.
Owner(b, i) ==
  IF ~IsShard(b, i) /\ \E r \in Ranks(b) : \A q \in Ranks(b) : PlaceOf(b, i).blocks[q + 1] = (IF q = r THEN 1 ELSE 0)
  THEN CHOOSE r \in Ranks(b) : PlaceOf(b, i).blocks[r + 1] = 1
  ELSE NoOwner
OwnerRows(b) == \A i \in DOMAIN Groups(b) : Owner(b, i) # NoOwner

Shardable(b) ==
  \A i \in DOMAIN Groups(b) :
    IF IsShard(b, i) THEN S!Shardable(SubBucket(b, i)) ELSE B!Shardable(SubBucket(b, i))

----------------------------------------------------------------------------
(* Rows: the groups of each owner from the start, the others after the     *)
(* longest of those.                                                       *)

GroupNumel(b, i) ==
  IF IsShard(b, i) THEN SumSeq(S!Capacities(SubBucket(b, i))) ELSE B!RowNumel(SubBucket(b, i))
NumelBefore(b, i, owner) ==
  SumSeq([j \in 1 .. i - 1 |-> IF Owner(b, j) = owner THEN GroupNumel(b, j) ELSE 0])
OwnerNumel(b, r) == NumelBefore(b, Len(Groups(b)) + 1, r)

RowNumels(b) == [i \in 1 .. b.n |-> OwnerNumel(b, i - 1)]
RegularBase(b) == Largest(RowNumels(b))

Offset(b, i) == NumelBefore(b, i, Owner(b, i)) + IF Owner(b, i) = NoOwner THEN RegularBase(b) ELSE 0
RowNumel(b) == RegularBase(b) + OwnerNumel(b, NoOwner)

RowStart(b, r) == StartOf(RowNumels(b), r + 1)
\* Where a parameter starts in the rows back to back.
ParamStart(b, p) ==
  LET i == GroupOf(b, p)
  IN  RowStart(b, Owner(b, i)) + Offset(b, i) + B!SlotStart(SubBucket(b, i), IndexOf(b, p))

----------------------------------------------------------------------------
SubInfos(b, i, r) ==
  IF IsShard(b, i) THEN S!BucketStorage(SubBucket(b, i), r).infos ELSE B!BucketStorage(SubBucket(b, i), r).infos

\* Where a group's storage starts: after those before it.
GroupStart(b, i, r) == SumSeq([j \in 1 .. i - 1 |-> TotalCapacity(SubInfos(b, j, r))])

\* With one owner each, a rank's parameters lie as in its row; otherwise the
\* groups' storages follow one another.  A block shard that is empty is at 0.
BucketStorage(b, r) ==
  LET at(i, info) == CASE OwnerRows(b) -> IF Owner(b, i) = r THEN Offset(b, i) + info.offset ELSE 0
                       [] ~OwnerRows(b) /\ ~IsShard(b, i) /\ info.numel = 0 -> 0
                       [] OTHER -> GroupStart(b, i, r) + info.offset
      info(p)   == LET i == GroupOf(b, p) IN SubInfos(b, i, r)[IndexOf(b, p)]
  IN  Storage([p \in Params(b) |-> Info(info(p).shape, at(GroupOf(b, p), info(p)), info(p).capacity)],
              IF OwnerRows(b) THEN OwnerNumel(b, r) ELSE GroupStart(b, Len(Groups(b)) + 1, r))

Layout(b, r, p) ==
  LET i == GroupOf(b, p) IN
  IF IsShard(b, i) THEN S!Layout(SubBucket(b, i), r, IndexOf(b, p))
  ELSE B!Layout(SubBucket(b, i), r, IndexOf(b, p))

Stored(b, r, info, p, param, storage) ==
  LET i == GroupOf(b, p) IN
  IF IsShard(b, i) THEN S!Stored(SubBucket(b, i), r, info, IndexOf(b, p), param, storage)
  ELSE B!Stored(SubBucket(b, i), r, info, IndexOf(b, p), param, storage)

----------------------------------------------------------------------------
(* Unshard. *)

GroupSent(b, i, infos, storage) ==
  IF IsShard(b, i) THEN S!Sent(SubBucket(b, i), Taken(infos, Groups(b)[i]), storage)
  ELSE B!Sent(SubBucket(b, i), Taken(infos, Groups(b)[i]), storage)

\* Into a row whose owner columns are zeroed go the groups of all ranks and
\* those this rank owns.
GroupsOfRow(b, r) ==
  SelectSeq([i \in DOMAIN Groups(b) |-> i], LAMBDA i : Owner(b, i) \in {NoOwner, r})

EmptyRow(b) == Cells(RegularBase(b), Zero) \o Cells(RowNumel(b) - RegularBase(b), Junk)

\* An owner row is sent as it is stored.
Sent(b, infos, storage, r) ==
  IF OwnerRows(b) THEN Slice(storage, 0, OwnerNumel(b, r))
  ELSE Copied(EmptyRow(b), [j \in DOMAIN GroupsOfRow(b, r) |->
         LET i == GroupsOfRow(b, r)[j] IN [at |-> Offset(b, i), data |-> GroupSent(b, i, infos, storage)]])

\* The outputs of the first ranks: the backend takes two empty ones for one
\* aliased buffer, so the first is then a spare element.
MutFirstOutputsEmpty(b) == [i \in 1 .. Smaller(2, b.n) |-> RowNumels(b)[i]]
FirstOutputs(b) ==
  [i \in 1 .. Smaller(2, b.n) |->
     IF i = 1 /\ b.n > 1 /\ RowNumels(b)[1] = 0 /\ RowNumels(b)[2] = 0 THEN 1 ELSE RowNumels(b)[i]]
EvenRows(b) == \A r \in Ranks(b) : OwnerNumel(b, r) = OwnerNumel(b, 0)

Gathered(b, rows) ==
  LET gathered == InRankOrder(b.n, rows) IN
  IF OwnerRows(b) /\ ~EvenRows(b) /\ FirstOutputs(b) = <<0, 0>>
  THEN Cells(Len(gathered), Junk) ELSE gathered

GroupBufferSizes(b, i) ==
  IF IsShard(b, i) THEN S!BufferSizes(SubBucket(b, i)) ELSE B!BufferSizes(SubBucket(b, i))
BufferSizes(b) ==
  IF OwnerRows(b) THEN <<SumSeq(RowNumels(b))>>
  ELSE FlattenSeq([i \in DOMAIN Groups(b) |-> GroupBufferSizes(b, i)])
GroupBuffers(b, i, buffers) ==
  Slice(buffers, SumSeq([j \in 1 .. i - 1 |-> Len(Groups(b)[j])]), Len(Groups(b)[i]))

GroupGathered(b, i, gathered) ==
  FlattenSeq([r \in 1 .. b.n |-> Slice(gathered, (r - 1) * RowNumel(b) + Offset(b, i), GroupNumel(b, i))])
CopiedOut(b, gathered, buffers) ==
  IF OwnerRows(b) THEN <<gathered>>
  ELSE FlattenSeq([i \in DOMAIN Groups(b) |->
    IF IsShard(b, i) THEN S!CopiedOut(SubBucket(b, i), GroupGathered(b, i, gathered), GroupBuffers(b, i, buffers))
    ELSE B!CopiedOut(SubBucket(b, i), GroupGathered(b, i, gathered), GroupBuffers(b, i, buffers))])

FullParams(b, buffers) ==
  [p \in Params(b) |->
     LET i == GroupOf(b, p) IN
     CASE OwnerRows(b) -> Slice(buffers[1], ParamStart(b, p), Size(b, p))
       [] ~OwnerRows(b) /\ IsShard(b, i) ->
            S!FullParams(SubBucket(b, i), GroupBuffers(b, i, buffers))[IndexOf(b, p)]
       [] OTHER -> GroupBuffers(b, i, buffers)[IndexOf(b, p)]]

----------------------------------------------------------------------------
(* Reduce. *)

GroupPacked(b, i, r, grads, form, row) ==
  LET sub == SubBucket(b, i)
      own == Taken(grads, Groups(b)[i])
  IN  CASE Owner(b, i) # NoOwner -> B!PackedRow(sub, r, own, Slice(row, Offset(b, i), GroupNumel(b, i)))
        [] Owner(b, i) = NoOwner /\ IsShard(b, i) -> Row(S!Packed(sub, own, form), b.n, r)
        [] OTHER -> Row(B!Packed(sub, own, form), b.n, r)

\* Owner rows: a gradient bucket in the parameters' layout is zeroed when it is
\* allocated, one the grads are copied into is not.
Packed(b, grads, form) ==
  IF OwnerRows(b)
  THEN Copied(Cells(SumSeq(RowNumels(b)), IF form = "bucket" THEN Zero ELSE Junk),
              [p \in Params(b) |-> [at |-> ParamStart(b, p), data |-> grads[p]]])
  ELSE FlattenSeq([k \in 1 .. b.n |->
         Copied(EmptyRow(b), [j \in DOMAIN GroupsOfRow(b, k - 1) |->
           LET i == GroupsOfRow(b, k - 1)[j]
           IN  [at |-> Offset(b, i), data |-> GroupPacked(b, i, k - 1, grads, form, EmptyRow(b))]])])

RankRow(b, packed, r) ==
  IF OwnerRows(b) THEN Slice(packed, RowStart(b, r), OwnerNumel(b, r)) ELSE Row(packed, b.n, r)

\* With uneven rows this rank's may be too short to hold another's group.
GroupReceived(b, i, r, received) ==
  IF OwnerRows(b) /\ ~EvenRows(b) /\ Owner(b, i) # r THEN <<>>
  ELSE Slice(received, Offset(b, i), GroupNumel(b, i))

Unpacked(b, r, received) ==
  [p \in Params(b) |->
     LET i == GroupOf(b, p)
         mine == GroupReceived(b, i, r, received)
     IN  IF IsShard(b, i) THEN S!Unpacked(SubBucket(b, i), r, mine)[IndexOf(b, p)]
         ELSE B!Unpacked(SubBucket(b, i), r, mine)[IndexOf(b, p)]]
==============================================================================
