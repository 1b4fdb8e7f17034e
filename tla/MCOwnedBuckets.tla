--------------------------- MODULE MCOwnedBuckets ---------------------------
(* Small buckets of Shard, BlockShard and BucketedBlockShard, and mixed ones, *)
(* declared by placement or by owner segments.                                *)
EXTENDS OwnedBuckets

Average == [op |-> "avg", factor |-> 0, dtype |-> "fp32"]
By(factor, dtype) == [op |-> "avg", factor |-> factor, dtype |-> dtype]
Add == [op |-> "sum", factor |-> 0, dtype |-> "fp32"]

\* The full tensors are the global ones.
WholeOf(shapes) == [p \in DOMAIN shapes |-> OneChunk(Origin(shapes[p]), shapes[p])]
Plain(kind, n, shapes, reduction) ==
  [kind |-> kind, n |-> n, shapes |-> shapes, outer |-> WholeOf(shapes), globals |-> shapes,
   reduction |-> reduction]

ShardOf(n, shapes, dims, reduction) == Plain("shard", n, shapes, reduction) @@ [dims |-> dims]
BlockOf(n, shapes, blocks, dim) ==
  Plain("block", n, shapes, Average) @@ [blocks |-> blocks, dim |-> dim]
BucketedOf(n, shapes, blocks, prefix) ==
  Plain("bucketed", n, shapes, Average) @@ [blocks |-> blocks, prefix |-> prefix]

\* A tensor whose first half is rows 2 and 3 of a global tensor of 8 rows, and
\* whose second half is rows 6 and 7.
Strided(b) ==
  [b EXCEPT !.outer[1] = <<Chunk(<<2, 0>>, <<0, 0>>, <<2, 2>>), Chunk(<<6, 0>>, <<2, 0>>, <<2, 2>>)>>,
            !.globals[1] = <<8, 2>>]

A == <<<<4, 2>>, <<3>>, <<2, 1>>>>
Q == <<<<6, 2>>, <<3, 2>>>>
SmallBuckets ==
  {ShardOf(2, A, <<1, 1, 1>>, Average), ShardOf(3, A, <<1, 1, 1>>, By(12, "fp16")),
   ShardOf(1, A, <<2, 1, 1>>, By(6, "fp32")), ShardOf(2, A, <<2, 1, 1>>, By(6, "fp32")),
   ShardOf(2, A, <<1, 1, 1>>, Add),
   ShardOf(2, <<<<2, 4, 3>>, <<5>>>>, <<2, 1>>, By(8, "fp16")),
   BlockOf(3, Q, <<1, 0, 2>>, 1), BlockOf(2, Q, <<1, 2>>, 1), BlockOf(2, Q, <<1, 1>>, 2),
   BlockOf(2, <<<<2, 3, 2>>, <<1, 6>>>>, <<1, 2>>, 2),
   BucketedOf(2, Q, <<1, 1>>, 1), BucketedOf(3, <<<<6, 2>>, <<4, 2>>>>, <<1, 2, 1>>, 1), BucketedOf(2, Q, <<3, 0>>, 1),
   BucketedOf(2, <<<<2, 3>>, <<1, 4>>>>, <<1, 1>>, 1),
   Strided(ShardOf(3, <<<<4, 2>>>>, <<1>>, Average)), Strided(BlockOf(2, <<<<4, 2>>>>, <<1, 3>>, 1)),
   Strided(BucketedOf(2, <<<<4, 2>>>>, <<1, 3>>, 1)), Strided(ShardOf(2, <<<<4, 2>>>>, <<2>>, Average))}

----------------------------------------------------------------------------
(* Mixed buckets. *)

Full(b) ==
  [kind |-> "mixed", outer |-> WholeOf(b.shapes), globals |-> b.shapes,
   reduction |-> Average] @@ b

Shard0 == [kind |-> "shard"]
Block(blocks, dim) == [kind |-> "block", blocks |-> blocks, dim |-> dim]
Mixed(n, shapes, places) == Full([n |-> n, shapes |-> shapes, places |-> places])

Four == <<<<4, 2>>, <<3>>, <<2, 2>>, <<2, 1>>>>
Placed ==
  {Mixed(2, Four, <<Shard0, Block(<<1, 0>>, 1), Block(<<0, 1>>, 1), Shard0>>),
   Mixed(2, Four, <<Block(<<1, 1>>, 1), Shard0, Block(<<0, 1>>, 1), Shard0>>),
   Mixed(3, Four, <<Block(<<0, 1, 0>>, 1), Shard0, Block(<<1, 0, 1>>, 2), Block(<<1, 0, 0>>, 1)>>),
   Mixed(2, Four, <<Block(<<1, 0>>, 1), Block(<<0, 1>>, 1), Block(<<1, 0>>, 1), Block(<<0, 1>>, 1)>>),
   Mixed(3, Four, <<Block(<<0, 0, 1>>, 1), Block(<<0, 0, 1>>, 1), Block(<<0, 0, 1>>, 2), Block(<<0, 0, 1>>, 1)>>),
   Strided(Mixed(2, Four, <<Block(<<0, 1>>, 1), Shard0, Block(<<1, 1>>, 2), Block(<<1, 0>>, 1)>>)),
   Strided(Mixed(2, Four, <<Shard0, Shard0, Block(<<1, 0>>, 1), Block(<<1, 1>>, 1)>>))}

\* Equal rows: two ranks with a parameter of four each.
Even == <<<<4>>, <<2, 2>>>>
Declarations(n, shapes, owners) ==
  {FullParamSegments(shapes, owners), [FullParamSegments(shapes, owners) EXCEPT ![1] =
     [i \in 1 .. shapes[1][1] |-> Segment((i - 1) * Slab(shapes[1]), Slab(shapes[1]), (i - 1) % n)]]}

SizesOf(shapes) == [p \in DOMAIN shapes |-> ProductSeq(shapes[p])]
Hosts == <<0, 0, 1>>
Experts == <<<<4, 2, 1>>, <<4, 1, 2>>>>
Declared ==
  {<<3, Four, s>> : s \in Declarations(3, Four, OwnersByHost(SizesOf(Four), Hosts, <<0, 0, 0>>))}
  \cup {<<2, Four, s>> : s \in Declarations(2, Four, OwnersByLoad(SizesOf(Four), [r \in 1 .. 2 |-> 0]))}
  \cup {<<2, Even, FullParamSegments(Even, o)>> : o \in {<<0, 1>>, <<1, 0>>}}
  \cup {<<3, Four, FullParamSegments(Four, OwnersOfBuckets(<<<<4>>, SizesOf(Four)>>, Hosts, c)[2])>> : c \in BOOLEAN}
  \cup {<<n, Experts, ExpertSegments(Experts, n)>> : n \in {1, 2, 3}}

MixedBuckets ==
  Placed \cup
  {Full(OwnedOf(d[1], d[2], d[3])) :
     d \in {e \in Declared : \A p \in DOMAIN e[2] : Lowerable(e[2][p], e[3][p])}}

SomeBuckets == SmallBuckets \cup MixedBuckets

\* Each is one its placement accepts.
ASSUME SomeBucketsAssumption ==
  \A b \in SomeBuckets :
    CASE b.kind = "shard" -> Sh!Shardable(b) [] b.kind = "block" -> Bl!Shardable(b)
      [] b.kind = "bucketed" -> Bb!Shardable(b) [] b.kind = "mixed" -> Mx!Shardable(b)
=============================================================================
