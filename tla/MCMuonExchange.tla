--------------------------- MODULE MCMuonExchange ---------------------------
(* Small instances of MuonExchange for TLC. *)
EXTENDS MuonExchange, TLC

NoOrder == [d \in {} |-> <<>>]
Mesh(sizes, ranks) == [sizes |-> sizes, ranks |-> ranks]

\* Every placement and layout of one axis.
Placements(ndim) == {Replicate} \cup {Shard(d) : d \in 1 .. ndim}
Shardings == {Owned(<<>>), Owned(<<1, 2>>), Shard(1), BlockShard(<<2>>), BlockShard(<<1, 2>>)}

Partial(axes, values) == UNION {[d -> values] : d \in SUBSET axes}

\* Worlds of one parameter: any storage, any layout of the mesh's axes, with
\* either axis order for the first dimension.
Single(mesh, shapes, ranks) ==
  LET axes   == DOMAIN mesh.sizes
      orders == {NoOrder} \cup (IF Len(mesh.sizes) = 2 THEN {(1 :> <<2, 1>>)} ELSE {})
      stored == UNION {{[shape |-> s, mesh |-> mesh, placements |-> p] :
                          p \in [axes -> Placements(Len(s))]} : s \in shapes}
      layout == [shardings : Partial(axes, Shardings), order : orders]
  IN  {[mesh |-> mesh, rank |-> r, params |-> <<p>>, layouts |-> <<l>>, divergent |-> {}] :
         r \in ranks, p \in stored, l \in layout}

\* Uneven chunks, empty chunks, mesh orders the process group does not follow,
\* a unit axis, and a second axis.
SomeSingles ==
  Single(Mesh(<<2>>, <<0, 1>>), {<<3, 2>>, <<6, 1>>, <<3, 2, 1>>}, {0})
  \cup Single(Mesh(<<3>>, <<2, 0, 1>>), {<<6, 1>>, <<2, 2, 1>>, <<4, 1, 1>>}, {0})
  \cup Single(Mesh(<<4>>, <<3, 1, 0, 2>>), {<<6, 1>>, <<3, 2, 1>>}, {0})
  \cup Single(Mesh(<<1, 2>>, <<1, 0>>), {<<3, 2>>, <<2, 2, 1>>}, {0})
  \cup Single(Mesh(<<2, 2>>, <<0, 1, 2, 3>>), {<<6, 1>>, <<3, 2, 1>>}, {0, 1})

\* Buckets of several parameters over one axis.
Param(mesh, shape, placement) == [shape |-> shape, mesh |-> mesh, placements |-> <<placement>>]
On(sharding) == [shardings |-> <<sharding>>, order |-> NoOrder]
Bucket(mesh, params, layouts, divergent) ==
  [mesh |-> mesh, rank |-> 0, params |-> params, layouts |-> layouts, divergent |-> divergent]

Two == Mesh(<<2>>, <<1, 0>>)
Three == Mesh(<<3>>, <<0, 1, 2>>)

Sharded(mesh) == {<<Param(mesh, s, p), On(l)>> :
                    s \in {<<4, 2>>, <<3, 1>>}, p \in {Shard(1), Shard(2)}, l \in {Owned(<<>>)}}
                 \cup {<<Param(mesh, <<6, 1>>, Shard(1)), On(l)>> :
                         l \in {BlockShard(<<2>>), BlockShard(<<1, 2>>), Owned(<<2>>)}}
StoredRows(mesh) == {m \in Sharded(mesh) : m[1].placements = <<Shard(1)>> /\ m[1].shape # <<3, 1>>}
Replicated(mesh) == {<<Param(mesh, <<3, 1>>, Replicate), On(l)>> : l \in {Owned(<<>>), BlockShard(<<1, 2>>)}}

Buckets(mesh, members, n, divergent) ==
  {Bucket(mesh, [i \in 1 .. n |-> b[i][1]], [i \in 1 .. n |-> b[i][2]], divergent) :
     b \in [1 .. n -> members]}

\* Sharded with sharded and replicated with replicated, and ranks of which one
\* balances owners differently.
UniformBuckets ==
  Buckets(Two, Sharded(Two), 2, {}) \cup Buckets(Three, StoredRows(Three), 2, {})
  \cup Buckets(Two, Replicated(Two), 2, {}) \cup Buckets(Three, Replicated(Three), 2, {})
  \cup Buckets(Two, {<<Param(Two, <<3, 1>>, Replicate), On(Owned(<<>>))>>}, 3, {})
  \cup Buckets(Two, Sharded(Two), 1, {0}) \cup Buckets(Three, Replicated(Three), 1, {1})

SomeWorlds == SomeSingles \cup UniformBuckets

\* The same, with sharded and replicated parameters in one bucket.
MixedBuckets == Buckets(Two, Sharded(Two) \cup Replicated(Two), 2, {})
=============================================================================
