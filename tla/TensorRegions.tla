---------------------------- MODULE TensorRegions ----------------------------
(***************************************************************************)
(* Rectangular tensor regions, as the redistribution schedules of DistMuon *)
(* describe them, and what a checked list of them covers.  Shapes, offsets *)
(* and coordinates are sequences of naturals; a tensor is the sequence of  *)
(* its elements in row-major order.                                        *)
(***************************************************************************)
EXTENDS Integers, Sequences, SequencesExt

Larger(a, b) == IF a >= b THEN a ELSE b
Smaller(a, b) == IF a <= b THEN a ELSE b
SumSeq(s) ==
  LET sum[i \in 0 .. Len(s)] == IF i = 0 THEN 0 ELSE sum[i - 1] + s[i] IN sum[Len(s)]
ProductSeq(s) ==
  LET product[i \in 0 .. Len(s)] == IF i = 0 THEN 1 ELSE product[i - 1] * s[i] IN product[Len(s)]
\* Of naturals.
Largest(s) ==
  LET largest[i \in 0 .. Len(s)] == IF i = 0 THEN 0 ELSE Larger(largest[i - 1], s[i]) IN largest[Len(s)]

Region(offsets, shape) == [offsets |-> offsets, shape |-> shape]
Numel(region) == ProductSeq(region.shape)
AtOrigin(shape) == Region([d \in DOMAIN shape |-> 0], shape)
Relative(region, origin) ==
  Region([d \in DOMAIN region.offsets |-> region.offsets[d] - origin[d]], region.shape)
TotalNumel(regions) == SumSeq([i \in DOMAIN regions |-> Numel(regions[i])])

\* The source gives None where this region has no elements.
Intersection(a, b) ==
  LET start == [d \in DOMAIN a.shape |-> Larger(a.offsets[d], b.offsets[d])]
      end   == [d \in DOMAIN a.shape |->
                  Smaller(a.offsets[d] + a.shape[d], b.offsets[d] + b.shape[d])]
  IN  Region(start, [d \in DOMAIN a.shape |-> Larger(0, end[d] - start[d])])

InBounds(region, shape) ==
  /\ Len(region.offsets) = Len(shape)
  /\ Len(region.shape) = Len(shape)
  /\ \A d \in DOMAIN shape : /\ region.offsets[d] >= 0
                             /\ region.shape[d] >= 0
                             /\ region.offsets[d] + region.shape[d] <= shape[d]

DisjointInBounds(regions, shape) ==
  /\ \A i \in DOMAIN regions : InBounds(regions[i], shape)
  /\ \A i, j \in DOMAIN regions :
        i < j => Numel(Intersection(regions[i], regions[j])) = 0

PartitionTensor(regions, shape) ==
  DisjointInBounds(regions, shape) /\ TotalNumel(regions) = ProductSeq(shape)

\* Counts elements: the regions are disjoint, have as many elements as the
\* expected ones, and each lies within them.
CoverPartition(regions, expected, shape) ==
  /\ DisjointInBounds(regions, shape)
  /\ TotalNumel(regions) = TotalNumel(expected)
  /\ \A i \in DOMAIN regions :
        TotalNumel([j \in DOMAIN expected |-> Intersection(regions[i], expected[j])])
          = Numel(regions[i])

\* DTensor's split of a dimension over n ranks: ceil(size / n) each, the last
\* ones short or empty.
ChunkStart(size, n, i) == Smaller(i * ((size + n - 1) \div n), size)
ChunkSize(size, n, i) == ChunkStart(size, n, i + 1) - ChunkStart(size, n, i)

----------------------------------------------------------------------------
(* Elements. *)

\* The coordinate of the k-th element (from 0) of a shape, and back.
Coordinate(shape, k) ==
  [d \in DOMAIN shape |->
     (k \div ProductSeq(SubSeq(shape, d + 1, Len(shape)))) % shape[d]]
Position(shape, c) ==
  SumSeq([d \in DOMAIN shape |-> c[d] * ProductSeq(SubSeq(shape, d + 1, Len(shape)))])

Shifted(c, by) == [d \in DOMAIN c |-> c[d] + by[d]]
Within(c, region) ==
  \A d \in DOMAIN c : c[d] >= region.offsets[d] /\ c[d] < region.offsets[d] + region.shape[d]

\* The elements of a region of a tensor, in order.
ReadRegion(tensor, shape, region) ==
  [k \in 1 .. Numel(region) |->
     tensor[1 + Position(shape, Shifted(Coordinate(region.shape, k - 1), region.offsets))]]

\* The tensor with a region overwritten.
WriteRegion(tensor, shape, region, elements) ==
  [k \in DOMAIN tensor |->
     LET c == Coordinate(shape, k - 1)
     IN  IF Within(c, region)
         THEN elements[1 + Position(region.shape,
                              [d \in DOMAIN c |-> c[d] - region.offsets[d]])]
         ELSE tensor[k]]
=============================================================================
