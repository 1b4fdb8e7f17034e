------------------------ MODULE BucketedBlockPlacement ------------------------
(***************************************************************************)
(* BucketedBlockShard(dims, blocks_per_rank): the parameters one after     *)
(* another in one bucket, which is cut into ranges of whole blocks, one    *)
(* per rank.  Offsets and blocks are multiples of every parameter's row,   *)
(* so a rank's part of a parameter is whole rows; a range may hold several *)
(* parameters, parts of them, and gaps.  The unsharded parameters are      *)
(* views of the gathered bucket.                                           *)
(*                                                                         *)
(* A bucket g is its world size n, its parameters' shapes, the blocks of   *)
(* each rank and how many leading dimensions make a row's index.           *)
(***************************************************************************)
EXTENDS PlacementContract

SuffixNumel(g, p) == ProductSeq(SubSeq(g.shapes[p], g.prefix + 1, Len(g.shapes[p])))
Lcm(a, b) == CHOOSE m \in 1 .. a * b : m % a = 0 /\ m % b = 0 /\ \A x \in 1 .. m - 1 : x % a # 0 \/ x % b # 0
Alignment(g) ==
  LET lcm[p \in 0 .. Len(g.shapes)] == IF p = 0 THEN 1 ELSE Lcm(lcm[p - 1], SuffixNumel(g, p))
  IN  lcm[Len(g.shapes)]

\* Where parameter p ends, after one that ends there.
ParamEnd(g, end, p) == AlignUp(end, Alignment(g)) + Size(g, p)
ParamOffset(g, p) ==
  LET end[q \in 0 .. p] == IF q = 0 THEN 0 ELSE ParamEnd(g, end[q - 1], q) IN end[p] - Size(g, p)

Unpadded(g) == ParamOffset(g, Len(g.shapes)) + Size(g, Len(g.shapes))
GlobalNumel(g) == AlignUp(Unpadded(g), Alignment(g) * SumSeq(g.blocks))
RankNumel(g, r) == g.blocks[r + 1] * (GlobalNumel(g) \div SumSeq(g.blocks))
RankOffset(g, r) == StartOf(g.blocks, r + 1) * (GlobalNumel(g) \div SumSeq(g.blocks))
Longest(g) == Largest([i \in 1 .. g.n |-> RankNumel(g, i - 1)])

\* The part of a parameter in a rank's range: its offset in the bucket and size.
LocalStart(g, r, p) == Larger(RankOffset(g, r), ParamOffset(g, p))
LocalNumel(g, r, p) ==
  Larger(0, Smaller(RankOffset(g, r) + RankNumel(g, r), ParamOffset(g, p) + Size(g, p)) - LocalStart(g, r, p))
LocalShape(g, r, p) ==
  <<LocalNumel(g, r, p) \div SuffixNumel(g, p)>> \o SubSeq(g.shapes[p], g.prefix + 1, Len(g.shapes[p]))

\* A range that is all padding is refused.
Shardable(g) ==
  /\ Len(g.blocks) = g.n
  /\ \A r \in Ranks(g) : RankNumel(g, r) > 0 => \E p \in Params(g) : LocalNumel(g, r, p) > 0

\* Only for prefix 1.
Layout(g, r, p) ==
  LET row == (LocalStart(g, r, p) - ParamOffset(g, p)) \div SuffixNumel(g, p)
  IN  OneChunk([Origin(g.shapes[p]) EXCEPT ![1] = row], LocalShape(g, r, p))

BucketStorage(g, r) ==
  Storage([p \in Params(g) |->
             Info(LocalShape(g, r, p), LocalStart(g, r, p) - RankOffset(g, r), LocalNumel(g, r, p))],
          RankNumel(g, r))

Stored(g, r, info, p, param, storage) ==
  IF info.numel = 0 THEN storage
  ELSE Overwrite(storage, info.offset,
         Slice(param, LocalStart(g, r, p) - ParamOffset(g, p), info.numel))

----------------------------------------------------------------------------
Sent(g, infos, storage) == PadTo(storage, Longest(g), Zero)

\* Without padding the rows are the bucket; with it each rank's range is
\* copied out of its row.
Gathered(g, rows, bucket) ==
  IF g.n * Longest(g) = GlobalNumel(g) THEN InRankOrder(g.n, rows)
  ELSE Copied(bucket, [i \in 1 .. g.n |->
         [at |-> RankOffset(g, i - 1), data |-> Slice(rows[i - 1], 0, RankNumel(g, i - 1))]])

BufferSizes(g) == <<GlobalNumel(g)>>
FullParams(g, buffers) ==
  [p \in Params(g) |-> Slice(buffers[1], ParamOffset(g, p), Size(g, p))]

----------------------------------------------------------------------------
\* Grads allocated in the parameters' layout: views of one zeroed bucket.
GradBucket(g, grads) ==
  Copied(Cells(GlobalNumel(g), Zero),
         [p \in Params(g) |-> [at |-> ParamOffset(g, p), data |-> grads[p]]])

\* The copy plan of one rank's row: the parameters' segments and, for what
\* they leave, the segments to zero.
\*
\* Mutant of Segments: takes each from the start of its parameter.
MutSegmentsFromStart(g, r) ==
  SelectSeq([p \in Params(g) |-> [param |-> p, from |-> 0, numel |-> LocalNumel(g, r, p),
                                  at |-> LocalStart(g, r, p) - RankOffset(g, r)]],
            LAMBDA s : s.numel > 0)

Segments(g, r) ==
  SelectSeq([p \in Params(g) |-> [param |-> p, from |-> LocalStart(g, r, p) - ParamOffset(g, p),
                                  numel |-> LocalNumel(g, r, p), at |-> LocalStart(g, r, p) - RankOffset(g, r)]],
            LAMBDA s : s.numel > 0)

EndOf(segments, i) == IF i = 0 THEN 0 ELSE segments[i].at + segments[i].numel
Zeros(from, to) == [at |-> from, numel |-> to - from]
Gaps(segments) == [i \in DOMAIN segments |-> Zeros(EndOf(segments, i - 1), segments[i].at)]

\* Mutant of ZeroSegments: zeroes between the parameters only.
MutZeroSegmentsBetween(g, r) == Gaps(Segments(g, r))

ZeroSegments(g, r) ==
  Append(Gaps(Segments(g, r)), Zeros(EndOf(Segments(g, r), Len(Segments(g, r))), Longest(g)))

CopyPlan(segments, zeroed, grads) ==
  [i \in DOMAIN segments |->
     [at |-> segments[i].at, data |-> Slice(grads[segments[i].param], segments[i].from, segments[i].numel)]]
  \o [i \in DOMAIN zeroed |-> [at |-> zeroed[i].at, data |-> Cells(zeroed[i].numel, Zero)]]

PackedRow(g, r, grads, row) == Copied(row, CopyPlan(Segments(g, r), ZeroSegments(g, r), grads))

\* A bucket of grads in this layout is reduced as it is, when nothing is
\* padded; contiguous grads are packed by kernels into memory that was never
\* written; others through a zeroed bucket, cut into rows.
Packed(g, grads, form) ==
  CASE form = "bucket" /\ g.n * Longest(g) = GlobalNumel(g) -> GradBucket(g, grads)
    [] form # "strided" /\ ~(form = "bucket" /\ g.n * Longest(g) = GlobalNumel(g)) ->
         FlattenSeq([r \in 1 .. g.n |-> PackedRow(g, r - 1, grads, Cells(Longest(g), Junk))])
    [] OTHER -> FlattenSeq([r \in 1 .. g.n |->
         PadTo(Slice(GradBucket(g, grads), RankOffset(g, r - 1), RankNumel(g, r - 1)), Longest(g), Zero)])

Unpacked(g, r, received) ==
  LET infos == BucketStorage(g, r).infos
  IN  [p \in Params(g) |-> Slice(received, infos[p].offset, infos[p].numel)]
==============================================================================
