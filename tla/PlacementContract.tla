-------------------------- MODULE PlacementContract --------------------------
(***************************************************************************)
(* What every placement's collectives are built from: buffers of cells,    *)
(* the rank-local storage of a bucket, and the layout a rank declares for  *)
(* a checkpoint.                                                           *)
(*                                                                         *)
(* A cell is the set of what was added into it: nothing (a zero), one      *)
(* weight, or the gradients of several ranks.  Sizes and offsets count     *)
(* elements; ranks count from 0 and parameters from 1.                     *)
(***************************************************************************)
EXTENDS TensorRegions

Zero == {}
Junk == {<<0, 0, 0, 0>>}
\* Element k of parameter p at a version.
Weight(p, k, version) == {<<0, p, k, version>>}
\* The gradient a rank computes from a weight.
GradOf(r, weight) == IF weight = Junk THEN Junk ELSE {[w EXCEPT ![1] = r + 1] : w \in weight}

Cells(count, cell) == [i \in 1 .. count |-> cell]
Slice(s, at, count) == SubSeq(s, at + 1, at + count)
PadTo(s, count, cell) == s \o Cells(count - Len(s), cell)
Overwrite(s, at, data) ==
  [i \in DOMAIN s |-> IF at < i /\ i <= at + Len(data) THEN data[i - at] ELSE s[i]]
\* foreach_copy_ into ranges of one buffer.
Copied(s, copies) == FoldLeft(LAMBDA t, c : Overwrite(t, c.at, c.data), s, copies)

Ranks(g) == 0 .. g.n - 1
Params(g) == DOMAIN g.shapes
Size(g, p) == ProductSeq(g.shapes[p])
StartOf(sizes, i) == SumSeq(SubSeq(sizes, 1, i - 1))
AlignUp(value, alignment) == ((value + alignment - 1) \div alignment) * alignment

\* The ranks' rows back to back, and one rank's row of equal rows.
InRankOrder(n, row) == FlattenSeq([i \in 1 .. n |-> row[i - 1]])
Row(buffer, n, r) == LET m == Len(buffer) \div n IN Slice(buffer, r * m, m)

\* reduce_scatter with a sum: element by element over the ranks.
Summed(rows) == [i \in DOMAIN rows[0] |-> UNION {rows[q][i] : q \in DOMAIN rows}]

----------------------------------------------------------------------------
(* Rank-local storage.  An info is a parameter's local shape, its size, its *)
(* offset in the bucket's storage and the elements reserved there.         *)

Info(shape, offset, capacity) ==
  [shape |-> shape, numel |-> ProductSeq(shape), offset |-> offset, capacity |-> capacity]

\* Without a layout of the placement's own: one after another, an empty
\* shard at offset 0.
SequentialInfos(shapes) ==
  LET size(p)   == ProductSeq(shapes[p])
      before(p) == SumSeq([q \in 1 .. p - 1 |-> size(q)])
  IN  [p \in DOMAIN shapes |-> Info(shapes[p], IF size(p) > 0 THEN before(p) ELSE 0, size(p))]

Storage(infos, total) == [infos |-> infos, total |-> total]
TotalCapacity(infos) == SumSeq([p \in DOMAIN infos |-> infos[p].capacity])
LocalView(storage, info) == Slice(storage, info.offset, info.numel)

----------------------------------------------------------------------------
(* Layouts: the chunks of the full tensor a local one holds. *)

Chunk(globalAt, localAt, size) == [globalAt |-> globalAt, localAt |-> localAt, size |-> size]
Origin(shape) == [d \in DOMAIN shape |-> 0]
\* A shard that is one block of the tensor.
OneChunk(globalAt, shape) ==
  IF ProductSeq(shape) > 0 THEN <<Chunk(globalAt, Origin(shape), shape)>> ELSE <<>>

\* Where an outer chunk o, of a tensor in the global one, meets an inner one,
\* of the local tensor in that tensor.
MeetStart(o, i) == [d \in DOMAIN o.size |-> Larger(i.globalAt[d], o.localAt[d])]
MeetSize(o, i) ==
  [d \in DOMAIN o.size |-> Smaller(i.globalAt[d] + i.size[d], o.localAt[d] + o.size[d])
                             - MeetStart(o, i)[d]]

\* Mutant of Meet: forgets where the outer chunk starts in its tensor.
MutMeetAtOrigin(o, i) ==
  Chunk([d \in DOMAIN o.size |-> o.globalAt[d] + MeetStart(o, i)[d]],
        [d \in DOMAIN o.size |-> i.localAt[d] + MeetStart(o, i)[d] - i.globalAt[d]], MeetSize(o, i))

Meet(o, i) ==
  Chunk([d \in DOMAIN o.size |-> o.globalAt[d] + MeetStart(o, i)[d] - o.localAt[d]],
        [d \in DOMAIN o.size |-> i.localAt[d] + MeetStart(o, i)[d] - i.globalAt[d]], MeetSize(o, i))

Composed(outer, inner) ==
  FlattenSeq([a \in DOMAIN outer |-> FlattenSeq([c \in DOMAIN inner |->
    IF \A d \in DOMAIN outer[a].size : MeetSize(outer[a], inner[c])[d] > 0
    THEN <<Meet(outer[a], inner[c])>> ELSE <<>>])])

----------------------------------------------------------------------------
(* How one reduce-scatter makes the sum a bucket asks for.  A reduction is *)
(* an op, "avg" or "sum", with the factor avg divides by, 0 for the size   *)
(* of the group; a fraction is a pair.                                     *)

Factor(reduction, n) == IF reduction.factor = 0 THEN n ELSE reduction.factor

\* The power of two near sqrt(factor) that fp16 gradients are divided by
\* before their sum.
PreFactor(factor) ==
  LET done(e) == factor % 2^e # 0 \/ factor <= 2^e * 2^e
  IN  2^(CHOOSE e \in 0 .. factor : done(e) /\ \A x \in 0 .. e - 1 : ~done(x))

\* What the collective's inputs, its op and its output divide by.
NoDivision == [pre |-> <<1, 1>>, op |-> <<1, 1>>, post |-> <<1, 1>>]

\* Mutant of Divisions: divides in fp16 after the sum as if nothing was before.
MutDivisionsTwice(reduction, n) ==
  LET f == Factor(reduction, n) IN
  CASE reduction.op = "sum" -> NoDivision
    [] reduction.op = "avg" /\ n = 1 -> [NoDivision EXCEPT !.post = <<f, 1>>]
    [] reduction.op = "avg" /\ n > 1 /\ f = n -> [NoDivision EXCEPT !.op = <<n, 1>>]
    [] reduction.op = "avg" /\ n > 1 /\ f # n /\ reduction.dtype # "fp16" -> [NoDivision EXCEPT !.op = <<f, 1>>]
    [] OTHER -> [NoDivision EXCEPT !.pre = <<PreFactor(f), 1>>, !.post = <<f, 1>>]

Divisions(reduction, n) ==
  LET f == Factor(reduction, n) IN
  CASE reduction.op = "sum" -> NoDivision
    [] reduction.op = "avg" /\ n = 1 -> [NoDivision EXCEPT !.post = <<f, 1>>]
    [] reduction.op = "avg" /\ n > 1 /\ f = n -> [NoDivision EXCEPT !.op = <<n, 1>>]
    [] reduction.op = "avg" /\ n > 1 /\ f # n /\ reduction.dtype # "fp16" -> [NoDivision EXCEPT !.op = <<f, 1>>]
    [] OTHER -> [NoDivision EXCEPT !.pre = <<PreFactor(f), 1>>, !.post = <<f, PreFactor(f)>>]
=============================================================================
