----------------------------- MODULE OwnedBuckets -----------------------------
(* Mixed buckets made from owner segments: [segments] and a mixed bucket.    *)
EXTENDS PlacementBuckets, OwnedPlacement, TLC

OwnedOf(n, shapes, segments) == MixedOf(n, shapes, segments) @@ [segments |-> segments]
IsOwned(b) == "segments" \in DOMAIN b

\* What a declaration says is owned by a rank is in that rank's storage, for
\* every segment of every parameter, and in no other's.
SegmentsHeld ==
  phase = "sharded" /\ IsOwned(bucket) =>
    \A p \in Params(bucket), r \in Ranks(bucket) : \A i \in DOMAIN bucket.segments[p] :
      LET s == bucket.segments[p][i]
          held == Range(LocalView(storage[r], Infos(bucket, r)[p]))
      IN  \A k \in s.from + 1 .. s.from + s.numel :
            (Weight(p, k, version) \in held) <=> (r = s.owner)
===============================================================================
