--------------------------- MODULE MCBucketStreams ---------------------------
(* Small instances of BucketStreams for TLC. *)
EXTENDS BucketStreams

CONSTANTS b1, b2, b3

\* Gathers: three buckets that hooks gather, any number at once, and two of which
\* the program gathers one.  Reductions: two buckets with one at a time; one
\* bucket with two, drained down to one, or on one rank.
SomeSetups ==
  {[buckets |-> {b1, b2, b3}, fillInFinish |-> {b1}, explicit |-> {}, oneRank |-> FALSE,
    maxPending |-> 1, reductions |-> 0],
   [buckets |-> {b1, b2}, fillInFinish |-> {}, explicit |-> {b1}, oneRank |-> FALSE,
    maxPending |-> 1, reductions |-> 0],
   [buckets |-> {b1, b2}, fillInFinish |-> {b1}, explicit |-> {}, oneRank |-> FALSE,
    maxPending |-> 1, reductions |-> 1],
   [buckets |-> {b1}, fillInFinish |-> {}, explicit |-> {b1}, oneRank |-> FALSE,
    maxPending |-> 1, reductions |-> 2],
   [buckets |-> {b1}, fillInFinish |-> {}, explicit |-> {b1}, oneRank |-> TRUE,
    maxPending |-> 2, reductions |-> 2]}
==============================================================================
