------------------------ MODULE BucketRuntimeProofs ------------------------
(***************************************************************************)
(* Safety of BucketRuntime for every value of its constants: types, who    *)
(* owns the memory of the unsharded params, the limits on prefetches and   *)
(* on pending reductions, that no running forward reads freed storage;     *)
(* then what a running module reads (NoFreedRead, CurrentWeights), in its  *)
(* forward and in its backward, and what becomes of every grad.            *)
(*                                                                         *)
(* Each method of the source gets a lemma: it keeps a runtime state Sound. *)
(* Each action then preserves the inductive invariant IInv, which adds the *)
(* types of the variables and what an open forward relies on.  The second  *)
(* half follows the effect of each method on the buckets, on the           *)
(* prefetches and on the context; then the weights the buckets hold; then  *)
(* the order of the events in the graphs and in a running backward, by     *)
(* which no call of a bucket is resharded while another one, or its own    *)
(* backward, needs it.                                                     *)
(***************************************************************************)
EXTENDS BucketRuntime, FiniteSetTheorems, SequenceTheorems, TLAPS

\* A prefetch of bucket b is in flight.
InFlight(s, b) == \E p \in s.pending_unshards : p.bucket = b

\* The storage of bucket b is allocated exactly when b is unsharded or a refill
\* that writes it is in flight (b's conjunct of StorageAccounted).
AccountedFor(k, b, inflight) ==
  k.alloc <=> (k.is_unsharded \/ (inflight /\ k.created /\ b \notin RefillsInFinish))

\* StorageAccounted of a runtime state s.
Accounted(s) == \A b \in Bucket : AccountedFor(s.bucket[b], b, InFlight(s, b))

\* PrefetchesBounded of a runtime state s.
Exclusive(s) ==
  /\ \A p \in s.pending_unshards : ~s.bucket[p.bucket].is_unsharded
  /\ \A p, q \in s.pending_unshards : p.bucket = q.bucket => p = q
  /\ \A p, q \in s.pending_unshards : ~p.explicit /\ ~q.explicit => p = q

\* ReduceBacklogBounded of a runtime state s.
BacklogBounded(s) ==
  MaxPendingReduceGrads > 0 => Len(s.reduce_grad_states) <= MaxPendingReduceGrads

\* What every method of the runtime preserves.  The forward order records a bucket
\* once (next_forward_bucket then names one successor), so that the learned order
\* prefetches one bucket at a time.
Sound(s) ==
  /\ s \in Runtime /\ Accounted(s) /\ Exclusive(s)
  /\ IsInjective(s.forward_order) /\ BacklogBounded(s)

-----------------------------------------------------------------------------
(* The methods of one bucket and of the context keep the runtime sound *)

\* free(): the storage loses its bytes, the bucket keeps its state.
LEMMA FreeFacts ==
  ASSUME NEW k \in BucketState
  PROVE  /\ Free(k) \in BucketState
         /\ Free(k).is_unsharded = k.is_unsharded
         /\ Free(k).created = k.created
         /\ ~Free(k).alloc
BY DEF Free, BucketState

\* reshard(): sharded, and the storage loses its bytes.
LEMMA ReshardFacts ==
  ASSUME NEW k \in BucketState
  PROVE  /\ Reshard(k) \in BucketState
         /\ ~Reshard(k).is_unsharded
         /\ Reshard(k).created = k.created
         /\ ~Reshard(k).alloc
BY DEF Reshard, Free, BucketState

\* begin_unshard() on the storage: allocated early for a refill it writes.
LEMMA BeginFacts ==
  ASSUME NEW k \in BucketState, NEW b
  PROVE  /\ BeginUnshard(b, k) \in BucketState
         /\ BeginUnshard(b, k).is_unsharded = k.is_unsharded
         /\ BeginUnshard(b, k).created = k.created
         /\ BeginUnshard(b, k).alloc <=> (k.alloc \/ (k.created /\ b \notin RefillsInFinish))
BY DEF BeginUnshard, BucketState

\* finish_unshard() on the storage: unsharded, and allocated whichever way the
\* gather went.
LEMMA FinishFacts ==
  ASSUME NEW k \in BucketState, NEW b, NEW version \in Nat
  PROVE  /\ FinishUnshard(b, k, version) \in BucketState
         /\ FinishUnshard(b, k, version).is_unsharded
         /\ FinishUnshard(b, k, version).created
         /\ FinishUnshard(b, k, version).alloc <=> (k.alloc \/ ~k.created \/ b \in RefillsInFinish)
BY DEF FinishUnshard, BucketState

\* Releasing prefetches in flight frees what their refills allocated and nothing an
\* unsharded bucket reads.
LEMMA ReleaseSound ==
  ASSUME NEW s, Sound(s), NEW P \in SUBSET s.pending_unshards
  PROVE  /\ Sound(ReleasePrefetches(s, P))
         /\ \A b \in Bucket : ReleasePrefetches(s, P).bucket[b].is_unsharded
                              = s.bucket[b].is_unsharded
<1> DEFINE t == ReleasePrefetches(s, P)
<1>1. /\ s \in Runtime /\ Accounted(s) /\ Exclusive(s)
      /\ IsInjective(s.forward_order) /\ BacklogBounded(s)
  BY DEF Sound
<1>a. s.bucket \in [Bucket -> BucketState] /\ s.pending_unshards \subseteq PendingUnshard
  BY <1>1 DEF Runtime
<1>2. t.pending_unshards = s.pending_unshards \ P
  BY <1>1 DEF Runtime, ReleasePrefetches
<1>3. t.bucket = [c \in Bucket |-> IF \E p \in P : p.bucket = c
                                   THEN Free(s.bucket[c]) ELSE s.bucket[c]]
  BY <1>1 DEF Runtime, ReleasePrefetches
<1>4. t \in Runtime
  <2>1. [c \in Bucket |-> IF \E p \in P : p.bucket = c
                          THEN Free(s.bucket[c]) ELSE s.bucket[c]] \in [Bucket -> BucketState]
    BY <1>a, FreeFacts
  <2> QED BY <1>1, <2>1 DEF Runtime, ReleasePrefetches
<1> HIDE DEF t
<1>5. \A c \in Bucket : t.bucket[c].is_unsharded = s.bucket[c].is_unsharded
  BY <1>a, <1>3, FreeFacts
<1>6. Accounted(t)
  <2> SUFFICES ASSUME NEW c \in Bucket
               PROVE  AccountedFor(t.bucket[c], c, InFlight(t, c))
    BY DEF Accounted
  <2>1. s.bucket[c] \in BucketState /\ AccountedFor(s.bucket[c], c, InFlight(s, c))
    BY <1>1, <1>a DEF Accounted
  <2>2. CASE \E p \in P : p.bucket = c
    <3>1. t.bucket[c] = Free(s.bucket[c]) BY <1>3, <2>2
    <3>2. ~InFlight(t, c) BY <1>1, <1>2, <2>2 DEF InFlight, Exclusive
    <3>3. ~s.bucket[c].is_unsharded BY <1>1, <2>2 DEF Exclusive
    <3> QED BY <2>1, <3>1, <3>2, <3>3, FreeFacts DEF AccountedFor
  <2>3. CASE ~\E p \in P : p.bucket = c
    <3>1. t.bucket[c] = s.bucket[c] BY <1>3, <2>3
    <3>2. InFlight(t, c) <=> InFlight(s, c) BY <1>2, <2>3 DEF InFlight
    <3> QED BY <2>1, <3>1, <3>2 DEF AccountedFor
  <2> QED BY <2>2, <2>3
<1>7. Exclusive(t)
  BY <1>1, <1>a, <1>2, <1>5 DEF Exclusive, PendingUnshard
<1>8. IsInjective(t.forward_order) /\ BacklogBounded(t)
  <2>1. t.forward_order = s.forward_order /\ t.reduce_grad_states = s.reduce_grad_states
    BY <1>1 DEF t, Runtime, ReleasePrefetches
  <2> QED BY <1>1, <2>1 DEF IsInjective, BacklogBounded
<1> QED BY <1>4, <1>5, <1>6, <1>7, <1>8 DEF t, Sound

\* A step that leaves the prefetches alone keeps the runtime sound when each bucket
\* keeps its storage, or was unsharded and gives it up.
LEMMA SameSound ==
  ASSUME NEW s, Sound(s), NEW t \in Runtime,
         t.pending_unshards = s.pending_unshards,
         t.forward_order = s.forward_order,
         BacklogBounded(t),
         \A c \in Bucket :
           \/ /\ t.bucket[c].alloc = s.bucket[c].alloc
              /\ t.bucket[c].created = s.bucket[c].created
              /\ t.bucket[c].is_unsharded = s.bucket[c].is_unsharded
           \/ /\ s.bucket[c].is_unsharded
              /\ ~t.bucket[c].alloc
              /\ ~t.bucket[c].is_unsharded
  PROVE  Sound(t)
<1>1. /\ s \in Runtime /\ Accounted(s) /\ Exclusive(s) /\ IsInjective(s.forward_order)
      /\ s.bucket \in [Bucket -> BucketState] /\ t.bucket \in [Bucket -> BucketState]
      /\ s.pending_unshards \subseteq PendingUnshard
  BY DEF Sound, Runtime
<1>2. \A c \in Bucket : InFlight(t, c) <=> InFlight(s, c)
  BY DEF InFlight
<1>3. \A c \in Bucket : s.bucket[c].is_unsharded => ~InFlight(s, c)
  BY <1>1 DEF Exclusive, InFlight
<1>4. Accounted(t)
  BY <1>1, <1>2, <1>3 DEF Accounted, AccountedFor
<1>5. Exclusive(t)
  BY <1>1, <1>3 DEF Exclusive, InFlight, PendingUnshard
<1> QED BY <1>1, <1>4, <1>5 DEF Sound

\* unshard() of a sharded bucket: the bucket ends unsharded, others stay so.
LEMMA TakeOrGatherSound ==
  ASSUME NEW s, Sound(s), NEW b \in Bucket, ~s.bucket[b].is_unsharded, weights \in Nat
  PROVE  /\ Sound(TakeOrGather(s, b))
         /\ TakeOrGather(s, b).bucket[b].is_unsharded
         /\ \A c \in Bucket : s.bucket[c].is_unsharded
                               => TakeOrGather(s, b).bucket[c].is_unsharded
<1> DEFINE own == Pending(s, b)
           s1 == ReleasePrefetches(s, Learned(s) \ own)
           k == s1.bucket[b]
           k2 == IF own = {} THEN FinishUnshard(b, BeginUnshard(b, k), weights)
                 ELSE FinishUnshard(b, k, (CHOOSE p \in own : TRUE).version)
           t == [s1 EXCEPT !.pending_unshards = @ \ own, !.bucket[b] = k2]
<1>1. TakeOrGather(s, b) = t
  BY DEF TakeOrGather
<1>2. /\ Sound(s1)
      /\ \A c \in Bucket : s1.bucket[c].is_unsharded = s.bucket[c].is_unsharded
  BY ReleaseSound DEF Learned
<1>3. /\ s1 \in Runtime /\ Accounted(s1) /\ Exclusive(s1)
      /\ IsInjective(s1.forward_order) /\ BacklogBounded(s1)
      /\ s1.bucket \in [Bucket -> BucketState] /\ k \in BucketState
      /\ s1.pending_unshards \subseteq PendingUnshard
  BY <1>2 DEF Sound, Runtime
<1>4. s1.pending_unshards \cap own = {p \in s1.pending_unshards : p.bucket = b}
  BY DEF ReleasePrefetches, Pending, Learned
<1>5. own # {} => (CHOOSE p \in own : TRUE).version \in Nat
  BY DEF Sound, Runtime, Pending, PendingUnshard
<1> HIDE DEF own, s1
<1>6. /\ k2 \in BucketState /\ k2.is_unsharded /\ k2.created
  <2>1. CASE own = {} 
    BY <1>3, <2>1, BeginFacts, FinishFacts
  <2>2. CASE own # {}
    BY <1>3, <1>5, <2>2, FinishFacts
  <2> QED BY <2>1, <2>2
<1>7. k2.alloc
  <2>0. AccountedFor(k, b, InFlight(s1, b)) /\ ~k.is_unsharded
    BY <1>2, <1>3 DEF Accounted
  <2>1. CASE own = {} 
    BY <1>3, <2>1, BeginFacts, FinishFacts DEF BucketState
  <2>2. CASE own # {}
    <3>1. InFlight(s1, b)
      BY <2>2 DEF own, s1, ReleasePrefetches, Pending, Learned, InFlight
    <3> QED BY <1>3, <1>5, <2>0, <2>2, <3>1, FinishFacts DEF AccountedFor, BucketState
  <2> QED BY <2>1, <2>2
<1>8. /\ t \in Runtime /\ t.pending_unshards = s1.pending_unshards \ own
      /\ t.bucket = [s1.bucket EXCEPT ![b] = k2]
      /\ t.forward_order = s1.forward_order
      /\ t.reduce_grad_states = s1.reduce_grad_states
  <2> HIDE DEF k2
  <2> QED BY <1>3, <1>6 DEF Runtime
<1> HIDE DEF t, k2
<1>9. t.bucket[b] = k2 /\ \A c \in Bucket \ {b} : t.bucket[c] = s1.bucket[c]
  BY <1>3, <1>8
<1>10. ~InFlight(t, b) /\ \A c \in Bucket \ {b} : InFlight(t, c) <=> InFlight(s1, c)
  <2>1. ~InFlight(t, b)
    BY <1>4, <1>8 DEF InFlight
  <2>2. \A c \in Bucket \ {b} : InFlight(t, c) <=> InFlight(s1, c)
    BY <1>8 DEF InFlight, own, Pending
  <2> QED BY <2>1, <2>2
<1>11. Accounted(t)
  <2> SUFFICES ASSUME NEW c \in Bucket
               PROVE  AccountedFor(t.bucket[c], c, InFlight(t, c))
    BY DEF Accounted
  <2>1. CASE c = b
    BY <2>1, <1>6, <1>7, <1>9, <1>10 DEF AccountedFor
  <2>2. CASE c # b
    BY <2>2, <1>3, <1>9, <1>10 DEF Accounted, AccountedFor
  <2> QED BY <2>1, <2>2
<1>12. Exclusive(t)
  <2>1. \A p \in t.pending_unshards : p \in s1.pending_unshards /\ p.bucket \in Bucket \ {b}
    BY <1>3, <1>4, <1>8 DEF PendingUnshard
  <2> QED BY <2>1, <1>3, <1>9 DEF Exclusive
<1>13. IsInjective(t.forward_order) /\ BacklogBounded(t)
  BY <1>3, <1>8 DEF BacklogBounded
<1>14. Sound(t)
  BY <1>8, <1>11, <1>12, <1>13 DEF Sound
<1> QED
  BY <1>1, <1>2, <1>6, <1>9, <1>14

\* unshard(), also of an unsharded bucket.
LEMMA UnshardSound ==
  ASSUME NEW s, Sound(s), NEW b \in Bucket, weights \in Nat
  PROVE  /\ Sound(Unshard(s, b))
         /\ Unshard(s, b).bucket[b].is_unsharded
         /\ \A c \in Bucket : s.bucket[c].is_unsharded
                               => Unshard(s, b).bucket[c].is_unsharded
BY TakeOrGatherSound DEF Unshard

\* finish_other_prefetches(): the finished buckets are unsharded with their storage.
LEMMA FinishOtherSound ==
  ASSUME NEW s, Sound(s), NEW b \in Bucket
  PROVE  /\ Sound(FinishOtherPrefetches(s, b))
         /\ FinishOtherPrefetches(s, b).bucket[b] = s.bucket[b]
         /\ \A c \in Bucket : s.bucket[c].is_unsharded
                               => FinishOtherPrefetches(s, b).bucket[c].is_unsharded
<1> DEFINE P == Learned(s) \ Pending(s, b)
           V(c) == (CHOOSE p \in P : p.bucket = c).version
           f == [c \in Bucket |-> IF \E p \in P : p.bucket = c
                                  THEN FinishUnshard(c, s.bucket[c], V(c)) ELSE s.bucket[c]]
           t == [s EXCEPT !.pending_unshards = @ \ P, !.bucket = f]
<1>1. /\ s \in Runtime /\ Accounted(s) /\ Exclusive(s)
      /\ IsInjective(s.forward_order) /\ BacklogBounded(s)
      /\ s.bucket \in [Bucket -> BucketState]
      /\ s.pending_unshards \subseteq PendingUnshard
  BY DEF Sound, Runtime
<1>2. P \subseteq s.pending_unshards /\ \A p \in P : p.bucket # b
  BY DEF Learned, Pending
<1>3. \A c \in Bucket : (\E p \in P : p.bucket = c) => V(c) \in Nat
  BY <1>1, <1>2 DEF PendingUnshard
<1>t. FinishOtherPrefetches(s, b) = t
  BY <1>1 DEF FinishOtherPrefetches, Runtime
<1> HIDE DEF P, V
<1>4. f \in [Bucket -> BucketState]
  BY <1>1, <1>3, FinishFacts
<1>5. /\ t \in Runtime /\ t.pending_unshards = s.pending_unshards \ P /\ t.bucket = f
      /\ t.forward_order = s.forward_order
      /\ t.reduce_grad_states = s.reduce_grad_states
  <2> HIDE DEF f
  <2> QED BY <1>1, <1>4 DEF Runtime
<1> HIDE DEF t
<1>6. \A c \in Bucket : (\E p \in P : p.bucket = c)
        => t.bucket[c].is_unsharded /\ t.bucket[c].alloc /\ ~InFlight(t, c)
  <2> SUFFICES ASSUME NEW c \in Bucket, NEW p \in P, p.bucket = c
               PROVE  t.bucket[c].is_unsharded /\ t.bucket[c].alloc /\ ~InFlight(t, c)
    OBVIOUS
  <2>1. t.bucket[c] = FinishUnshard(c, s.bucket[c], V(c))
    BY <1>5
  <2>2. InFlight(s, c) /\ AccountedFor(s.bucket[c], c, InFlight(s, c))
    BY <1>1, <1>2 DEF InFlight, Accounted
  <2>3. s.bucket[c] \in BucketState /\ V(c) \in Nat
    BY <1>1, <1>3
  <2>4. ~InFlight(t, c)
    BY <1>1, <1>2, <1>5 DEF InFlight, Exclusive
  <2> QED BY <2>1, <2>2, <2>3, <2>4, FinishFacts DEF AccountedFor
<1>7. \A c \in Bucket : (~\E p \in P : p.bucket = c)
        => t.bucket[c] = s.bucket[c] /\ (InFlight(t, c) <=> InFlight(s, c))
  BY <1>5 DEF InFlight
<1>8. Accounted(t)
  <2> SUFFICES ASSUME NEW c \in Bucket
               PROVE  AccountedFor(t.bucket[c], c, InFlight(t, c))
    BY DEF Accounted
  <2>1. CASE \E p \in P : p.bucket = c
    BY <2>1, <1>6 DEF AccountedFor
  <2>2. CASE ~\E p \in P : p.bucket = c
    BY <2>2, <1>1, <1>7 DEF Accounted, AccountedFor
  <2> QED BY <2>1, <2>2
<1>9. Exclusive(t)
  <2>1. \A p \in t.pending_unshards : p \in s.pending_unshards /\ p.bucket \in Bucket
                                      /\ t.bucket[p.bucket] = s.bucket[p.bucket]
    BY <1>1, <1>2, <1>5, <1>7 DEF PendingUnshard, Exclusive
  <2> QED BY <2>1, <1>1 DEF Exclusive
<1>10. Sound(t)
  BY <1>1, <1>5, <1>8, <1>9 DEF Sound, BacklogBounded
<1>11. t.bucket[b] = s.bucket[b] /\ \A c \in Bucket : s.bucket[c].is_unsharded => t.bucket[c].is_unsharded
  BY <1>2, <1>6, <1>7
<1> QED BY <1>t, <1>10, <1>11

\* _unshard_for_recompute(): nothing unsharded is taken back.
LEMMA UnshardForRecomputeSound ==
  ASSUME NEW s, Sound(s), NEW b \in Bucket, weights \in Nat
  PROVE  /\ Sound(UnshardForRecompute(s, b))
         /\ \A c \in Bucket : s.bucket[c].is_unsharded
                               => UnshardForRecompute(s, b).bucket[c].is_unsharded
BY FinishOtherSound, TakeOrGatherSound DEF UnshardForRecompute

\* prefetch() of a list, or of the at most one bucket the learned order names.
LEMMA PrefetchSound ==
  ASSUME NEW s, Sound(s), NEW targets \in SUBSET Bucket, NEW explicit \in BOOLEAN,
         explicit \/ \A x, y \in targets : x = y, weights \in Nat
  PROVE  /\ Sound(Prefetch(s, targets, explicit))
         /\ \A c \in Bucket : Prefetch(s, targets, explicit).bucket[c].is_unsharded
                              = s.bucket[c].is_unsharded
<1> DEFINE new == {x \in targets : /\ ~s.bucket[x].is_unsharded
                                   /\ Pending(s, x) = {}
                                   /\ explicit \/ Learned(s) = {}}
           N == [bucket : new, explicit : {explicit}, version : {weights}]
           f == [c \in Bucket |-> IF c \in new THEN BeginUnshard(c, s.bucket[c])
                                                ELSE s.bucket[c]]
           t == [s EXCEPT !.pending_unshards = @ \cup N, !.bucket = f]
<1>1. /\ s \in Runtime /\ Accounted(s) /\ Exclusive(s)
      /\ IsInjective(s.forward_order) /\ BacklogBounded(s)
      /\ s.bucket \in [Bucket -> BucketState]
      /\ s.pending_unshards \subseteq PendingUnshard
  BY DEF Sound, Runtime
<1>t. Prefetch(s, targets, explicit) = t
  BY <1>1 DEF Prefetch, Runtime
<1>2. \A c \in new : c \in Bucket /\ ~s.bucket[c].is_unsharded /\ ~InFlight(s, c)
  BY DEF InFlight, Pending
<1>3. \/ explicit
      \/ new = {}
      \/ /\ \A p \in s.pending_unshards : p.explicit
         /\ \A x, y \in new : x = y
  BY DEF Learned
<1>4. /\ N \subseteq PendingUnshard
      /\ \A p \in N : p.bucket \in new /\ p.explicit = explicit /\ p.version = weights
      /\ \A p, q \in N : p.bucket = q.bucket => p = q
      /\ \A c \in new : \E p \in N : p.bucket = c
  <2>1. \A c \in new : [bucket |-> c, explicit |-> explicit, version |-> weights] \in N
    OBVIOUS
  <2>2. \A c \in new : \E p \in N : p.bucket = c
    <3> TAKE c \in new
    <3> WITNESS [bucket |-> c, explicit |-> explicit, version |-> weights] \in N
    <3> QED OBVIOUS
  <2>3. new \subseteq Bucket
    OBVIOUS
  <2> HIDE DEF new
  <2> QED BY <2>2, <2>3 DEF PendingUnshard
<1> HIDE DEF new, N
<1>5. f \in [Bucket -> BucketState]
  BY <1>1, BeginFacts
<1>6. /\ t \in Runtime /\ t.pending_unshards = s.pending_unshards \cup N /\ t.bucket = f
      /\ t.forward_order = s.forward_order
      /\ t.reduce_grad_states = s.reduce_grad_states
  <2> HIDE DEF f
  <2> QED BY <1>1, <1>4, <1>5 DEF Runtime
<1> HIDE DEF t
<1>7. \A c \in Bucket : t.bucket[c].is_unsharded = s.bucket[c].is_unsharded
  BY <1>1, <1>6, BeginFacts
<1>8. Accounted(t)
  <2> SUFFICES ASSUME NEW c \in Bucket
               PROVE  AccountedFor(t.bucket[c], c, InFlight(t, c))
    BY DEF Accounted
  <2>1. s.bucket[c] \in BucketState /\ AccountedFor(s.bucket[c], c, InFlight(s, c))
    BY <1>1 DEF Accounted
  <2>2. CASE c \in new
    <3>1. InFlight(t, c)
      BY <1>4, <1>6, <2>2 DEF InFlight
    <3>2. t.bucket[c] = BeginUnshard(c, s.bucket[c])
      BY <1>6, <2>2
    <3> QED BY <1>2, <2>1, <2>2, <3>1, <3>2, BeginFacts DEF AccountedFor
  <2>3. CASE c \notin new
    <3>1. InFlight(t, c) <=> InFlight(s, c)
      BY <1>4, <1>6, <2>3 DEF InFlight
    <3>2. t.bucket[c] = s.bucket[c]
      BY <1>6, <2>3
    <3> QED BY <2>1, <3>1, <3>2 DEF AccountedFor
  <2> QED BY <2>2, <2>3
<1>9. Exclusive(t)
  <2>1. \A p \in t.pending_unshards : ~t.bucket[p.bucket].is_unsharded
    BY <1>1, <1>2, <1>4, <1>6, <1>7 DEF Exclusive, PendingUnshard
  <2>2. \A p, q \in t.pending_unshards : p.bucket = q.bucket => p = q
    BY <1>1, <1>2, <1>4, <1>6 DEF Exclusive, InFlight
  <2>3. \A p, q \in t.pending_unshards : ~p.explicit /\ ~q.explicit => p = q
    BY <1>1, <1>3, <1>4, <1>6 DEF Exclusive
  <2> QED BY <2>1, <2>2, <2>3 DEF Exclusive
<1>10. Sound(t)
  BY <1>1, <1>6, <1>8, <1>9 DEF Sound, BacklogBounded
<1> QED BY <1>t, <1>7, <1>10

\* The learned orders name at most one next bucket.
LEMMA NextBuckets ==
  ASSUME NEW s, Sound(s), NEW b
  PROVE  /\ NextForwardBucket(s, b) \subseteq Bucket
         /\ \A x, y \in NextForwardBucket(s, b) : x = y
         /\ NextBackwardBucket(s, b) \subseteq Bucket
         /\ \A x, y \in NextBackwardBucket(s, b) : x = y
<1>1. /\ s.forward_order \in Seq(Bucket) /\ s.post_forward_order \in Seq(Bucket)
      /\ IsInjective(s.forward_order)
  BY DEF Sound, Runtime
<1>2. NextForwardBucket(s, b) \subseteq Bucket
  BY <1>1 DEF NextForwardBucket
<1>3. \A x, y \in NextForwardBucket(s, b) : x = y
  BY <1>1 DEF NextForwardBucket, IsInjective
<1>4. NextBackwardBucket(s, b) \subseteq Bucket
  BY <1>1 DEF NextBackwardBucket
<1>5. \A x, y \in NextBackwardBucket(s, b) : x = y
  BY <1>1 DEF NextBackwardBucket
<1> QED BY <1>2, <1>3, <1>4, <1>5

\* _prefetch() of a forward pre-hook.
LEMMA PrefetchForwardSound ==
  ASSUME NEW s, Sound(s), NEW b \in Bucket, weights \in Nat
  PROVE  /\ Sound(PrefetchForward(s, b))
         /\ \A c \in Bucket : PrefetchForward(s, b).bucket[c].is_unsharded
                              = s.bucket[c].is_unsharded
BY ConstantsOK, NextBuckets, PrefetchSound DEF PrefetchForward, ConstantsOK

\* _prefetch() of a pre-backward hook.
LEMMA PrefetchBackwardSound ==
  ASSUME NEW s, Sound(s), NEW b \in Bucket, weights \in Nat
  PROVE  /\ Sound(PrefetchBackward(s, b))
         /\ \A c \in Bucket : PrefetchBackward(s, b).bucket[c].is_unsharded
                              = s.bucket[c].is_unsharded
BY ConstantsOK, NextBuckets, PrefetchSound DEF PrefetchBackward, ConstantsOK

\* queue_post_backward_callback() touches no bucket.
LEMMA QueueCallbackSound ==
  ASSUME NEW s, Sound(s), NEW finish \in BOOLEAN
  PROVE  Sound(QueueCallback(s, finish)) /\ QueueCallback(s, finish).bucket = s.bucket
<1> DEFINE t == QueueCallback(s, finish)
<1>1. s \in Runtime /\ BacklogBounded(s)
  BY DEF Sound
<1>2. /\ t \in Runtime /\ t.bucket = s.bucket /\ t.pending_unshards = s.pending_unshards
      /\ t.forward_order = s.forward_order
      /\ t.reduce_grad_states = s.reduce_grad_states
  BY <1>1 DEF QueueCallback, Runtime
<1> HIDE DEF t
<1>3. BacklogBounded(t)
  BY <1>1, <1>2 DEF BacklogBounded
<1>4. Sound(t)
  BY <1>2, <1>3, SameSound
<1> QED BY <1>2, <1>4 DEF t

\* drain_reduce_grad_states_if_needed() makes room for one reduction.
LEMMA DrainedFacts ==
  ASSUME NEW s, Sound(s)
  PROVE  /\ Drained(s) \in Runtime
         /\ Drained(s).bucket = s.bucket
         /\ Drained(s).pending_unshards = s.pending_unshards
         /\ Drained(s).forward_order = s.forward_order
         /\ MaxPendingReduceGrads > 0
              => Len(Drained(s).reduce_grad_states) < MaxPendingReduceGrads
<1> DEFINE q == s.reduce_grad_states
           n == Len(q)
           drop == IF MaxPendingReduceGrads > 0 /\ n >= MaxPendingReduceGrads
                   THEN n - MaxPendingReduceGrads + 1 ELSE 0
           kept == SubSeq(q, drop + 1, n)
           retired == s.retired_reduce_grad_states \o SubSeq(q, 1, drop)
<1>1. /\ s \in Runtime /\ BacklogBounded(s) /\ q \in Seq(Bucket)
      /\ s.retired_reduce_grad_states \in Seq(Bucket)
  BY DEF Sound, Runtime
<1>2. MaxPendingReduceGrads \in Nat
  BY ConstantsOK DEF ConstantsOK
<1>3. n \in Nat /\ drop \in 0 .. n /\ (MaxPendingReduceGrads > 0 => n - drop < MaxPendingReduceGrads)
  <2>1. n \in Nat /\ (MaxPendingReduceGrads > 0 => n <= MaxPendingReduceGrads)
    BY <1>1, LenProperties DEF BacklogBounded
  <2> HIDE DEF n
  <2> QED BY <2>1, <1>2
<1>4. kept \in Seq(Bucket) /\ Len(kept) = n - drop
  BY <1>1, <1>3, SubSeqProperties
<1>5. retired \in Seq(Bucket)
  BY <1>1, <1>3, SubSeqProperties, ConcatProperties
<1>6. Drained(s) = [s EXCEPT !.reduce_grad_states = kept,
                             !.retired_reduce_grad_states = retired]
  BY DEF Drained
<1> HIDE DEF kept, retired
<1> QED BY <1>1, <1>3, <1>4, <1>5, <1>6 DEF Runtime

\* Reducing the kept grads leaves the storage alone.
LEMMA ReducedFacts ==
  ASSUME NEW k \in BucketState
  PROVE  /\ Reduced(k) \in BucketState
         /\ Reduced(k).alloc = k.alloc /\ Reduced(k).created = k.created
         /\ Reduced(k).is_unsharded = k.is_unsharded
<1>1. k.reduced + k.kept \in Nat
  BY DEF BucketState
<1>2. ASSUME NEW v \in Nat
      PROVE  LET r == [k EXCEPT !.reduced = v, !.kept = 0]
             IN  /\ r \in BucketState
                 /\ r.alloc = k.alloc /\ r.created = k.created
                 /\ r.is_unsharded = k.is_unsharded
  BY DEF BucketState
<1> QED BY <1>1, <1>2 DEF Reduced

\* reduce_grads(): the backlog stays within its limit.
LEMMA ReduceGradsSound ==
  ASSUME NEW s, Sound(s), NEW b \in Bucket
  PROVE  /\ Sound(ReduceGrads(s, b))
         /\ \A c \in Bucket : ReduceGrads(s, b).bucket[c].is_unsharded
                              = s.bucket[c].is_unsharded
<1> DEFINE d == Drained(s)
           q == Append(d.reduce_grad_states, b)
           f == [d.bucket EXCEPT ![b] = Reduced(d.bucket[b])]
           t == [d EXCEPT !.reduce_grad_states = q, !.bucket = f]
<1>1. ReduceGrads(s, b) = QueueCallback(t, FALSE)
  BY DEF ReduceGrads
<1>2. /\ d \in Runtime /\ d.bucket = s.bucket
      /\ d.pending_unshards = s.pending_unshards
      /\ d.forward_order = s.forward_order
      /\ MaxPendingReduceGrads > 0 => Len(d.reduce_grad_states) < MaxPendingReduceGrads
  BY DrainedFacts
<1> HIDE DEF d
<1>3. s.bucket \in [Bucket -> BucketState] /\ s.bucket[b] \in BucketState
  BY DEF Sound, Runtime
<1>4. /\ f \in [Bucket -> BucketState]
      /\ \A c \in Bucket : /\ f[c].alloc = s.bucket[c].alloc
                           /\ f[c].created = s.bucket[c].created
                           /\ f[c].is_unsharded = s.bucket[c].is_unsharded
  BY <1>2, <1>3, ReducedFacts
<1>5. /\ q \in Seq(Bucket) /\ Len(d.reduce_grad_states) \in Nat
      /\ Len(q) = Len(d.reduce_grad_states) + 1
  BY <1>2, AppendProperties, LenProperties DEF Runtime
<1> HIDE DEF f, q
<1>6. /\ t \in Runtime /\ t.bucket = f /\ t.reduce_grad_states = q
      /\ t.pending_unshards = s.pending_unshards
      /\ t.forward_order = s.forward_order
  BY <1>2, <1>4, <1>5 DEF Runtime
<1>7. BacklogBounded(t)
  BY ConstantsOK, <1>2, <1>5, <1>6 DEF BacklogBounded, ConstantsOK
<1> HIDE DEF t
<1>8. Sound(t)
  BY <1>4, <1>6, <1>7, SameSound
<1>9. Sound(QueueCallback(t, FALSE)) /\ QueueCallback(t, FALSE).bucket = t.bucket
  BY <1>8, QueueCallbackSound
<1> QED BY <1>1, <1>4, <1>6, <1>9

\* post_backward(): no bucket but its own is resharded, and only on request.
LEMMA PostBackwardSound ==
  ASSUME NEW s, Sound(s), NEW b \in Bucket, NEW reshard \in BOOLEAN, sync \in [Bucket -> BOOLEAN]
  PROVE  /\ Sound(PostBackward(s, b, reshard))
         /\ \A c \in Bucket : c # b \/ ~reshard
              => PostBackward(s, b, reshard).bucket[c].is_unsharded
                 = s.bucket[c].is_unsharded
<1> DEFINE k == [s.bucket[b] EXCEPT !.needs_sync = ~sync[b]]
           free == reshard /\ k.is_unsharded /\ (sync[b] \/ b \in ReshardAfterBackward)
           f == [s.bucket EXCEPT ![b] = IF free THEN Reshard(k) ELSE k]
           t == [s EXCEPT !.bucket = f]
<1>1. /\ s \in Runtime /\ BacklogBounded(s)
      /\ s.bucket \in [Bucket -> BucketState] /\ s.bucket[b] \in BucketState
  BY DEF Sound, Runtime
<1>2. PostBackward(s, b, reshard) = IF sync[b] THEN ReduceGrads(t, b) ELSE t
  BY DEF PostBackward
<1>3. /\ k \in BucketState /\ k.alloc = s.bucket[b].alloc
      /\ k.created = s.bucket[b].created /\ k.is_unsharded = s.bucket[b].is_unsharded
  BY <1>1 DEF BucketState
<1> HIDE DEF k
<1>4. f \in [Bucket -> BucketState]
  BY <1>1, <1>3, ReshardFacts
<1>5. \A c \in Bucket : c # b => f[c] = s.bucket[c]
  BY <1>1
<1>6. ~free => f[b] = k
  BY <1>1
<1>7. free => s.bucket[b].is_unsharded /\ ~f[b].is_unsharded /\ ~f[b].alloc
  BY <1>1, <1>3, ReshardFacts
<1> HIDE DEF f
<1>8. /\ t \in Runtime /\ t.bucket = f /\ t.reduce_grad_states = s.reduce_grad_states
      /\ t.pending_unshards = s.pending_unshards
      /\ t.forward_order = s.forward_order
  BY <1>1, <1>4 DEF Runtime
<1> HIDE DEF t
<1>9. BacklogBounded(t)
  BY <1>1, <1>8 DEF BacklogBounded
<1>10. Sound(t)
  BY <1>3, <1>5, <1>6, <1>7, <1>8, <1>9, SameSound
<1>11. \A c \in Bucket : c # b \/ ~reshard => t.bucket[c].is_unsharded = s.bucket[c].is_unsharded
  BY <1>3, <1>5, <1>6, <1>8
<1> QED BY <1>2, <1>10, <1>11, ReduceGradsSound

\* SameSound for an update of all buckets.
LEMMA BucketsSound ==
  ASSUME NEW s, Sound(s), NEW f \in [Bucket -> BucketState],
         \A c \in Bucket :
           \/ /\ f[c].alloc = s.bucket[c].alloc
              /\ f[c].created = s.bucket[c].created
              /\ f[c].is_unsharded = s.bucket[c].is_unsharded
           \/ /\ s.bucket[c].is_unsharded
              /\ ~f[c].alloc /\ ~f[c].is_unsharded
  PROVE  LET t == [s EXCEPT !.bucket = f]
         IN  Sound(t) /\ t.bucket = f
<1> DEFINE t == [s EXCEPT !.bucket = f]
<1>1. s \in Runtime /\ BacklogBounded(s)
  BY DEF Sound
<1>2. /\ t \in Runtime /\ t.bucket = f /\ t.reduce_grad_states = s.reduce_grad_states
      /\ t.pending_unshards = s.pending_unshards
      /\ t.forward_order = s.forward_order
  BY <1>1 DEF Runtime
<1> HIDE DEF t
<1>3. BacklogBounded(t)
  BY <1>1, <1>2 DEF BacklogBounded
<1>4. Sound(t)
  BY <1>2, <1>3, SameSound
<1> QED BY <1>2, <1>4 DEF t

\* SameSound for an update of one bucket.
LEMMA BucketSound ==
  ASSUME NEW s, Sound(s), NEW b \in Bucket, NEW k \in BucketState,
         \/ /\ k.alloc = s.bucket[b].alloc
            /\ k.created = s.bucket[b].created
            /\ k.is_unsharded = s.bucket[b].is_unsharded
         \/ /\ s.bucket[b].is_unsharded
            /\ ~k.alloc /\ ~k.is_unsharded
  PROVE  LET t == [s EXCEPT !.bucket[b] = k]
         IN  /\ Sound(t) /\ t.bucket[b] = k
             /\ \A c \in Bucket : c # b => t.bucket[c] = s.bucket[c]
<1> DEFINE f == [s.bucket EXCEPT ![b] = k]
<1>1. s.bucket \in [Bucket -> BucketState]
  BY DEF Sound, Runtime
<1>2. f \in [Bucket -> BucketState] /\ f[b] = k /\ \A c \in Bucket : c # b => f[c] = s.bucket[c]
  BY <1>1
<1> HIDE DEF f
<1>3. Sound([s EXCEPT !.bucket = f]) /\ [s EXCEPT !.bucket = f].bucket = f
  BY <1>2, BucketsSound
<1> QED BY <1>2, <1>3 DEF f

\* Counting calls and clearing the counts leave the storage alone.
LEMMA CountFacts ==
  ASSUME NEW k \in BucketState, NEW flag \in BOOLEAN
  PROVE  /\ Uncounted(k) \in BucketState /\ Uncounted(k).alloc = k.alloc
         /\ Uncounted(k).created = k.created
         /\ Uncounted(k).is_unsharded = k.is_unsharded
         /\ Called(k, flag) \in BucketState /\ Called(k, flag).alloc = k.alloc
         /\ Called(k, flag).created = k.created
         /\ Called(k, flag).is_unsharded = k.is_unsharded
<1>1. /\ Uncounted(k) \in BucketState /\ Uncounted(k).alloc = k.alloc
      /\ Uncounted(k).created = k.created
      /\ Uncounted(k).is_unsharded = k.is_unsharded
  BY DEF Uncounted, BucketState
<1>2. k.backward_calls + 1 \in Nat /\ k.input_triggers \in Nat /\ k.input_triggers + 1 \in Nat
  BY DEF BucketState
<1>3. ASSUME NEW m \in Nat, NEW v \in Nat, NEW r,
             r = [k EXCEPT !.backward_calls = m, !.input_triggers = v]
      PROVE  /\ r \in BucketState /\ r.alloc = k.alloc /\ r.created = k.created
             /\ r.is_unsharded = k.is_unsharded
  <2> DEFINE q == [k EXCEPT !.backward_calls = m, !.input_triggers = v]
  <2>1. /\ q \in BucketState /\ q.alloc = k.alloc /\ q.created = k.created
        /\ q.is_unsharded = k.is_unsharded
    BY DEF BucketState
  <2> HIDE DEF q
  <2>2. r = q
    BY <1>3 DEF q
  <2> QED BY <2>1, <2>2
<1>4. PICK m \in Nat, v \in Nat :
        Called(k, flag) = [k EXCEPT !.backward_calls = m, !.input_triggers = v]
  <2>1. CASE flag
    <3>1. Called(k, flag) = [k EXCEPT !.backward_calls = k.backward_calls + 1,
                                      !.input_triggers = k.input_triggers + 1]
      BY <2>1 DEF Called
    <3> QED BY <1>2, <3>1
  <2>2. CASE ~flag
    <3>1. Called(k, flag) = [k EXCEPT !.backward_calls = k.backward_calls + 1,
                                      !.input_triggers = k.input_triggers]
      BY <2>2 DEF Called
    <3> QED BY <1>2, <3>1
  <2> QED BY <2>1, <2>2
<1>5. /\ Called(k, flag) \in BucketState /\ Called(k, flag).alloc = k.alloc
      /\ Called(k, flag).created = k.created
      /\ Called(k, flag).is_unsharded = k.is_unsharded
  BY <1>3, <1>4
<1> QED BY <1>1, <1>5

\* reset_backward_state() leaves the storage alone.
LEMMA ResetCountsSound ==
  ASSUME NEW s, Sound(s), NEW b \in Bucket
  PROVE  /\ Sound(ResetCounts(s, b))
         /\ \A c \in Bucket : ResetCounts(s, b).bucket[c].is_unsharded
                              = s.bucket[c].is_unsharded
<1> DEFINE k == Uncounted(s.bucket[b])
<1>1. s.bucket[b] \in BucketState
  BY DEF Sound, Runtime
<1>2. /\ k \in BucketState /\ k.alloc = s.bucket[b].alloc
      /\ k.created = s.bucket[b].created
      /\ k.is_unsharded = s.bucket[b].is_unsharded
  BY <1>1, CountFacts
<1>3. ResetCounts(s, b) = [s EXCEPT !.bucket[b] = k]
  BY DEF ResetCounts
<1> HIDE DEF k
<1>4. /\ Sound(ResetCounts(s, b)) /\ ResetCounts(s, b).bucket[b] = k
      /\ \A c \in Bucket : c # b => ResetCounts(s, b).bucket[c] = s.bucket[c]
  BY <1>2, <1>3, BucketSound
<1> QED BY <1>2, <1>4

\* pre_backward_hook() keeps the runtime sound.
LEMMA PreBackwardHookSound ==
  ASSUME NEW s, Sound(s), NEW b \in Bucket, weights \in Nat, sync \in [Bucket -> BOOLEAN]
  PROVE  Sound(PreBackwardHook(s, b))
<1> DEFINE s1 == Unshard(QueueCallback(s, TRUE), b)
           k == s1.bucket[b]
           s2 == IF k.backward_calls > 1 /\ k.needs_sync /\ sync[b] /\ b \notin Defers
                 THEN PostBackward(s1, b, FALSE) ELSE s1
<1>1. Sound(s1)
  BY QueueCallbackSound, UnshardSound
<1> HIDE DEF s1
<1>2. Sound(s2)
  BY <1>1, PostBackwardSound
<1> HIDE DEF s2
<1>3. PreBackwardHook(s, b) = PrefetchBackward(s2, b)
  BY DEF PreBackwardHook, s1, s2
<1> QED BY <1>2, <1>3, PrefetchBackwardSound

\* on_input_grads() keeps the runtime sound.
LEMMA OnInputGradsSound ==
  ASSUME NEW s, Sound(s), NEW b \in Bucket, sync \in [Bucket -> BOOLEAN]
  PROVE  Sound(OnInputGrads(s, b))
<1> DEFINE s1 == [s EXCEPT !.bucket[b].input_triggers_run = @ + 1]
           k == [s.bucket[b] EXCEPT !.input_triggers_run = s.bucket[b].input_triggers_run + 1]
<1>1. s.bucket[b] \in BucketState
  BY DEF Sound, Runtime
<1>2. /\ k \in BucketState /\ k.alloc = s.bucket[b].alloc
      /\ k.created = s.bucket[b].created /\ k.is_unsharded = s.bucket[b].is_unsharded
  <2>1. ASSUME NEW j \in BucketState, NEW v \in Nat
        PROVE  LET r == [j EXCEPT !.input_triggers_run = v]
               IN  /\ r \in BucketState /\ r.alloc = j.alloc /\ r.created = j.created
                   /\ r.is_unsharded = j.is_unsharded
    BY DEF BucketState
  <2>2. s.bucket[b].input_triggers_run + 1 \in Nat
    BY <1>1 DEF BucketState
  <2> QED BY <1>1, <2>1, <2>2
<1>3. s1 = [s EXCEPT !.bucket[b] = k]
  OBVIOUS
<1> HIDE DEF k, s1
<1>4. Sound(s1)
  BY <1>2, <1>3, BucketSound
<1>5. Sound(ResetCounts(PostBackward(s1, b, TRUE), b))
  BY <1>4, PostBackwardSound, ResetCountsSound
<1>6. OnInputGrads(s, b) \in {s1, ResetCounts(PostBackward(s1, b, TRUE), b)}
  BY DEF OnInputGrads, s1
<1> QED BY <1>4, <1>5, <1>6

\* wait_and_clear_reduce_grad_states() touches no bucket.
LEMMA WaitAndClearSound ==
  ASSUME NEW s, Sound(s)
  PROVE  Sound(WaitAndClear(s)) /\ WaitAndClear(s).bucket = s.bucket
<1> DEFINE t == WaitAndClear(s)
<1>1. s \in Runtime
  BY DEF Sound
<1>2. /\ t \in Runtime /\ t.bucket = s.bucket /\ t.pending_unshards = s.pending_unshards
      /\ t.forward_order = s.forward_order /\ t.reduce_grad_states = <<>>
  <2>1. <<>> \in Seq(Bucket)
    BY EmptySeq
  <2>2. t = [s EXCEPT !.reduce_grad_states = <<>>, !.retired_reduce_grad_states = <<>>]
    BY DEF WaitAndClear
  <2> QED BY <1>1, <2>1, <2>2 DEF Runtime
<1> HIDE DEF t
<1>3. BacklogBounded(t)
  <2>1. MaxPendingReduceGrads \in Nat
    BY ConstantsOK DEF ConstantsOK
  <2>2. Len(t.reduce_grad_states) = 0
    BY <1>2, EmptySeq
  <2> QED BY <2>1, <2>2 DEF BacklogBounded
<1>4. Sound(t)
  BY <1>2, <1>3, SameSound
<1> QED BY <1>2, <1>4 DEF t

\* Resharding every unsharded bucket keeps the runtime sound.
LEMMA ReshardUnshardedSound ==
  ASSUME NEW s, Sound(s)
  PROVE  Sound(ReshardUnsharded(s))
<1> DEFINE f == [c \in Bucket |-> IF s.bucket[c].is_unsharded THEN Reshard(s.bucket[c])
                                                              ELSE s.bucket[c]]
<1>1. s.bucket \in [Bucket -> BucketState]
  BY DEF Sound, Runtime
<1>2. f \in [Bucket -> BucketState]
  BY <1>1, ReshardFacts
<1>3. \A c \in Bucket :
           \/ /\ f[c].alloc = s.bucket[c].alloc
              /\ f[c].created = s.bucket[c].created
              /\ f[c].is_unsharded = s.bucket[c].is_unsharded
           \/ /\ s.bucket[c].is_unsharded
              /\ ~f[c].alloc /\ ~f[c].is_unsharded
  BY <1>1, ReshardFacts
<1>4. ReshardUnsharded(s) = [s EXCEPT !.bucket = f]
  BY DEF ReshardUnsharded
<1> HIDE DEF f
<1> QED BY <1>2, <1>3, <1>4, BucketsSound

-----------------------------------------------------------------------------
(* Sequences *)

\* A function on 1 .. n is a sequence.
LEMMA FunctionIsSeq ==
  ASSUME NEW S, NEW n \in Nat, NEW f \in [1 .. n -> S]
  PROVE  f \in Seq(S)
OBVIOUS

\* The n events of w are those of g that belong to the calls in used, each once and
\* the last first; m names their places in g.
Traverses(w, g, used, n, m) ==
  /\ m \in [1 .. n -> DOMAIN g]
  /\ w = [k \in 1 .. n |-> g[m[k]]]
  /\ \A k \in 1 .. n : g[m[k]].id \in used
  /\ \A k, l \in 1 .. n : k < l => m[l] < m[k]
  /\ \A i \in DOMAIN g : g[i].id \in used => \E k \in 1 .. n : m[k] = i

\* A backward walks the chosen events of its graph, each once, last first: ranking
\* them by the number of chosen events after them numbers them 1 .. n without gaps.
LEMMA WalkFacts ==
  ASSUME NEW g \in Seq(Event), NEW used
  PROVE  \E n \in Nat : \E m : Traverses(Walk(g, used), g, used, n, m)
<1> DEFINE chosen == {i \in DOMAIN g : g[i].id \in used}
           n == Cardinality(chosen)
           After(i) == {j \in chosen : j > i}
           F == [i \in chosen |-> Cardinality(After(i))]
           E(k) == CHOOSE i \in chosen : Cardinality(After(i)) = k - 1
<1>1. DOMAIN g = 1 .. Len(g) /\ Len(g) \in Nat
  BY LenProperties
<1>2. IsFiniteSet(chosen) /\ n \in Nat /\ chosen \subseteq Nat
  <2>1. IsFiniteSet(1 .. Len(g))
    BY <1>1, FS_Interval
  <2>2. chosen \in SUBSET (1 .. Len(g))
    BY <1>1
  <2>3. IsFiniteSet(chosen)
    BY <2>1, <2>2, FS_Subset
  <2> QED BY <1>1, <2>2, <2>3, FS_CardinalityType
<1>3. ASSUME NEW i \in chosen
      PROVE  Cardinality(After(i)) \in 0 .. (n - 1) /\ IsFiniteSet(After(i))
  <2>1. After(i) \in SUBSET (chosen \ {i})
    BY <1>2
  <2>2. IsFiniteSet(chosen \ {i}) /\ Cardinality(chosen \ {i}) = n - 1
    BY <1>2, FS_RemoveElement
  <2>3. IsFiniteSet(After(i)) /\ Cardinality(After(i)) <= n - 1
    BY <2>1, <2>2, FS_Subset
  <2>4. Cardinality(After(i)) \in Nat
    BY <2>3, FS_CardinalityType
  <2> QED BY <1>2, <2>3, <2>4
<1>4. ASSUME NEW i \in chosen, NEW j \in chosen, i < j
      PROVE  Cardinality(After(j)) < Cardinality(After(i))
  <2>1. After(j) \in SUBSET After(i) /\ j \in After(i) /\ j \notin After(j)
    BY <1>2, <1>4
  <2>2. IsFiniteSet(After(i)) /\ Cardinality(After(i)) \in Nat /\ Cardinality(After(j)) \in Nat
    BY <1>3, FS_CardinalityType
  <2>3. Cardinality(After(j)) <= Cardinality(After(i)) /\ Cardinality(After(j)) # Cardinality(After(i))
    BY <2>1, <2>2, FS_Subset
  <2> QED BY <2>2, <2>3
<1>5. F \in Injection(chosen, 0 .. (n - 1))
  <2>1. F \in [chosen -> 0 .. (n - 1)]
    BY <1>3
  <2>2. ASSUME NEW i \in chosen, NEW j \in chosen, F[i] = F[j]
        PROVE  i = j
    <3>1. Cardinality(After(i)) = Cardinality(After(j)) /\ Cardinality(After(i)) \in Nat
      BY <1>3, <2>2, FS_CardinalityType
    <3>2. i \in Nat /\ j \in Nat
      BY <1>2
    <3> HIDE DEF After, chosen
    <3>3. ASSUME i < j PROVE FALSE
      BY <1>4, <3>1, <3>3
    <3>4. ASSUME j < i PROVE FALSE
      BY <1>4, <3>1, <3>4
    <3> QED BY <3>2, <3>3, <3>4
  <2> QED BY <2>1, <2>2 DEF Injection, IsInjective
<1>6. F \in Surjection(chosen, 0 .. (n - 1))
  <2>1. IsFiniteSet(0 .. (n - 1)) /\ Cardinality(0 .. (n - 1)) = n
    <3> HIDE DEF n
    <3>1. 0 \in Int /\ n - 1 \in Int
      BY <1>2
    <3>2. /\ IsFiniteSet(0 .. (n - 1))
          /\ Cardinality(0 .. (n - 1)) = IF 0 > n - 1 THEN 0 ELSE (n - 1) - 0 + 1
      BY <3>1, FS_Interval
    <3> QED BY <1>2, <3>2
  <2>2. Cardinality(chosen) = Cardinality(0 .. (n - 1))
    BY <2>1
  <2> DEFINE T == 0 .. (n - 1)
  <2> HIDE DEF chosen, F, T, n
  <2> QED BY <1>5, <2>1, <2>2, FS_Injection DEF T
<1>7. ASSUME NEW k \in 1 .. n
      PROVE  E(k) \in chosen /\ F[E(k)] = k - 1
  <2>1. k - 1 \in 0 .. (n - 1)
    BY <1>2
  <2>2. PICK i \in chosen : F[i] = k - 1
    BY <1>6, <2>1 DEF Surjection
  <2> QED BY <2>2
<1>8. ASSUME NEW k \in 1 .. n, NEW l \in 1 .. n, k < l
      PROVE  E(l) < E(k)
  <2>1. E(k) \in chosen /\ E(l) \in chosen /\ F[E(k)] = k - 1 /\ F[E(l)] = l - 1
    BY <1>7
  <2>2. \A i, j \in chosen : i < j => F[j] < F[i]
    BY <1>4
  <2>3. E(k) \in Nat /\ E(l) \in Nat
    BY <1>2, <2>1
  <2> HIDE DEF E, F, chosen
  <2>4. E(k) # E(l)
    BY <2>1, <1>8
  <2>5. ~(E(k) < E(l))
    BY <2>1, <2>2, <1>8
  <2> QED BY <2>3, <2>4, <2>5
<1>9. ASSUME NEW i \in chosen
      PROVE  \E k \in 1 .. n : E(k) = i
  <2>1. F[i] \in 0 .. (n - 1)
    BY <1>5 DEF Injection
  <2>2. F[i] + 1 \in 1 .. n /\ (F[i] + 1) - 1 = F[i]
    BY <1>2, <2>1
  <2>3. E(F[i] + 1) \in chosen /\ F[E(F[i] + 1)] = F[i]
    BY <1>7, <2>2
  <2>4. E(F[i] + 1) = i
    BY <1>5, <2>3 DEF Injection, IsInjective
  <2> QED BY <2>2, <2>4
<1> DEFINE m == [k \in 1 .. n |-> E(k)]
<1>10. chosen = {i \in DOMAIN g : g[i].id \in used}
  OBVIOUS
<1>11. Walk(g, used) = [k \in 1 .. n |-> g[E(k)]]
  BY DEF Walk
<1> HIDE DEF n, E, chosen
<1>12. /\ m \in [1 .. n -> DOMAIN g]
       /\ Walk(g, used) = [k \in 1 .. n |-> g[m[k]]]
       /\ \A k \in 1 .. n : g[m[k]].id \in used
  BY <1>7, <1>10, <1>11
<1>13. /\ \A k, l \in 1 .. n : k < l => m[l] < m[k]
       /\ \A i \in DOMAIN g : g[i].id \in used => \E k \in 1 .. n : m[k] = i
  BY <1>8, <1>9, <1>10
<1> HIDE DEF m
<1>14. Traverses(Walk(g, used), g, used, n, m)
  BY <1>12, <1>13 DEF Traverses
<1> QED BY <1>2, <1>14

LEMMA WalkType ==
  ASSUME NEW g \in Seq(Event), NEW used
  PROVE  Walk(g, used) \in Seq(Event)
<1>1. PICK n \in Nat : \E m : Traverses(Walk(g, used), g, used, n, m)
  BY WalkFacts
<1>2. PICK m : Traverses(Walk(g, used), g, used, n, m)
  BY <1>1
<1>3. \A i \in DOMAIN g : g[i] \in Event
  BY LenProperties, ElementOfSeq
<1>4. Walk(g, used) \in [1 .. n -> Event]
  BY <1>2, <1>3 DEF Traverses
<1> QED BY <1>4, FunctionIsSeq

\* Recording an event keeps the graphs sequences of events.
LEMMA RecordedType ==
  ASSUME NEW gs \in Seq(Seq(Event)), NEW e \in Event
  PROVE  Recorded(gs, e) \in Seq(Seq(Event))
<1> DEFINE f == [i \in 1 .. Len(gs) |-> IF i = Len(gs) THEN Append(gs[i], e) ELSE gs[i]]
<1>1. DOMAIN gs = 1 .. Len(gs) /\ Len(gs) \in Nat
  BY LenProperties
<1>2. \A i \in 1 .. Len(gs) : gs[i] \in Seq(Event) /\ Append(gs[i], e) \in Seq(Event)
  BY <1>1, ElementOfSeq, AppendProperties
<1>3. f \in [1 .. Len(gs) -> Seq(Event)]
  BY <1>2
<1>4. Recorded(gs, e) = f
  BY <1>1 DEF Recorded
<1> QED BY <1>1, <1>3, <1>4, FunctionIsSeq

\* RemoveAt returns a sequence of the same elements.
LEMMA RemoveAtType ==
  ASSUME NEW S, NEW q \in Seq(S), NEW i \in DOMAIN q
  PROVE  RemoveAt(q, i) \in Seq(S)
<1>1. DOMAIN q = 1 .. Len(q) /\ Len(q) \in Nat
  BY LenProperties
<1>2. SubSeq(q, 1, i - 1) \in Seq(S) /\ SubSeq(q, i + 1, Len(q)) \in Seq(S)
  BY <1>1, SubSeqProperties
<1> QED BY <1>2, ConcatProperties DEF RemoveAt

\* Front drops the last element only.
LEMMA FrontFacts ==
  ASSUME NEW S, NEW q \in Seq(S), q # <<>>
  PROVE  /\ Front(q) \in Seq(S)
         /\ DOMAIN Front(q) = 1 .. (Len(q) - 1)
         /\ \A i \in DOMAIN Front(q) : Front(q)[i] = q[i]
<1> DEFINE n == Len(q)
           f == SubSeq(q, 1, n - 1)
<1>1. n \in Nat /\ n >= 1 /\ n - 1 \in Int /\ \A i \in 1 .. n : q[i] \in S
  BY LenProperties, EmptySeq, ElementOfSeq
<1>2. Front(q) = f
  BY DEF Front
<1> HIDE DEF n
<1>3. \A i \in 1 .. (n - 1) : q[i] \in S
  BY <1>1
<1>4. /\ f \in Seq(S) /\ Len(f) = IF 1 <= n - 1 THEN (n - 1) - 1 + 1 ELSE 0
      /\ \A i \in 1 .. (n - 1) - 1 + 1 : f[i] = q[1 + i - 1]
  BY <1>1, <1>3, SubSeqProperties
<1> HIDE DEF f
<1>5. Len(f) = n - 1 /\ DOMAIN f = 1 .. (n - 1)
  BY <1>1, <1>4, LenProperties
<1>6. \A i \in 1 .. (n - 1) : f[i] = q[i]
  BY <1>1, <1>4
<1> QED BY <1>2, <1>4, <1>5, <1>6 DEF n

\* Reverse returns a sequence of the same elements.
LEMMA ReverseType ==
  ASSUME NEW S, NEW q \in Seq(S)
  PROVE  Reverse(q) \in Seq(S)
<1> DEFINE f == [i \in 1 .. Len(q) |-> q[(Len(q) - i) + 1]]
<1>1. Len(q) \in Nat
  BY LenProperties
<1>2. ASSUME NEW i \in 1 .. Len(q)
      PROVE  q[(Len(q) - i) + 1] \in S
  <2>1. (Len(q) - i) + 1 \in 1 .. Len(q)
    BY <1>1
  <2> QED BY <2>1, ElementOfSeq
<1>3. f \in [1 .. Len(q) -> S]
  BY <1>2
<1> QED BY <1>1, <1>3, FunctionIsSeq DEF Reverse

-----------------------------------------------------------------------------
(* The learned orders and the flags of the context *)

\* Recording a bucket in a learned order keeps it a sequence without repetition.
LEMMA RecordType ==
  ASSUME NEW q \in Seq(Bucket), NEW b \in Bucket
  PROVE  /\ Record(q, b) \in Seq(Bucket)
         /\ IsInjective(q) => IsInjective(Record(q, b))
<1>1. DOMAIN q = 1 .. Len(q) /\ Len(q) \in Nat
  BY LenProperties
<1>2. CASE Contains(q, b)
  BY <1>2 DEF Record
<1>3. CASE ~Contains(q, b)
  <2> DEFINE r == Append(q, b)
  <2>1. Record(q, b) = r
    BY <1>3 DEF Record
  <2>2. /\ r \in Seq(Bucket) /\ Len(r) = Len(q) + 1
        /\ \A i \in 1 .. Len(q) : r[i] = q[i] /\ r[i] # b
        /\ r[Len(q) + 1] = b
    BY <1>3, AppendProperties DEF Contains
  <2>3. DOMAIN r = 1 .. (Len(q) + 1)
    BY <2>2, LenProperties
  <2> HIDE DEF r
  <2>4. IsInjective(q) => IsInjective(r)
    BY <1>1, <2>2, <2>3 DEF IsInjective
  <2> QED BY <2>1, <2>2, <2>4
<1> QED BY <1>2, <1>3

\* record_forward: extending the forward order keeps the runtime sound.
LEMMA RecordForwardSound ==
  ASSUME NEW s, Sound(s), NEW b \in Bucket
  PROVE  LET t == [s EXCEPT !.forward_order = Record(@, b)]
         IN  Sound(t) /\ t.bucket = s.bucket
<1> DEFINE q == Record(s.forward_order, b)
           t == [s EXCEPT !.forward_order = q]
<1>1. /\ s \in Runtime /\ Accounted(s) /\ Exclusive(s) /\ BacklogBounded(s)
      /\ IsInjective(s.forward_order) /\ s.forward_order \in Seq(Bucket)
  BY DEF Sound, Runtime
<1>2. q \in Seq(Bucket) /\ IsInjective(q)
  BY <1>1, RecordType
<1> HIDE DEF q
<1>3. /\ t \in Runtime /\ t.bucket = s.bucket /\ t.pending_unshards = s.pending_unshards
      /\ t.forward_order = q /\ t.reduce_grad_states = s.reduce_grad_states
  BY <1>1, <1>2 DEF Runtime
<1> HIDE DEF t
<1>4. Accounted(t) /\ Exclusive(t) /\ BacklogBounded(t)
  BY <1>1, <1>3 DEF Accounted, InFlight, Exclusive, BacklogBounded
<1>5. Sound(t) /\ t.bucket = s.bucket
  BY <1>2, <1>3, <1>4 DEF Sound
<1> QED BY <1>5 DEF t, q

\* record_post_forward: so does extending the post-forward order.
LEMMA RecordPostForwardSound ==
  ASSUME NEW s, Sound(s), NEW b \in Bucket
  PROVE  LET t == [s EXCEPT !.post_forward_order = Record(@, b)]
         IN  Sound(t) /\ t.bucket = s.bucket
<1> DEFINE q == Record(s.post_forward_order, b)
           t == [s EXCEPT !.post_forward_order = q]
<1>1. s \in Runtime /\ BacklogBounded(s) /\ s.post_forward_order \in Seq(Bucket)
  BY DEF Sound, Runtime
<1>2. q \in Seq(Bucket)
  BY <1>1, RecordType
<1> HIDE DEF q
<1>3. /\ t \in Runtime /\ t.bucket = s.bucket /\ t.pending_unshards = s.pending_unshards
      /\ t.forward_order = s.forward_order
      /\ t.reduce_grad_states = s.reduce_grad_states
  BY <1>1, <1>2 DEF Runtime
<1> HIDE DEF t
<1>4. BacklogBounded(t)
  BY <1>1, <1>3 DEF BacklogBounded
<1>5. Sound(t)
  BY <1>3, <1>4, SameSound
<1> QED BY <1>3, <1>5 DEF t, q

\* A step that changes only the flags of the context keeps the runtime sound.
LEMMA FlagsSound ==
  ASSUME NEW s, Sound(s), NEW t \in Runtime,
         t.bucket = s.bucket, t.pending_unshards = s.pending_unshards,
         t.forward_order = s.forward_order,
         t.reduce_grad_states = s.reduce_grad_states
  PROVE  Sound(t)
<1>1. BacklogBounded(t)
  BY DEF Sound, BacklogBounded
<1> QED BY <1>1, SameSound

-----------------------------------------------------------------------------
(* The inductive invariant *)

\* A module whose forward runs has its bucket unsharded; forwards of one bucket do
\* not nest; no backward, callback or finalization runs meanwhile.
OpenUnsharded ==
  /\ phase # "idle" => open = <<>>
  /\ \A i, j \in DOMAIN open : open[i].bucket = open[j].bucket => i = j
  /\ \A i \in DOMAIN open : rt.bucket[open[i].bucket].is_unsharded

\* The inductive invariant.
IInv == TypeOK /\ Sound(rt) /\ OpenUnsharded

\* The initial state satisfies it.
LEMMA InitIInv == Init => IInv
<1> SUFFICES ASSUME Init PROVE IInv
  OBVIOUS
<1>1. NewBucket \in BucketState /\ ~NewBucket.alloc /\ ~NewBucket.is_unsharded
  BY DEF NewBucket, BucketState
<1>2. <<>> \in Seq(Bucket) /\ <<>> \in Seq(OpenCall) /\ <<>> \in Seq(Seq(Event))
      /\ <<>> \in Seq(Event) /\ Len(<<>>) = 0 /\ DOMAIN <<>> = {}
  BY EmptySeq
<1> DEFINE f == [b \in Bucket |-> NewBucket]
<1>3. f \in [Bucket -> BucketState] /\ \A b \in Bucket : f[b] = NewBucket
  BY <1>1
<1>4. rt.bucket = f /\ rt.pending_unshards = {} /\ rt.forward_order = <<>>
      /\ rt.reduce_grad_states = <<>>
  BY DEF Init
<1>5. rt \in Runtime
  <2> HIDE DEF f
  <2> QED BY <1>2, <1>3 DEF Init, Runtime, f
<1>6. Accounted(rt) /\ Exclusive(rt)
  BY <1>1, <1>3, <1>4 DEF Accounted, AccountedFor, InFlight, Exclusive
<1>7. IsInjective(rt.forward_order) /\ BacklogBounded(rt)
  <2>1. MaxPendingReduceGrads \in Nat
    BY ConstantsOK DEF ConstantsOK
  <2> QED BY <2>1, <1>2, <1>4 DEF IsInjective, BacklogBounded
<1>8. TypeOK
  BY <1>2, <1>5 DEF TypeOK, Init, Phase
<1>9. OpenUnsharded
  BY <1>2 DEF OpenUnsharded, Init
<1> QED BY <1>5, <1>6, <1>7, <1>8, <1>9 DEF IInv, Sound

\* A step with no forward open preserves it if the new runtime is sound.
LEMMA RtPreserves ==
  ASSUME IInv, Sound(rt'), open = <<>>,
         UNCHANGED <<sync, open, graphs, forwards, todo, due, late, owed>>,
         weights' \in Nat, overtaken' \subseteq Bucket \X Nat, phase' \in Phase, left' \in Seq(Bucket), ready' \in BOOLEAN
  PROVE  IInv'
<1>1. rt' \in Runtime
  BY DEF Sound
<1>2. TypeOK'
  BY <1>1 DEF IInv, TypeOK
<1>3. DOMAIN open' = {}
  OBVIOUS
<1>4. OpenUnsharded'
  BY <1>3 DEF OpenUnsharded
<1> QED BY <1>2, <1>4 DEF IInv

\* Type of the running backward's next event.
LEMMA TodoFacts ==
  ASSUME IInv, todo # <<>>
  PROVE  todo[1] \in Event /\ Tail(todo) \in Seq(Event)
<1>1. todo \in Seq(Event) /\ Len(todo) \in Nat \ {0}
  BY EmptySeq DEF IInv, TypeOK
<1> QED BY <1>1, ElementOfSeq, HeadTailProperties

\* Type of the bucket finish_buckets visits next.
LEMMA LeftFacts ==
  ASSUME IInv, left # <<>>
  PROVE  left[1] \in Bucket /\ Tail(left) \in Seq(Bucket)
<1>1. left \in Seq(Bucket) /\ Len(left) \in Nat \ {0}
  BY EmptySeq DEF IInv, TypeOK
<1> QED BY <1>1, ElementOfSeq, HeadTailProperties

\* Accumulating grads on the unsharded params leaves the storage alone.
LEMMA KeptSound ==
  ASSUME NEW s, Sound(s), NEW b \in Bucket, NEW n \in Nat
  PROVE  /\ Sound([s EXCEPT !.bucket[b].kept = @ + n])
         /\ \A c \in Bucket : [s EXCEPT !.bucket[b].kept = @ + n].bucket[c].is_unsharded
                              = s.bucket[c].is_unsharded
<1> DEFINE v == s.bucket[b].kept + n
           k == [s.bucket[b] EXCEPT !.kept = v]
           t == [s EXCEPT !.bucket[b] = k]
<1>1. s.bucket[b] \in BucketState
  BY DEF Sound, Runtime
<1>2. v \in Nat
  BY <1>1 DEF BucketState
<1>3. [s EXCEPT !.bucket[b].kept = @ + n] = t
  OBVIOUS
<1> HIDE DEF v
<1>4. /\ k \in BucketState /\ k.alloc = s.bucket[b].alloc
      /\ k.created = s.bucket[b].created
      /\ k.is_unsharded = s.bucket[b].is_unsharded
  BY <1>1, <1>2 DEF BucketState
<1> HIDE DEF k
<1>5. /\ Sound(t) /\ t.bucket[b] = k
      /\ \A c \in Bucket : c # b => t.bucket[c] = s.bucket[c]
  BY <1>4, BucketSound
<1> HIDE DEF t
<1> QED BY <1>3, <1>4, <1>5

\* The pre-backward hook preserves the invariant.
LEMMA ReachOutputsPreserves == IInv /\ ReachOutputs => IInv'
<1> SUFFICES ASSUME IInv, ReachOutputs PROVE IInv'
  OBVIOUS
<1> DEFINE e == todo[1]
<1>1. TypeOK /\ Sound(rt) /\ open = <<>> /\ phase = "backward" /\ todo # <<>>
  BY DEF IInv, OpenUnsharded, ReachOutputs
<1>2. e \in Event /\ e.bucket \in Bucket /\ Tail(todo) \in Seq(Event)
  BY <1>1, TodoFacts DEF Event
<1>3. Sound(rt')
  BY <1>1, <1>2, PreBackwardHookSound DEF ReachOutputs, TypeOK
<1>4. due' \in [Bucket -> Nat] /\ owed' \in [Bucket -> Nat]
  <2>1. due[e.bucket] + 1 \in Nat /\ owed[e.bucket] + 1 \in Nat
    BY <1>1, <1>2 DEF TypeOK
  <2> QED BY <1>1, <1>2, <2>1 DEF ReachOutputs, TypeOK
<1>5. TypeOK'
  BY <1>1, <1>2, <1>3, <1>4 DEF ReachOutputs, TypeOK, Sound
<1>6. OpenUnsharded'
  BY <1>1 DEF OpenUnsharded, ReachOutputs
<1> QED BY <1>3, <1>5, <1>6 DEF IInv

\* Accumulating grads and the post-backward trigger preserve it.
LEMMA ReachInputsPreserves == IInv /\ ReachInputs => IInv'
<1> SUFFICES ASSUME IInv, ReachInputs PROVE IInv'
  OBVIOUS
<1> DEFINE e == todo[1]
           b == e.bucket
           last == \A i \in 2 .. Len(todo) : todo[i].bucket # b
           s1 == IF last /\ b \notin Defers
                 THEN [rt EXCEPT !.bucket[b].kept = @ + due[b]] ELSE rt
<1>1. TypeOK /\ Sound(rt) /\ open = <<>> /\ phase = "backward" /\ todo # <<>>
  BY DEF IInv, OpenUnsharded, ReachInputs
<1>2. e \in Event /\ b \in Bucket /\ Tail(todo) \in Seq(Event)
  BY <1>1, TodoFacts DEF Event
<1> HIDE DEF e, last
<1>3. Sound(s1)
  <2>1. due[b] \in Nat
    BY <1>1, <1>2 DEF TypeOK
  <2> QED BY <1>1, <1>2, <2>1, KeptSound
<1>4. Sound(rt')
  <2>1. rt' = IF e.flag THEN OnInputGrads(s1, b) ELSE s1
    BY DEF ReachInputs, e, last
  <2> HIDE DEF s1
  <2> QED BY <1>1, <1>2, <1>3, <2>1, OnInputGradsSound DEF TypeOK
<1>5. due' \in [Bucket -> Nat] /\ late' \in [Bucket -> Nat]
  <2>1. late[b] + due[b] \in Nat
    BY <1>1, <1>2 DEF TypeOK
  <2>2. /\ due' = IF last THEN [due EXCEPT ![b] = 0] ELSE due
        /\ late' = IF last /\ b \in Defers
                   THEN [late EXCEPT ![b] = late[b] + due[b]] ELSE late
    BY DEF ReachInputs, e, last
  <2> QED BY <1>1, <1>2, <2>1, <2>2 DEF TypeOK
<1>6. TypeOK'
  BY <1>1, <1>2, <1>4, <1>5 DEF ReachInputs, TypeOK, Sound
<1>7. OpenUnsharded'
  BY <1>1 DEF OpenUnsharded, ReachInputs
<1> QED BY <1>4, <1>6, <1>7 DEF IInv

\* The pre-forward hook preserves it: its bucket becomes unsharded, and no bucket of
\* an open forward is resharded.
LEMMA PreForwardPreserves ==
  ASSUME IInv, NEW b \in Bucket, NEW grad \in BOOLEAN, NEW fresh \in BOOLEAN,
         PreForward(b, grad, fresh)
  PROVE  IInv'
<1> DEFINE gs == IF fresh THEN Append(graphs, <<>>) ELSE graphs
           has_trigger == grad /\ b \notin NoInputGrad
           call == [bucket |-> b, id |-> forwards', grad |-> grad,
                    has_trigger |-> has_trigger]
           enter == [kind |-> "enter", bucket |-> b, id |-> forwards', flag |-> has_trigger]
           s0 == [rt EXCEPT !.forward_order = Record(@, b)]
           s1 == Unshard(s0, b)
<1>1. TypeOK /\ Sound(rt) /\ OpenUnsharded /\ weights \in Nat /\ forwards \in Nat
  BY DEF IInv, TypeOK
<1>2. Sound(s0) /\ s0.bucket = rt.bucket
  BY <1>1, RecordForwardSound
<1> HIDE DEF s0
<1>3. /\ Sound(s1) /\ s1.bucket[b].is_unsharded
      /\ \A c \in Bucket : rt.bucket[c].is_unsharded => s1.bucket[c].is_unsharded
  BY <1>1, <1>2, UnshardSound
<1>4. rt' = PrefetchForward(s1, b)
  BY DEF PreForward, s0
<1> HIDE DEF s1
<1>5. /\ Sound(rt') /\ rt'.bucket[b].is_unsharded
      /\ \A c \in Bucket : rt.bucket[c].is_unsharded => rt'.bucket[c].is_unsharded
  BY <1>1, <1>3, <1>4, PrefetchForwardSound
<1>6. forwards' \in Nat /\ call \in OpenCall /\ enter \in Event
  BY <1>1 DEF PreForward, OpenCall, Event
<1>7. /\ open \in Seq(OpenCall) /\ DOMAIN open = 1 .. Len(open) /\ Len(open) \in Nat
      /\ \A i \in DOMAIN open : open[i].bucket \in Bucket /\ open[i].bucket # b
  <2>1. open \in Seq(OpenCall) /\ ~IsOpen(b)
    BY <1>1 DEF TypeOK, PreForward
  <2>2. DOMAIN open = 1 .. Len(open) /\ Len(open) \in Nat
    BY <2>1, LenProperties
  <2>3. \A i \in DOMAIN open : open[i] \in OpenCall
    BY <2>1, <2>2, ElementOfSeq
  <2> QED BY <2>1, <2>2, <2>3 DEF IsOpen, OpenCall
<1>8. /\ open' \in Seq(OpenCall) /\ Len(open') = Len(open) + 1
      /\ \A i \in 1 .. Len(open) : open'[i] = open[i]
      /\ open'[Len(open) + 1].bucket = b
      /\ DOMAIN open' = 1 .. Len(open')
  <2>1. open' = Append(open, call)
    BY DEF PreForward
  <2>2. call.bucket = b
    OBVIOUS
  <2> HIDE DEF call
  <2>3. /\ open' \in Seq(OpenCall) /\ Len(open') = Len(open) + 1
        /\ \A i \in 1 .. Len(open) : open'[i] = open[i]
        /\ open'[Len(open) + 1] = call
    BY <1>6, <1>7, <2>1, AppendProperties
  <2> QED BY <2>2, <2>3, LenProperties
<1>9. graphs' \in Seq(Seq(Event))
  <2>1. graphs \in Seq(Seq(Event)) /\ <<>> \in Seq(Event)
    BY <1>1, EmptySeq DEF TypeOK
  <2>2. gs \in Seq(Seq(Event))
    BY <2>1, AppendProperties
  <2>3. graphs' = IF grad THEN Recorded(gs, enter) ELSE gs
    BY DEF PreForward
  <2> HIDE DEF gs, enter
  <2> QED BY <1>6, <2>2, <2>3, RecordedType
<1>10. TypeOK'
  BY <1>1, <1>5, <1>6, <1>8, <1>9 DEF PreForward, TypeOK, Sound
<1>11. OpenUnsharded'
  <2>1. phase' = "idle"
    BY DEF PreForward
  <2>2. \A i \in DOMAIN open' : i \in DOMAIN open \/ i = Len(open) + 1
    BY <1>7, <1>8
  <2>3. \A i, j \in DOMAIN open' : open'[i].bucket = open'[j].bucket => i = j
    BY <1>1, <1>7, <1>8, <2>2 DEF OpenUnsharded
  <2>4. \A i \in DOMAIN open' : rt'.bucket[open'[i].bucket].is_unsharded
    BY <1>1, <1>5, <1>7, <1>8, <2>2 DEF OpenUnsharded
  <2> QED BY <2>1, <2>3, <2>4 DEF OpenUnsharded
<1> QED BY <1>5, <1>10, <1>11 DEF IInv

\* The post-forward hook preserves it: it reshards only the forward it closes.
LEMMA PostForwardPreserves ==
  ASSUME IInv, NEW result, PostForward(result)
  PROVE  IInv'
<1> DEFINE call == Last(open)
           b == call.bucket
           s1 == [rt EXCEPT !.post_forward_order = Record(@, b)]
           exit == [kind |-> "exit", bucket |-> b, id |-> call.id,
                    flag |-> result # "opaque"]
<1>1. TypeOK /\ Sound(rt) /\ OpenUnsharded /\ open \in Seq(OpenCall) /\ open # <<>>
  BY DEF IInv, TypeOK, PostForward
<1>2. /\ DOMAIN open = 1 .. Len(open) /\ Len(open) \in Nat \ {0}
      /\ \A i \in DOMAIN open : open[i] \in OpenCall
  BY <1>1, LenProperties, EmptySeq, ElementOfSeq
<1>3. /\ call = open[Len(open)] /\ call \in OpenCall /\ b \in Bucket /\ call.id \in Nat
      /\ call.has_trigger \in BOOLEAN /\ rt.bucket[b].is_unsharded
  BY <1>1, <1>2 DEF Last, OpenCall, OpenUnsharded
<1> HIDE DEF call
<1>4. Sound(s1) /\ s1.bucket = rt.bucket
  BY <1>1, <1>3, RecordPostForwardSound
<1>5. PICK k \in BucketState :
        /\ rt' = [s1 EXCEPT !.bucket[b] = k]
        /\ \/ /\ k.alloc = s1.bucket[b].alloc
              /\ k.created = s1.bucket[b].created
              /\ k.is_unsharded = s1.bucket[b].is_unsharded
           \/ ~k.alloc /\ ~k.is_unsharded
  <2> DEFINE k0 == s1.bucket[b]
  <2>1. k0 \in BucketState
    BY <1>3, <1>4 DEF Sound, Runtime
  <2>2. rt' = CASE result = "none" -> [s1 EXCEPT !.bucket[b] = Reshard(k0)]
               [] result = "opaque" -> [s1 EXCEPT !.bucket[b] = Called(k0, FALSE)]
               [] OTHER ->
                    [s1 EXCEPT !.bucket[b] =
                       IF b \in ReshardAfterForward /\ result # "view"
                       THEN Reshard(Called(k0, call.has_trigger))
                       ELSE Called(k0, call.has_trigger)]
    BY DEF PostForward, call
  <2> HIDE DEF s1
  <2>3. \/ rt' = [s1 EXCEPT !.bucket[b] = Reshard(k0)]
        \/ rt' = [s1 EXCEPT !.bucket[b] = Called(k0, FALSE)]
        \/ rt' = [s1 EXCEPT !.bucket[b] = Called(k0, call.has_trigger)]
        \/ rt' = [s1 EXCEPT !.bucket[b] = Reshard(Called(k0, call.has_trigger))]
    BY <2>2
  <2>4. /\ Called(k0, call.has_trigger) \in BucketState
        /\ Called(k0, FALSE) \in BucketState
        /\ Called(k0, call.has_trigger).alloc = k0.alloc
        /\ Called(k0, call.has_trigger).created = k0.created
        /\ Called(k0, call.has_trigger).is_unsharded = k0.is_unsharded
        /\ Called(k0, FALSE).alloc = k0.alloc
        /\ Called(k0, FALSE).created = k0.created
        /\ Called(k0, FALSE).is_unsharded = k0.is_unsharded
    BY <1>3, <2>1, CountFacts
  <2>5. ASSUME NEW j \in BucketState
        PROVE  Reshard(j) \in BucketState /\ ~Reshard(j).alloc /\ ~Reshard(j).is_unsharded
    BY ReshardFacts
  <2> HIDE DEF k0
  <2> QED BY <2>1, <2>3, <2>4, <2>5 DEF k0
<1>6. Sound(rt') /\ \A c \in Bucket : c # b => rt'.bucket[c] = rt.bucket[c]
  <2> HIDE DEF s1
  <2> QED BY <1>3, <1>4, <1>5, BucketSound
<1>7. /\ open' \in Seq(OpenCall) /\ DOMAIN open' = 1 .. (Len(open) - 1)
      /\ \A i \in DOMAIN open' : open'[i] = open[i]
  BY <1>1, FrontFacts DEF PostForward
<1>8. graphs' \in Seq(Seq(Event))
  <2>1. exit \in Event
    BY <1>3 DEF Event
  <2>2. graphs' = IF result = "none" THEN graphs ELSE Recorded(graphs, exit)
    BY DEF PostForward, call
  <2> HIDE DEF exit
  <2> QED BY <1>1, <2>1, <2>2, RecordedType DEF TypeOK
<1>9. TypeOK'
  BY <1>1, <1>6, <1>7, <1>8 DEF PostForward, TypeOK, Sound
<1>10. OpenUnsharded'
  <2>1. phase' = "idle"
    BY DEF PostForward
  <2>2. \A i \in DOMAIN open' : i \in DOMAIN open /\ i # Len(open)
    BY <1>2, <1>7
  <2>3. \A i \in DOMAIN open' : open[i].bucket \in Bucket /\ open[i].bucket # b
    BY <1>1, <1>2, <1>3, <2>2 DEF OpenUnsharded, OpenCall
  <2> QED BY <1>1, <1>6, <1>7, <2>1, <2>2, <2>3 DEF OpenUnsharded
<1> QED BY <1>6, <1>9, <1>10 DEF IInv

\* Starting a backward preserves it.
LEMMA StartBackwardPreserves ==
  ASSUME IInv, NEW i \in DOMAIN graphs, NEW used, StartBackward(i, used)
  PROVE  IInv'
<1>1. TypeOK /\ Sound(rt) /\ open = <<>> /\ graphs \in Seq(Seq(Event))
  BY DEF IInv, TypeOK, StartBackward, Between
<1>2. todo' \in Seq(Event)
  <2>1. graphs[i] \in Seq(Event)
    BY <1>1, LenProperties, ElementOfSeq
  <2> QED BY <2>1, WalkType DEF StartBackward
<1>3. graphs' \in Seq(Seq(Event))
  BY <1>1, RemoveAtType DEF StartBackward
<1>4. TypeOK'
  BY <1>1, <1>2, <1>3 DEF StartBackward, TypeOK, Phase
<1>5. OpenUnsharded'
  BY <1>1 DEF StartBackward, OpenUnsharded
<1> QED BY <1>1, <1>4, <1>5 DEF IInv, StartBackward

\* Dropping an output preserves it.
LEMMA DropGraphPreserves ==
  ASSUME IInv, NEW i \in DOMAIN graphs, DropGraph(i)
  PROVE  IInv'
<1>1. TypeOK /\ Sound(rt) /\ OpenUnsharded /\ graphs \in Seq(Seq(Event))
  BY DEF IInv, TypeOK
<1>2. graphs' \in Seq(Seq(Event))
  BY <1>1, RemoveAtType DEF DropGraph
<1>3. TypeOK'
  BY <1>1, <1>2 DEF DropGraph, TypeOK
<1>4. OpenUnsharded'
  BY <1>1 DEF DropGraph, OpenUnsharded
<1> QED BY <1>1, <1>3, <1>4 DEF IInv, DropGraph

\* finish_deferred_backward preserves it: its bucket has no forward open.
LEMMA FinishDeferredBackwardPreserves ==
  ASSUME IInv, NEW b \in Bucket, FinishDeferredBackward(b)
  PROVE  IInv'
<1> DEFINE s1 == [rt EXCEPT !.bucket[b].kept = @ + late[b]]
<1>1. TypeOK /\ Sound(rt) /\ OpenUnsharded /\ sync \in [Bucket -> BOOLEAN] /\ late[b] \in Nat
  BY DEF IInv, TypeOK
<1>2. /\ Sound(s1)
      /\ \A c \in Bucket : s1.bucket[c].is_unsharded = rt.bucket[c].is_unsharded
  BY <1>1, KeptSound
<1>3. rt' = IF NeedsFinish(s1, b) THEN PostBackward(s1, b, TRUE) ELSE s1
  BY DEF FinishDeferredBackward
<1> HIDE DEF s1
<1>4. /\ Sound(rt')
      /\ \A c \in Bucket : c # b => rt'.bucket[c].is_unsharded = rt.bucket[c].is_unsharded
  BY <1>1, <1>2, <1>3, PostBackwardSound
<1>5. late' \in [Bucket -> Nat]
  BY <1>1 DEF FinishDeferredBackward, TypeOK
<1>6. TypeOK'
  BY <1>1, <1>4, <1>5 DEF FinishDeferredBackward, TypeOK, Sound
<1>7. \A i \in DOMAIN open : open[i].bucket \in Bucket /\ open[i].bucket # b
  <2>1. open \in Seq(OpenCall) /\ ~IsOpen(b)
    BY <1>1 DEF TypeOK, FinishDeferredBackward
  <2>2. \A i \in DOMAIN open : open[i] \in OpenCall
    BY <2>1, LenProperties, ElementOfSeq
  <2> QED BY <2>1, <2>2 DEF IsOpen, OpenCall
<1>8. OpenUnsharded'
  <2>1. open' = open /\ phase' = phase
    BY DEF FinishDeferredBackward
  <2> QED BY <1>1, <1>4, <1>7, <2>1 DEF OpenUnsharded
<1> QED BY <1>4, <1>6, <1>8 DEF IInv

\* Every step of autograd, of the callback and of finalize_backward preserves it.
LEMMA EngineStepPreserves == IInv /\ EngineStep => IInv'
<1> SUFFICES ASSUME IInv, EngineStep PROVE IInv'
  OBVIOUS
<1>1. /\ TypeOK /\ Sound(rt) /\ OpenUnsharded /\ rt \in Runtime
      /\ weights \in Nat /\ overtaken \subseteq Bucket \X Nat /\ sync \in [Bucket -> BOOLEAN]
      /\ phase \in Phase /\ left \in Seq(Bucket) /\ ready \in BOOLEAN
      /\ <<>> \in Seq(Bucket)
  BY EmptySeq DEF IInv, TypeOK
<1>2. CASE ReachOutputs
  BY <1>2, ReachOutputsPreserves
<1>3. CASE ReachInputs
  BY <1>3, ReachInputsPreserves
<1>4. CASE EndBackward
  <2>1. open = <<>> /\ phase' \in Phase
    BY <1>1, <1>4 DEF EndBackward, OpenUnsharded, Phase
  <2>2. left' \in Seq(Bucket)
    BY <1>1, <1>4, ConstantsOK DEF EndBackward, ConstantsOK
  <2> QED BY <1>1, <1>4, <2>1, <2>2, RtPreserves DEF EndBackward
<1>5. CASE FinishBucket
  <2> DEFINE b == left[1]
             s1 == IF NeedsFinish(rt, b) THEN PostBackward(rt, b, TRUE) ELSE rt
  <2>1. open = <<>> /\ left # <<>> /\ rt' = ResetCounts(s1, b)
    BY <1>1, <1>5 DEF FinishBucket, OpenUnsharded
  <2>2. b \in Bucket /\ left' \in Seq(Bucket)
    BY <1>5, <2>1, LeftFacts DEF FinishBucket
  <2> HIDE DEF b
  <2>3. Sound(s1)
    BY <1>1, <2>2, PostBackwardSound
  <2> HIDE DEF s1
  <2>4. Sound(rt')
    BY <2>1, <2>2, <2>3, ResetCountsSound
  <2> QED BY <1>1, <1>5, <2>1, <2>2, <2>4, RtPreserves DEF FinishBucket
<1>6. CASE FinishBucketRaises
  <2>1. open = <<>> /\ phase' \in Phase /\ left' \in Seq(Bucket)
    BY <1>1, <1>6 DEF FinishBucketRaises, OpenUnsharded, Phase
  <2> QED BY <1>1, <1>6, <2>1, RtPreserves DEF FinishBucketRaises
<1>7. CASE EndCallback
  <2> DEFINE finish == rt.finish_at_backward_end
             s1 == WaitAndClear(rt)
             s2 == IF finish THEN ReleasePrefetches(s1, s1.pending_unshards) ELSE s1
             t == [s2 EXCEPT !.finish_at_backward_end = FALSE,
                             !.post_backward_callback_queued = FALSE]
  <2>1. open = <<>> /\ rt' = t /\ phase' \in Phase /\ ready' = (finish /\ AllSync)
    BY <1>1, <1>7 DEF EndCallback, OpenUnsharded, Phase
  <2>2. finish \in BOOLEAN
    BY <1>1 DEF Runtime
  <2>3. Sound(s1)
    BY <1>1, WaitAndClearSound
  <2> HIDE DEF s1, finish
  <2>4. Sound(s2)
    BY <2>3, ReleaseSound
  <2> HIDE DEF s2
  <2>5. Sound(t)
    <3>1. /\ t \in Runtime /\ t.bucket = s2.bucket
          /\ t.pending_unshards = s2.pending_unshards
          /\ t.forward_order = s2.forward_order
          /\ t.reduce_grad_states = s2.reduce_grad_states
      BY <2>4 DEF Sound, Runtime
    <3> HIDE DEF t
    <3> QED BY <2>4, <3>1, FlagsSound
  <2>6. ready' \in BOOLEAN
    BY <2>1, <2>2
  <2> QED BY <1>1, <1>7, <2>1, <2>5, <2>6, RtPreserves DEF EndCallback
<1>8. CASE EndFinalizeBackward
  <2> DEFINE s1 == ReleasePrefetches(rt, rt.pending_unshards)
             t == [s1 EXCEPT !.pending_finalization = TRUE]
  <2>1. open = <<>> /\ rt' = t /\ phase' \in Phase
    BY <1>1, <1>8 DEF EndFinalizeBackward, OpenUnsharded, Phase
  <2>2. Sound(s1)
    BY <1>1, ReleaseSound
  <2> HIDE DEF s1
  <2>3. Sound(t)
    <3>1. /\ t \in Runtime /\ t.bucket = s1.bucket
          /\ t.pending_unshards = s1.pending_unshards
          /\ t.forward_order = s1.forward_order
          /\ t.reduce_grad_states = s1.reduce_grad_states
      BY <2>2 DEF Sound, Runtime
    <3> HIDE DEF t
    <3> QED BY <2>2, <3>1, FlagsSound
  <2> QED BY <1>1, <1>8, <2>1, <2>3, RtPreserves DEF EndFinalizeBackward
<1> QED BY <1>2, <1>3, <1>4, <1>5, <1>6, <1>7, <1>8 DEF EngineStep

\* Clearing every bucket's counts, or its reduced grads, leaves the storage alone.
LEMMA ZeroedSound ==
  ASSUME NEW s, Sound(s)
  PROVE  /\ Sound([s EXCEPT !.bucket = [b \in Bucket |-> Uncounted(@[b])]])
         /\ Sound([s EXCEPT !.bucket = [b \in Bucket |-> [@[b] EXCEPT !.reduced = 0]]])
<1>1. s.bucket \in [Bucket -> BucketState]
  BY DEF Sound, Runtime
<1>2. Sound([s EXCEPT !.bucket = [b \in Bucket |-> Uncounted(@[b])]])
  <2> DEFINE f == [b \in Bucket |-> Uncounted(s.bucket[b])]
  <2>1. [s EXCEPT !.bucket = [b \in Bucket |-> Uncounted(@[b])]] = [s EXCEPT !.bucket = f]
    OBVIOUS
  <2>2. /\ f \in [Bucket -> BucketState]
        /\ \A c \in Bucket : /\ f[c].alloc = s.bucket[c].alloc
                             /\ f[c].created = s.bucket[c].created
                             /\ f[c].is_unsharded = s.bucket[c].is_unsharded
    BY <1>1, CountFacts
  <2> HIDE DEF f
  <2> QED BY <2>1, <2>2, BucketsSound
<1>3. Sound([s EXCEPT !.bucket = [b \in Bucket |-> [@[b] EXCEPT !.reduced = 0]]])
  <2> DEFINE g(k) == [k EXCEPT !.reduced = 0]
             f == [b \in Bucket |-> g(s.bucket[b])]
  <2>1. [s EXCEPT !.bucket = [b \in Bucket |-> [@[b] EXCEPT !.reduced = 0]]]
        = [s EXCEPT !.bucket = f]
    OBVIOUS
  <2>2. ASSUME NEW k \in BucketState
        PROVE  /\ g(k) \in BucketState /\ g(k).alloc = k.alloc
               /\ g(k).created = k.created /\ g(k).is_unsharded = k.is_unsharded
    BY DEF BucketState
  <2> HIDE DEF g
  <2>3. /\ f \in [Bucket -> BucketState]
        /\ \A c \in Bucket : /\ f[c].alloc = s.bucket[c].alloc
                             /\ f[c].created = s.bucket[c].created
                             /\ f[c].is_unsharded = s.bucket[c].is_unsharded
    BY <1>1, <2>2
  <2> HIDE DEF f
  <2> QED BY <2>1, <2>3, BucketsSound
<1> QED BY <1>2, <1>3

\* reset() preserves it.
LEMMA ResetContextPreserves == IInv /\ ResetContext => IInv'
<1> SUFFICES ASSUME IInv, ResetContext PROVE IInv'
  OBVIOUS
<1> DEFINE s0 == WaitAndClear(ReleasePrefetches(rt, rt.pending_unshards))
           s1 == ReshardUnsharded(s0)
           s2 == [s1 EXCEPT !.pending_finalization = FALSE]
           t == [s2 EXCEPT !.bucket = [b \in Bucket |-> Uncounted(@[b])]]
<1>1. TypeOK /\ Sound(rt) /\ open = <<>> /\ open' = open
  BY DEF IInv, ResetContext, Between
<1>2. Sound(s0)
  BY <1>1, ReleaseSound, WaitAndClearSound
<1>t. rt' = t
  BY DEF ResetContext
<1> HIDE DEF s0
<1>3. Sound(s1)
  BY <1>2, ReshardUnshardedSound
<1> HIDE DEF s1
<1>4. Sound(s2)
  <2>1. /\ s2 \in Runtime /\ s2.bucket = s1.bucket
        /\ s2.pending_unshards = s1.pending_unshards
        /\ s2.forward_order = s1.forward_order
        /\ s2.reduce_grad_states = s1.reduce_grad_states
    BY <1>3 DEF Sound, Runtime
  <2> HIDE DEF s2
  <2> QED BY <1>3, <2>1, FlagsSound
<1> HIDE DEF s2
<1>5. Sound(rt')
  BY <1>t, <1>4, ZeroedSound
<1>6. graphs' \in Seq(Seq(Event))
  BY EmptySeq DEF ResetContext
<1>7. TypeOK'
  BY <1>1, <1>5, <1>6 DEF ResetContext, TypeOK, Sound
<1>8. DOMAIN open' = {}
  BY <1>1
<1>9. OpenUnsharded'
  BY <1>1, <1>8 DEF OpenUnsharded
<1> QED BY <1>5, <1>7, <1>9 DEF IInv

\* optimizer.step() preserves it.
LEMMA OptimizerStepPreserves == IInv /\ OptimizerStep => IInv'
<1> SUFFICES ASSUME IInv, OptimizerStep PROVE IInv'
  OBVIOUS
<1>1. TypeOK /\ Sound(rt) /\ open = <<>> /\ open' = open /\ weights \in Nat
  BY DEF IInv, OptimizerStep, Between, TypeOK
<1>2. Sound(rt')
  BY <1>1, ZeroedSound DEF OptimizerStep
<1>3. weights' \in Nat /\ owed' \in [Bucket -> Nat]
  BY <1>1 DEF OptimizerStep
<1>4. TypeOK'
  BY <1>1, <1>2, <1>3 DEF OptimizerStep, TypeOK, Sound
<1>5. DOMAIN open' = {}
  BY <1>1
<1>6. OpenUnsharded'
  BY <1>1, <1>5 DEF OpenUnsharded
<1> QED BY <1>2, <1>4, <1>6 DEF IInv

\* Every step preserves the inductive invariant.
LEMMA NextIInv == IInv /\ [Next]_vars => IInv'
<1> SUFFICES ASSUME IInv, [Next]_vars PROVE IInv'
  OBVIOUS
<1>1. /\ TypeOK /\ Sound(rt) /\ OpenUnsharded /\ rt \in Runtime
      /\ weights \in Nat /\ overtaken \subseteq Bucket \X Nat /\ sync \in [Bucket -> BOOLEAN]
      /\ phase \in Phase /\ left \in Seq(Bucket) /\ ready \in BOOLEAN
      /\ <<>> \in Seq(Bucket)
  BY EmptySeq DEF IInv, TypeOK
<1>2. CASE EngineStep
  BY <1>2, EngineStepPreserves
<1>3. CASE \E b \in Bucket, grad, fresh \in BOOLEAN : PreForward(b, grad, fresh)
  BY <1>3, PreForwardPreserves
<1>4. CASE \E result \in ResultNames : PostForward(result)
  BY <1>4, PostForwardPreserves
<1>5. CASE \E i \in DOMAIN graphs : \E used \in SUBSET Exits(graphs[i]) : StartBackward(i, used)
  BY <1>5, StartBackwardPreserves
<1>6. CASE \E b \in Bucket : Recompute(b)
  <2> PICK b \in Bucket : Recompute(b)
    BY <1>6
  <2>1. open = <<>> /\ Sound(rt')
    BY <1>1, UnshardForRecomputeSound DEF Recompute, OpenUnsharded
  <2> QED BY <1>1, <2>1, RtPreserves DEF Recompute
<1>7. CASE \E b \in Bucket : FinishDeferredBackward(b)
  BY <1>7, FinishDeferredBackwardPreserves
<1>8. CASE BackwardRaises
  <2>1. open = <<>> /\ open' = open /\ rt' = rt /\ phase' \in Phase
        /\ todo' \in Seq(Event) /\ due' \in [Bucket -> Nat]
    BY <1>1, <1>8, EmptySeq DEF BackwardRaises, OpenUnsharded, Phase
  <2>2. TypeOK'
    BY <1>1, <1>8, <2>1 DEF BackwardRaises, TypeOK
  <2>3. DOMAIN open' = {}
    BY <2>1
  <2>4. OpenUnsharded'
    BY <2>1, <2>3 DEF OpenUnsharded
  <2> QED BY <1>1, <2>1, <2>2, <2>4 DEF IInv
<1>9. CASE StartFinalizeBackward
  <2>1. open = <<>> /\ phase' \in Phase /\ Sound(rt')
    BY <1>1, <1>9 DEF StartFinalizeBackward, Between, Phase
  <2>2. left' \in Seq(Bucket)
    BY <1>9, ConstantsOK, ReverseType DEF StartFinalizeBackward, ConstantsOK
  <2> QED BY <1>1, <1>9, <2>1, <2>2, RtPreserves DEF StartFinalizeBackward
<1>10. CASE WaitFinalization
  <2> DEFINE s1 == WaitAndClear(rt)
             t == [s1 EXCEPT !.pending_finalization = FALSE]
  <2>1. Sound(s1) /\ s1.bucket = rt.bucket
    BY <1>1, WaitAndClearSound
  <2>2. rt' = t
    BY <1>10 DEF WaitFinalization
  <2> HIDE DEF s1
  <2>3. Sound(t) /\ t.bucket = rt.bucket
    <3>1. /\ t \in Runtime /\ t.bucket = s1.bucket
          /\ t.pending_unshards = s1.pending_unshards
          /\ t.forward_order = s1.forward_order
          /\ t.reduce_grad_states = s1.reduce_grad_states
      BY <2>1 DEF Sound, Runtime
    <3> HIDE DEF t
    <3> QED BY <2>1, <3>1, FlagsSound
  <2> HIDE DEF t
  <2>4. ready' \in BOOLEAN
    BY <1>10, <1>1 DEF WaitFinalization, AllSync
  <2>5. TypeOK'
    BY <1>1, <1>10, <2>2, <2>3, <2>4 DEF WaitFinalization, TypeOK, Sound
  <2>6. OpenUnsharded'
    BY <1>1, <1>10, <2>2, <2>3 DEF WaitFinalization, OpenUnsharded
  <2> QED BY <2>2, <2>3, <2>5, <2>6 DEF IInv
<1>11. CASE \E b \in Bucket : UnshardBucket(b)
  <2> PICK b \in Bucket : UnshardBucket(b)
    BY <1>11
  <2>1. open = <<>> /\ Sound(rt') /\ ready' \in BOOLEAN
    BY <1>1, UnshardSound DEF UnshardBucket, Between
  <2> QED BY <1>1, <2>1, RtPreserves DEF UnshardBucket
<1>12. CASE \E b \in Bucket : PrefetchBucket(b)
  <2> PICK b \in Bucket : PrefetchBucket(b)
    BY <1>12
  <2>1. Sound(Prefetch(rt, {b}, TRUE))
    BY <1>1, PrefetchSound
  <2>2. open = <<>> /\ Sound(rt') /\ ready' \in BOOLEAN
    BY <2>1 DEF PrefetchBucket, Between
  <2> QED BY <1>1, <2>2, RtPreserves DEF PrefetchBucket
<1>13. CASE \E b \in Bucket : ReshardBucket(b)
  <2> PICK b \in Bucket : ReshardBucket(b)
    BY <1>13
  <2> DEFINE s1 == ReleasePrefetches(rt, Pending(rt, b))
             k == Reshard(s1.bucket[b])
  <2>0. Pending(rt, b) \in SUBSET rt.pending_unshards
    BY DEF Pending
  <2>1. Sound(s1) /\ s1.bucket[b] \in BucketState
    <3>1. Sound(s1)
      BY <1>1, <2>0, ReleaseSound
    <3> QED BY <3>1 DEF Sound, Runtime
  <2>2. open = <<>> /\ rt' = IF s1.bucket[b].is_unsharded
                            THEN [s1 EXCEPT !.bucket[b] = k] ELSE s1
    BY DEF ReshardBucket, Between
  <2> HIDE DEF s1
  <2>3. k \in BucketState /\ ~k.alloc /\ ~k.is_unsharded
    BY <2>1, ReshardFacts
  <2> HIDE DEF k
  <2>4. Sound(rt')
    BY <2>1, <2>2, <2>3, BucketSound
  <2> QED BY <1>1, <2>2, <2>4, RtPreserves DEF ReshardBucket
<1>14. CASE ResetContext
  BY <1>14, ResetContextPreserves
<1>15. CASE StateDict
  <2>1. open = <<>> /\ Sound(rt')
    BY <1>1, <1>15, ReshardUnshardedSound DEF StateDict, Between
  <2> QED BY <1>1, <1>15, <2>1, RtPreserves DEF StateDict
<1>16. CASE LoadStateDict
  <2>1. open = <<>> /\ Sound(rt') /\ weights' \in Nat
    BY <1>1, <1>16, ReshardUnshardedSound DEF LoadStateDict, Between
  <2>2. overtaken' \subseteq Bucket \X Nat
    BY <1>1, <1>16 DEF LoadStateDict, Sound, Runtime, PendingUnshard
  <2> QED BY <1>1, <1>16, <2>1, <2>2, RtPreserves DEF LoadStateDict
<1>17. CASE OptimizerStep
  BY <1>17, OptimizerStepPreserves
<1>18. CASE \E value \in BOOLEAN : SetRequiresGradientSync(value)
  <2> PICK value \in BOOLEAN : SetRequiresGradientSync(value)
    BY <1>18
  <2>1. sync' \in [Bucket -> BOOLEAN]
    BY DEF SetRequiresGradientSync
  <2>2. TypeOK'
    BY <1>1, <2>1 DEF SetRequiresGradientSync, TypeOK
  <2>3. OpenUnsharded'
    BY <1>1 DEF SetRequiresGradientSync, OpenUnsharded
  <2> QED BY <1>1, <2>2, <2>3 DEF IInv, SetRequiresGradientSync
<1>19. CASE \E value \in BOOLEAN : SetManualBackwardFinalization(value)
  <2> PICK value \in BOOLEAN : SetManualBackwardFinalization(value)
    BY <1>19
  <2> DEFINE t == [rt EXCEPT !.manual_backward_finalization = value]
  <2>1. /\ t \in Runtime /\ t.bucket = rt.bucket
        /\ t.pending_unshards = rt.pending_unshards
        /\ t.forward_order = rt.forward_order
        /\ t.reduce_grad_states = rt.reduce_grad_states
    BY <1>1 DEF Runtime
  <2>2. open = <<>> /\ rt' = t
    BY DEF SetManualBackwardFinalization, Between
  <2> HIDE DEF t
  <2>3. Sound(rt')
    BY <1>1, <2>1, <2>2, FlagsSound
  <2> QED BY <1>1, <2>2, <2>3, RtPreserves DEF SetManualBackwardFinalization
<1>20. CASE \E i \in DOMAIN graphs : DropGraph(i)
  BY <1>20, DropGraphPreserves
<1>21. CASE UNCHANGED vars
  BY <1>1, <1>21 DEF IInv, TypeOK, OpenUnsharded, vars
<1> QED
  BY <1>2, <1>3, <1>4, <1>5, <1>6, <1>7, <1>8, <1>9, <1>10, <1>11, <1>12, <1>13,
     <1>14, <1>15, <1>16, <1>17, <1>18, <1>19, <1>20, <1>21 DEF Next

-----------------------------------------------------------------------------
(* Theorems *)

\* The inductive invariant holds in every reachable state, whatever the buckets,
\* their settings, the prefetch lists and the calls of the program.
THEOREM Invariance == Spec => []IInv
<1>1. Init => IInv
  BY InitIInv
<1>2. IInv /\ [Next]_vars => IInv'
  BY NextIInv
<1> QED BY <1>1, <1>2, PTL DEF Spec

\* Every variable keeps its type.
THEOREM TypeCorrect == Spec => []TypeOK
<1>1. IInv => TypeOK
  BY DEF IInv
<1> QED BY <1>1, Invariance, PTL

\* An unsharded bucket, or one whose in-flight refill writes its storage, has it
\* allocated, and no other bucket has: begin_unshard, finish_unshard, reshard and the
\* releases of prefetches agree on who owns the memory.
THEOREM StorageIsAccounted == Spec => []StorageAccounted
<1>1. IInv => StorageAccounted
  <2> SUFFICES ASSUME IInv, NEW b \in Bucket
               PROVE  rt.bucket[b].alloc <=>
                        rt.bucket[b].is_unsharded
                        \/ (Pending(rt, b) # {} /\ rt.bucket[b].created /\ b \notin RefillsInFinish)
    BY DEF StorageAccounted
  <2>1. Pending(rt, b) # {} <=> InFlight(rt, b)
    BY DEF Pending, InFlight
  <2> QED BY <2>1 DEF IInv, Sound, Accounted, AccountedFor
<1> QED BY <1>1, Invariance, PTL

\* No bucket is gathered twice at once or while unsharded, and the learned order
\* keeps at most one prefetch in flight.
THEOREM PrefetchesAreBounded == Spec => []PrefetchesBounded
<1>1. IInv => PrefetchesBounded
  BY DEF IInv, Sound, Exclusive, PrefetchesBounded, Learned
<1> QED BY <1>1, Invariance, PTL

\* drain_reduce_grad_states_if_needed keeps at most max_pending_reduce_grads
\* reductions pending.
THEOREM ReduceBacklogIsBounded == Spec => []ReduceBacklogBounded
<1>1. IInv => ReduceBacklogBounded
  BY DEF IInv, Sound, BacklogBounded, ReduceBacklogBounded
<1> QED BY <1>1, Invariance, PTL

\* The forward half of NoFreedRead: a module between its forward hooks has its
\* bucket unsharded with its storage allocated.
ForwardReadsAllocated ==
  \A i \in DOMAIN open : LET k == rt.bucket[open[i].bucket]
                         IN  k.is_unsharded /\ k.alloc

\* No hook, callback or call frees the storage a running forward reads: not another
\* bucket's hooks, a prefetch released or finish_deferred_backward.
THEOREM ForwardNeverReadsFreed == Spec => []ForwardReadsAllocated
<1>1. IInv => ForwardReadsAllocated
  <2> SUFFICES ASSUME IInv, NEW i \in DOMAIN open
               PROVE  rt.bucket[open[i].bucket].is_unsharded /\ rt.bucket[open[i].bucket].alloc
    BY DEF ForwardReadsAllocated
  <2>1. open \in Seq(OpenCall)
    BY DEF IInv, TypeOK
  <2>2. open[i] \in OpenCall
    BY <2>1, LenProperties, ElementOfSeq
  <2>3. open[i].bucket \in Bucket
    BY <2>2 DEF OpenCall
  <2> QED BY <2>3 DEF IInv, OpenUnsharded, Sound, Accounted, AccountedFor
<1> QED BY <1>1, Invariance, PTL

-----------------------------------------------------------------------------
(* The effect of each method *)

\* t has the prefetches and the settings of s; a callback may have been queued in
\* it, and only in a backward.
SameContext(s, t) ==
  /\ t.pending_unshards = s.pending_unshards
  /\ t.manual_backward_finalization = s.manual_backward_finalization
  /\ t.pending_finalization = s.pending_finalization
  /\ t.finish_at_backward_end = s.finish_at_backward_end
  /\ s.post_backward_callback_queued => t.post_backward_callback_queued
  /\ ~InBackward => t.post_backward_callback_queued = s.post_backward_callback_queued

LEMMA SameContextAgain ==
  ASSUME NEW s, NEW t, NEW u, SameContext(s, t), SameContext(t, u)
  PROVE  SameContext(s, u)
BY DEF SameContext

\* queue_post_backward_callback(): only the flags change, and they end set in a
\* backward that finalizes by itself.
LEMMA QueueCallbackEffect ==
  ASSUME NEW s \in Runtime, NEW finish \in BOOLEAN
  PROVE  LET t == QueueCallback(s, finish)
         IN  /\ t \in Runtime /\ t.bucket = s.bucket
             /\ ~finish => SameContext(s, t)
             /\ t.pending_unshards = s.pending_unshards
             /\ t.manual_backward_finalization = s.manual_backward_finalization
             /\ t.pending_finalization = s.pending_finalization
             /\ s.finish_at_backward_end => t.finish_at_backward_end
             /\ s.post_backward_callback_queued => t.post_backward_callback_queued
             /\ InBackward /\ ~s.manual_backward_finalization =>
                  /\ t.post_backward_callback_queued
                  /\ finish => t.finish_at_backward_end
<1> DEFINE v == s.finish_at_backward_end \/ finish
           t == [s EXCEPT !.finish_at_backward_end = v,
                          !.post_backward_callback_queued = TRUE]
<1>1. QueueCallback(s, finish) = IF s.manual_backward_finalization \/ ~InBackward THEN s ELSE t
  BY DEF QueueCallback
<1>2. /\ s.finish_at_backward_end \in BOOLEAN /\ s.post_backward_callback_queued \in BOOLEAN
      /\ v \in BOOLEAN /\ (~finish => v = s.finish_at_backward_end)
      /\ finish \/ s.finish_at_backward_end => v
  BY DEF Runtime
<1> HIDE DEF v
<1>3. /\ t \in Runtime /\ t.bucket = s.bucket /\ t.pending_unshards = s.pending_unshards
      /\ t.manual_backward_finalization = s.manual_backward_finalization
      /\ t.pending_finalization = s.pending_finalization
      /\ t.finish_at_backward_end = v /\ t.post_backward_callback_queued
  BY <1>2 DEF Runtime
<1> HIDE DEF t
<1>4. CASE s.manual_backward_finalization \/ ~InBackward
  BY <1>1, <1>2, <1>4 DEF SameContext
<1>5. CASE ~(s.manual_backward_finalization \/ ~InBackward)
  <2>1. QueueCallback(s, finish) = t
    BY <1>1, <1>5
  <2>2. ~finish => SameContext(s, t)
    BY <1>2, <1>3, <1>5 DEF SameContext
  <2> QED BY <1>2, <1>3, <2>1, <2>2
<1> QED BY <1>4, <1>5

\* drain_reduce_grad_states_if_needed(): only the pending reductions change.
LEMMA DrainedEffect ==
  ASSUME NEW s \in Runtime
  PROVE  Drained(s) \in Runtime /\ Drained(s).bucket = s.bucket /\ SameContext(s, Drained(s))
<1> DEFINE q == s.reduce_grad_states
           n == Len(q)
           drop == IF MaxPendingReduceGrads > 0 /\ n >= MaxPendingReduceGrads
                   THEN n - MaxPendingReduceGrads + 1 ELSE 0
           kept == SubSeq(q, drop + 1, n)
           retired == s.retired_reduce_grad_states \o SubSeq(q, 1, drop)
           t == [s EXCEPT !.reduce_grad_states = kept, !.retired_reduce_grad_states = retired]
<1>1. q \in Seq(Bucket) /\ s.retired_reduce_grad_states \in Seq(Bucket) /\ n \in Nat
  BY LenProperties DEF Runtime
<1>2. drop \in 0 .. n
  <2>1. MaxPendingReduceGrads \in Nat
    BY ConstantsOK DEF ConstantsOK
  <2> HIDE DEF n
  <2> QED BY <1>1, <2>1
<1>3. kept \in Seq(Bucket) /\ retired \in Seq(Bucket)
  BY <1>1, <1>2, SubSeqProperties, ConcatProperties
<1>4. Drained(s) = t
  BY DEF Drained
<1> HIDE DEF kept, retired
<1>5. /\ t \in Runtime /\ t.bucket = s.bucket /\ SameContext(s, t)
  BY <1>3 DEF Runtime, SameContext
<1> QED BY <1>4, <1>5

\* reduce_grads(): the bucket's kept grads are reduced, no other bucket changes.
LEMMA ReduceGradsEffect ==
  ASSUME NEW s \in Runtime, NEW b \in Bucket
  PROVE  LET t == ReduceGrads(s, b)
         IN  /\ t \in Runtime /\ SameContext(s, t)
             /\ t.bucket = [s.bucket EXCEPT ![b] = Reduced(s.bucket[b])]
<1> DEFINE d == Drained(s)
           q == Append(d.reduce_grad_states, b)
           f == [d.bucket EXCEPT ![b] = Reduced(d.bucket[b])]
           t == [d EXCEPT !.reduce_grad_states = q, !.bucket = f]
<1>1. ReduceGrads(s, b) = QueueCallback(t, FALSE)
  BY DEF ReduceGrads
<1>2. d \in Runtime /\ d.bucket = s.bucket /\ SameContext(s, d)
  BY DrainedEffect
<1> HIDE DEF d
<1>3. s.bucket \in [Bucket -> BucketState] /\ s.bucket[b] \in BucketState
  BY DEF Runtime
<1>4. f \in [Bucket -> BucketState] /\ f = [s.bucket EXCEPT ![b] = Reduced(s.bucket[b])]
  BY <1>2, <1>3, ReducedFacts
<1>5. q \in Seq(Bucket)
  BY <1>2, AppendProperties DEF Runtime
<1> HIDE DEF f, q
<1>6. t \in Runtime /\ t.bucket = f /\ SameContext(d, t)
  BY <1>2, <1>4, <1>5 DEF Runtime, SameContext
<1> HIDE DEF t
<1>7. /\ QueueCallback(t, FALSE) \in Runtime /\ QueueCallback(t, FALSE).bucket = t.bucket
      /\ SameContext(t, QueueCallback(t, FALSE))
  BY <1>6, QueueCallbackEffect
<1>8. SameContext(s, QueueCallback(t, FALSE))
  BY <1>2, <1>6, <1>7, SameContextAgain
<1> QED BY <1>1, <1>4, <1>6, <1>7, <1>8

\* One bucket after its post_backward().
Finished(k, b, reshard) ==
  LET k1 == [k EXCEPT !.needs_sync = ~sync[b]]
      k2 == IF reshard /\ k.is_unsharded /\ (sync[b] \/ b \in ReshardAfterBackward)
            THEN Reshard(k1) ELSE k1
  IN  IF sync[b] THEN Reduced(k2) ELSE k2

LEMMA FinishedFacts ==
  ASSUME NEW k \in BucketState, NEW b, NEW reshard \in BOOLEAN, sync[b] \in BOOLEAN
  PROVE  LET j == Finished(k, b, reshard)
         IN  /\ j \in BucketState
             /\ j.is_unsharded => k.is_unsharded /\ j.held = k.held
             /\ reshard /\ sync[b] => ~j.is_unsharded
<1> DEFINE k1 == [k EXCEPT !.needs_sync = ~sync[b]]
           k2 == IF reshard /\ k.is_unsharded /\ (sync[b] \/ b \in ReshardAfterBackward)
                 THEN Reshard(k1) ELSE k1
<1>1. /\ k1 \in BucketState /\ k1.is_unsharded = k.is_unsharded /\ k1.held = k.held
      /\ k.is_unsharded \in BOOLEAN
  BY DEF BucketState
<1>2. ASSUME NEW r \in BucketState
      PROVE  Reshard(r) \in BucketState /\ ~Reshard(r).is_unsharded
  BY DEF Reshard, Free, BucketState
<1>3. ASSUME NEW r \in BucketState
      PROVE  Reduced(r).is_unsharded = r.is_unsharded /\ Reduced(r).held = r.held
  <2>1. r.reduced + r.kept \in Nat
    BY DEF BucketState
  <2>2. ASSUME NEW v \in Nat
        PROVE  LET x == [r EXCEPT !.reduced = v, !.kept = 0]
               IN  x.is_unsharded = r.is_unsharded /\ x.held = r.held
    BY DEF BucketState
  <2> QED BY <2>1, <2>2 DEF Reduced
<1> HIDE DEF k1
<1>4. /\ k2 \in BucketState
      /\ k2.is_unsharded => k.is_unsharded /\ k2.held = k.held
      /\ reshard /\ sync[b] => ~k2.is_unsharded
  BY <1>1, <1>2
<1> HIDE DEF k2
<1>5. Finished(k, b, reshard) = IF sync[b] THEN Reduced(k2) ELSE k2
  BY DEF Finished, k1, k2
<1>6. CASE sync[b]
  <2>1. Reduced(k2) \in BucketState
    BY <1>4, ReducedFacts
  <2> QED BY <1>3, <1>4, <1>5, <1>6, <2>1
<1>7. CASE ~sync[b]
  BY <1>4, <1>5, <1>7
<1> QED BY <1>6, <1>7

\* post_backward(): its bucket is Finished, no other bucket changes.
LEMMA PostBackwardEffect ==
  ASSUME NEW s \in Runtime, NEW b \in Bucket, NEW reshard \in BOOLEAN,
         sync \in [Bucket -> BOOLEAN]
  PROVE  LET t == PostBackward(s, b, reshard)
         IN  /\ t \in Runtime /\ SameContext(s, t)
             /\ t.bucket = [s.bucket EXCEPT ![b] = Finished(s.bucket[b], b, reshard)]
<1> DEFINE k == s.bucket[b]
           k1 == [k EXCEPT !.needs_sync = ~sync[b]]
           k2 == IF reshard /\ k.is_unsharded /\ (sync[b] \/ b \in ReshardAfterBackward)
                 THEN Reshard(k1) ELSE k1
           f == [s.bucket EXCEPT ![b] = k2]
           t == [s EXCEPT !.bucket = f]
<1>1. /\ s.bucket \in [Bucket -> BucketState] /\ k \in BucketState /\ k1 \in BucketState
      /\ k1.is_unsharded = k.is_unsharded
  <2>1. s.bucket \in [Bucket -> BucketState]
    BY DEF Runtime
  <2>2. k \in BucketState
    BY <2>1
  <2> HIDE DEF k
  <2>3. k1 \in BucketState /\ k1.is_unsharded = k.is_unsharded
    BY <2>2 DEF BucketState
  <2> QED BY <2>1, <2>2, <2>3
<1>2. PostBackward(s, b, reshard) = IF sync[b] THEN ReduceGrads(t, b) ELSE t
  BY <1>1 DEF PostBackward
<1>3. Finished(k, b, reshard) = IF sync[b] THEN Reduced(k2) ELSE k2
  BY DEF Finished
<1> HIDE DEF k1
<1>4. k2 \in BucketState
  BY <1>1, ReshardFacts
<1> HIDE DEF k2, k
<1>5. f \in [Bucket -> BucketState] /\ f[b] = k2
  BY <1>1, <1>4
<1>6. \A x : [f EXCEPT ![b] = x] = [s.bucket EXCEPT ![b] = x]
  BY <1>1
<1> HIDE DEF f
<1>7. t \in Runtime /\ t.bucket = f /\ SameContext(s, t)
  BY <1>5 DEF Runtime, SameContext
<1> HIDE DEF t
<1>8. CASE sync[b]
  <2>1. /\ ReduceGrads(t, b) \in Runtime /\ SameContext(t, ReduceGrads(t, b))
        /\ ReduceGrads(t, b).bucket = [f EXCEPT ![b] = Reduced(k2)]
    BY <1>5, <1>7, ReduceGradsEffect
  <2>2. SameContext(s, ReduceGrads(t, b))
    BY <1>7, <2>1, SameContextAgain
  <2> QED BY <1>2, <1>3, <1>6, <1>8, <2>1, <2>2 DEF k
<1>9. CASE ~sync[b]
  <2>1. f = [s.bucket EXCEPT ![b] = k2]
    BY DEF f
  <2> QED BY <1>2, <1>3, <1>7, <1>9, <2>1 DEF k
<1> QED BY <1>8, <1>9
\* The settings and flags of the context and its pending reductions.
SameFlags(s, t) ==
  /\ t.manual_backward_finalization = s.manual_backward_finalization
  /\ t.pending_finalization = s.pending_finalization
  /\ t.finish_at_backward_end = s.finish_at_backward_end
  /\ t.post_backward_callback_queued = s.post_backward_callback_queued
  /\ t.reduce_grad_states = s.reduce_grad_states
  /\ t.retired_reduce_grad_states = s.retired_reduce_grad_states

\* What a bucket knows of its grads.
SameGrads(j, k) ==
  /\ k.needs_sync = j.needs_sync /\ k.kept = j.kept /\ k.reduced = j.reduced
  /\ k.input_triggers_run = j.input_triggers_run

\* Every unsharded bucket holds the current weights, every prefetch brings them,
\* but for the gathers that a load overtook.
UpToDate(s) ==
  /\ \A c \in Bucket : s.bucket[c].is_unsharded => Current(c, s.bucket[c].held)
  /\ \A p \in s.pending_unshards : Current(p.bucket, p.version)

\* t is s after gathers, prefetches and releases of prefetches: no bucket was
\* resharded, no grad touched, and only current weights were gathered.
OnlyGathers(s, t) ==
  /\ SameFlags(s, t)
  /\ \A c \in Bucket : SameGrads(s.bucket[c], t.bucket[c])
  /\ \A c \in Bucket : s.bucket[c].is_unsharded => t.bucket[c].is_unsharded
  /\ UpToDate(s) => UpToDate(t)

LEMMA OnlyGathersAgain ==
  ASSUME NEW s, NEW t, NEW u, OnlyGathers(s, t), OnlyGathers(t, u)
  PROVE  OnlyGathers(s, u)
BY DEF OnlyGathers, SameFlags, SameGrads

LEMMA OnlyGathersSelf ==
  ASSUME NEW s
  PROVE  OnlyGathers(s, s)
BY DEF OnlyGathers, SameFlags, SameGrads

\* The gathers of one bucket leave its grads alone.
LEMMA GatherFacts ==
  ASSUME NEW k \in BucketState, NEW b
  PROVE  /\ SameGrads(k, Free(k)) /\ SameGrads(k, BeginUnshard(b, k))
         /\ BeginUnshard(b, k).held = k.held
         /\ \A version \in Nat : /\ SameGrads(k, FinishUnshard(b, k, version))
                                 /\ FinishUnshard(b, k, version).held = version
BY DEF SameGrads, Free, BeginUnshard, FinishUnshard, BucketState

\* Releasing prefetches touches no unsharded bucket.
LEMMA ReleaseGathers ==
  ASSUME NEW s, Sound(s), NEW P \in SUBSET s.pending_unshards
  PROVE  LET t == ReleasePrefetches(s, P)
         IN  /\ OnlyGathers(s, t)
             /\ t.pending_unshards = s.pending_unshards \ P
<1> DEFINE f == [c \in Bucket |-> IF \E p \in P : p.bucket = c
                                  THEN Free(s.bucket[c]) ELSE s.bucket[c]]
           t == [s EXCEPT !.pending_unshards = @ \ P, !.bucket = f]
<1>1. /\ s \in Runtime /\ Exclusive(s) /\ s.bucket \in [Bucket -> BucketState]
  BY DEF Sound, Runtime
<1>2. ReleasePrefetches(s, P) = t
  BY <1>1 DEF ReleasePrefetches, Runtime
<1>3. \A c \in Bucket : /\ SameGrads(s.bucket[c], f[c])
                        /\ f[c].is_unsharded = s.bucket[c].is_unsharded
                        /\ s.bucket[c].is_unsharded => f[c] = s.bucket[c]
  <2> SUFFICES ASSUME NEW c \in Bucket
               PROVE  /\ SameGrads(s.bucket[c], f[c])
                      /\ f[c].is_unsharded = s.bucket[c].is_unsharded
                      /\ s.bucket[c].is_unsharded => f[c] = s.bucket[c]
    OBVIOUS
  <2>1. CASE \E p \in P : p.bucket = c
    <3>1. f[c] = Free(s.bucket[c]) /\ ~s.bucket[c].is_unsharded
      BY <1>1, <2>1 DEF Exclusive
    <3> QED BY <1>1, <3>1, FreeFacts, GatherFacts
  <2>2. CASE ~\E p \in P : p.bucket = c
    BY <2>2 DEF SameGrads
  <2> QED BY <2>1, <2>2
<1> HIDE DEF f
<1>4. t.pending_unshards = s.pending_unshards \ P /\ t.bucket = f /\ SameFlags(s, t)
  BY <1>1 DEF Runtime, SameFlags
<1> HIDE DEF t
<1>5. OnlyGathers(s, t)
  BY <1>3, <1>4 DEF OnlyGathers, UpToDate
<1> QED BY <1>2, <1>4, <1>5

\* unshard() of a sharded bucket: a gather reads the current weights, a prefetch
\* taken brings its own.
LEMMA TakeOrGatherGathers ==
  ASSUME NEW s, Sound(s), NEW b \in Bucket, ~s.bucket[b].is_unsharded, weights \in Nat
  PROVE  OnlyGathers(s, TakeOrGather(s, b))
<1> DEFINE own == Pending(s, b)
           s1 == ReleasePrefetches(s, Learned(s) \ own)
           k == s1.bucket[b]
           v == IF own = {} THEN weights ELSE (CHOOSE p \in own : TRUE).version
           k1 == IF own = {} THEN BeginUnshard(b, k) ELSE k
           k2 == FinishUnshard(b, k1, v)
           t == [s1 EXCEPT !.pending_unshards = @ \ own, !.bucket[b] = k2]
<1>1. TakeOrGather(s, b) = t
  <2>1. k2 = IF own = {} THEN FinishUnshard(b, BeginUnshard(b, k), weights)
             ELSE FinishUnshard(b, k, (CHOOSE p \in own : TRUE).version)
    OBVIOUS
  <2> HIDE DEF k2
  <2> QED BY <2>1 DEF TakeOrGather
<1>2. Sound(s1) /\ OnlyGathers(s, s1) /\ s1.pending_unshards \subseteq s.pending_unshards
  <2>1. Learned(s) \ own \in SUBSET s.pending_unshards
    BY DEF Learned
  <2> QED BY <2>1, ReleaseSound, ReleaseGathers
<1>3. /\ v \in Nat /\ (UpToDate(s) => Current(b, v))
  <2>1. CASE own = {}
    BY <2>1 DEF Current
  <2>2. CASE own # {}
    <3>1. v \in {p.version : p \in own}
      BY <2>2
    <3> QED BY <2>2, <3>1 DEF Sound, Runtime, Pending, PendingUnshard, UpToDate
  <2> QED BY <2>1, <2>2
<1> HIDE DEF own, s1, v
<1>4. s1 \in Runtime /\ s1.bucket \in [Bucket -> BucketState] /\ k \in BucketState
  BY <1>2 DEF Sound, Runtime
<1>5. k1 \in BucketState /\ SameGrads(k, k1)
  BY <1>4, BeginFacts, GatherFacts DEF SameGrads
<1>6. k2.is_unsharded /\ k2.held = v /\ SameGrads(k1, k2)
  BY <1>3, <1>5, FinishFacts, GatherFacts
<1>7. SameGrads(k, k2)
  BY <1>5, <1>6 DEF SameGrads
<1> HIDE DEF k1, k2
<1>8. /\ t.pending_unshards = s1.pending_unshards \ own
      /\ t.bucket = [s1.bucket EXCEPT ![b] = k2]
      /\ SameFlags(s1, t)
  BY <1>4 DEF Runtime, SameFlags
<1> HIDE DEF t
<1>9. t.bucket[b] = k2 /\ \A c \in Bucket : c # b => t.bucket[c] = s1.bucket[c]
  BY <1>4, <1>8
<1>10. \A c \in Bucket : SameGrads(s1.bucket[c], t.bucket[c])
  BY <1>7, <1>9 DEF SameGrads
<1>11. \A c \in Bucket : s1.bucket[c].is_unsharded => t.bucket[c].is_unsharded
  BY <1>6, <1>9
<1>12. UpToDate(s) => UpToDate(t)
  BY <1>2, <1>3, <1>6, <1>8, <1>9 DEF OnlyGathers, UpToDate
<1> QED BY <1>1, <1>2, <1>8, <1>10, <1>11, <1>12 DEF OnlyGathers, SameFlags, SameGrads

LEMMA UnshardGathers ==
  ASSUME NEW s, Sound(s), NEW b \in Bucket, weights \in Nat
  PROVE  OnlyGathers(s, Unshard(s, b))
BY TakeOrGatherGathers, OnlyGathersSelf DEF Unshard

\* finish_other_prefetches(): the buckets get what the prefetches bring.
LEMMA FinishOtherGathers ==
  ASSUME NEW s, Sound(s), NEW b \in Bucket
  PROVE  OnlyGathers(s, FinishOtherPrefetches(s, b))
<1> DEFINE P == Learned(s) \ Pending(s, b)
           V(c) == (CHOOSE p \in P : p.bucket = c).version
           f == [c \in Bucket |-> IF \E p \in P : p.bucket = c
                                  THEN FinishUnshard(c, s.bucket[c], V(c)) ELSE s.bucket[c]]
           t == [s EXCEPT !.pending_unshards = @ \ P, !.bucket = f]
<1>1. /\ s \in Runtime /\ s.bucket \in [Bucket -> BucketState]
      /\ s.pending_unshards \subseteq PendingUnshard
  BY DEF Sound, Runtime
<1>2. P \subseteq s.pending_unshards
  BY DEF Learned
<1>3. \A c \in Bucket : (\E p \in P : p.bucket = c)
                         => V(c) \in Nat /\ (UpToDate(s) => Current(c, V(c)))
  BY <1>1, <1>2 DEF PendingUnshard, UpToDate
<1>4. FinishOtherPrefetches(s, b) = t
  BY <1>1 DEF FinishOtherPrefetches, Runtime
<1> HIDE DEF P, V
<1>5. \A c \in Bucket : /\ SameGrads(s.bucket[c], f[c])
                        /\ s.bucket[c].is_unsharded => f[c].is_unsharded
                        /\ UpToDate(s) /\ f[c].is_unsharded => Current(c, f[c].held)
  <2> SUFFICES ASSUME NEW c \in Bucket
               PROVE  /\ SameGrads(s.bucket[c], f[c])
                      /\ s.bucket[c].is_unsharded => f[c].is_unsharded
                      /\ UpToDate(s) /\ f[c].is_unsharded => Current(c, f[c].held)
    OBVIOUS
  <2>1. CASE \E p \in P : p.bucket = c
    <3>1. f[c] = FinishUnshard(c, s.bucket[c], V(c))
      BY <2>1
    <3>2. s.bucket[c] \in BucketState /\ V(c) \in Nat /\ (UpToDate(s) => Current(c, V(c)))
      BY <1>1, <1>3, <2>1
    <3>3. /\ FinishUnshard(c, s.bucket[c], V(c)).is_unsharded
          /\ FinishUnshard(c, s.bucket[c], V(c)).held = V(c)
          /\ SameGrads(s.bucket[c], FinishUnshard(c, s.bucket[c], V(c)))
      BY <3>2, FinishFacts, GatherFacts
    <3> QED BY <3>1, <3>2, <3>3
  <2>2. CASE ~\E p \in P : p.bucket = c
    BY <2>2 DEF SameGrads, UpToDate
  <2> QED BY <2>1, <2>2
<1> HIDE DEF f
<1>6. t.pending_unshards = s.pending_unshards \ P /\ t.bucket = f /\ SameFlags(s, t)
  BY <1>1 DEF Runtime, SameFlags
<1> HIDE DEF t
<1>7. OnlyGathers(s, t)
  BY <1>2, <1>5, <1>6 DEF OnlyGathers, UpToDate
<1> QED BY <1>4, <1>7

LEMMA RecomputeGathers ==
  ASSUME NEW s, Sound(s), NEW b \in Bucket, weights \in Nat
  PROVE  OnlyGathers(s, UnshardForRecompute(s, b))
<1> DEFINE s1 == FinishOtherPrefetches(s, b)
<1>1. Sound(s1) /\ s1.bucket[b] = s.bucket[b] /\ OnlyGathers(s, s1)
  BY FinishOtherSound, FinishOtherGathers
<1> HIDE DEF s1
<1>2. CASE s.bucket[b].is_unsharded
  BY <1>2, OnlyGathersSelf DEF UnshardForRecompute
<1>3. CASE ~s.bucket[b].is_unsharded
  <2>1. OnlyGathers(s1, TakeOrGather(s1, b))
    BY <1>1, <1>3, TakeOrGatherGathers
  <2> QED BY <1>1, <1>3, <2>1, OnlyGathersAgain DEF UnshardForRecompute, s1
<1> QED BY <1>2, <1>3

\* prefetch(): its gathers read the current weights.
LEMMA PrefetchGathers ==
  ASSUME NEW s, Sound(s), NEW targets \in SUBSET Bucket, NEW explicit \in BOOLEAN
  PROVE  OnlyGathers(s, Prefetch(s, targets, explicit))
<1> DEFINE new == {x \in targets : /\ ~s.bucket[x].is_unsharded
                                   /\ Pending(s, x) = {}
                                   /\ explicit \/ Learned(s) = {}}
           N == [bucket : new, explicit : {explicit}, version : {weights}]
           f == [c \in Bucket |-> IF c \in new THEN BeginUnshard(c, s.bucket[c])
                                                ELSE s.bucket[c]]
           t == [s EXCEPT !.pending_unshards = @ \cup N, !.bucket = f]
<1>1. s \in Runtime /\ s.bucket \in [Bucket -> BucketState]
  BY DEF Sound, Runtime
<1>2. Prefetch(s, targets, explicit) = t
  BY <1>1 DEF Prefetch, Runtime
<1>3. \A p \in N : Current(p.bucket, p.version)
  BY DEF Current
<1> HIDE DEF new, N
<1>4. \A c \in Bucket : /\ SameGrads(s.bucket[c], f[c])
                        /\ f[c].is_unsharded = s.bucket[c].is_unsharded
                        /\ f[c].held = s.bucket[c].held
  <2> SUFFICES ASSUME NEW c \in Bucket
               PROVE  /\ SameGrads(s.bucket[c], f[c])
                      /\ f[c].is_unsharded = s.bucket[c].is_unsharded
                      /\ f[c].held = s.bucket[c].held
    OBVIOUS
  <2>1. CASE c \in new
    <3>1. f[c] = BeginUnshard(c, s.bucket[c])
      BY <2>1
    <3> QED BY <1>1, <3>1, BeginFacts, GatherFacts
  <2>2. CASE c \notin new
    BY <2>2 DEF SameGrads
  <2> QED BY <2>1, <2>2
<1> HIDE DEF f
<1>5. t.pending_unshards = s.pending_unshards \cup N /\ t.bucket = f /\ SameFlags(s, t)
  BY <1>1 DEF Runtime, SameFlags
<1> HIDE DEF t
<1>6. OnlyGathers(s, t)
  BY <1>3, <1>4, <1>5 DEF OnlyGathers, UpToDate
<1> QED BY <1>2, <1>6

LEMMA PrefetchListGathers ==
  ASSUME NEW s, Sound(s), NEW b \in Bucket
  PROVE  OnlyGathers(s, PrefetchForward(s, b)) /\ OnlyGathers(s, PrefetchBackward(s, b))
BY ConstantsOK, NextBuckets, PrefetchGathers
   DEF PrefetchForward, PrefetchBackward, ConstantsOK

\* t is s after methods that gather nothing: no bucket became unsharded, and the
\* unsharded ones were not written.
GathersNothing(s, t) ==
  /\ t.pending_unshards \subseteq s.pending_unshards
  /\ \A c \in Bucket : t.bucket[c].is_unsharded
                        => s.bucket[c].is_unsharded /\ t.bucket[c].held = s.bucket[c].held

LEMMA GathersNothingAgain ==
  ASSUME NEW s, NEW t, NEW u, GathersNothing(s, t), GathersNothing(t, u)
  PROVE  GathersNothing(s, u)
BY DEF GathersNothing

\* reset_backward_state(): only the counts of its bucket change.
LEMMA ResetCountsEffect ==
  ASSUME NEW s \in Runtime, NEW b \in Bucket
  PROVE  LET t == ResetCounts(s, b)
         IN  /\ t \in Runtime /\ SameContext(s, t)
             /\ t.bucket = [s.bucket EXCEPT ![b] = Uncounted(s.bucket[b])]
<1> DEFINE f == [s.bucket EXCEPT ![b] = Uncounted(s.bucket[b])]
           t == [s EXCEPT !.bucket = f]
<1>1. s.bucket \in [Bucket -> BucketState] /\ s.bucket[b] \in BucketState
  BY DEF Runtime
<1>2. f \in [Bucket -> BucketState]
  BY <1>1, CountFacts
<1>3. ResetCounts(s, b) = t
  BY DEF ResetCounts
<1> HIDE DEF f
<1>4. t \in Runtime /\ SameContext(s, t) /\ t.bucket = f
  BY <1>2 DEF Runtime, SameContext
<1> QED BY <1>3, <1>4 DEF f

\* Clearing the counts forgets the triggers run, and nothing else that matters here.
LEMMA UncountedFacts ==
  ASSUME NEW k \in BucketState
  PROVE  LET j == Uncounted(k)
         IN  /\ j \in BucketState /\ j.is_unsharded = k.is_unsharded /\ j.held = k.held
             /\ j.needs_sync = k.needs_sync /\ j.kept = k.kept /\ j.reduced = k.reduced
BY DEF Uncounted, BucketState

\* Counting a trigger that ran.
Triggered(k) == [k EXCEPT !.input_triggers_run = k.input_triggers_run + 1]

LEMMA TriggeredFacts ==
  ASSUME NEW k \in BucketState
  PROVE  LET j == Triggered(k)
         IN  /\ j \in BucketState /\ j.is_unsharded = k.is_unsharded /\ j.held = k.held
             /\ j.needs_sync = k.needs_sync /\ j.kept = k.kept /\ j.reduced = k.reduced
             /\ j.input_triggers_run > 0
<1>1. k.input_triggers_run \in Nat
  BY DEF BucketState
<1>2. ASSUME NEW v \in Nat
      PROVE  LET j == [k EXCEPT !.input_triggers_run = v]
             IN  /\ j \in BucketState /\ j.is_unsharded = k.is_unsharded /\ j.held = k.held
                 /\ j.needs_sync = k.needs_sync /\ j.kept = k.kept /\ j.reduced = k.reduced
                 /\ j.input_triggers_run = v
  BY DEF BucketState
<1>3. k.input_triggers_run + 1 \in Nat /\ k.input_triggers_run + 1 > 0
  BY <1>1
<1> QED BY <1>2, <1>3 DEF Triggered

\* on_input_grads(): a deferring bucket only counts the trigger; another one counts
\* it, or is Finished.
LEMMA OnInputGradsEffect ==
  ASSUME NEW s \in Runtime, NEW b \in Bucket, sync \in [Bucket -> BOOLEAN]
  PROVE  LET t == OnInputGrads(s, b)
             k == Triggered(s.bucket[b])
         IN  /\ t \in Runtime /\ SameContext(s, t)
             /\ \/ t.bucket = [s.bucket EXCEPT ![b] = k]
                \/ /\ b \notin Defers
                   /\ t.bucket = [s.bucket EXCEPT ![b] = Uncounted(Finished(k, b, TRUE))]
<1> DEFINE k == Triggered(s.bucket[b])
           f == [s.bucket EXCEPT ![b] = k]
           s1 == [s EXCEPT !.bucket = f]
           s2 == PostBackward(s1, b, TRUE)
<1>1. s.bucket \in [Bucket -> BucketState] /\ s.bucket[b] \in BucketState
  BY DEF Runtime
<1>2. k \in BucketState
  BY <1>1, TriggeredFacts
<1>3. s1 = [s EXCEPT !.bucket[b].input_triggers_run = @ + 1]
  BY DEF Triggered
<1>4. \/ OnInputGrads(s, b) = s1
      \/ b \notin Defers /\ OnInputGrads(s, b) = ResetCounts(s2, b)
  BY <1>3 DEF OnInputGrads
<1> HIDE DEF k
<1>5. f \in [Bucket -> BucketState] /\ f[b] = k
  BY <1>1, <1>2
<1>6. \A x : [f EXCEPT ![b] = x] = [s.bucket EXCEPT ![b] = x]
  BY <1>1
<1> HIDE DEF f
<1>7. s1 \in Runtime /\ s1.bucket = f /\ SameContext(s, s1)
  BY <1>5 DEF Runtime, SameContext
<1> HIDE DEF s1
<1>8. /\ s2 \in Runtime /\ SameContext(s1, s2)
      /\ s2.bucket = [s.bucket EXCEPT ![b] = Finished(k, b, TRUE)]
  BY <1>5, <1>6, <1>7, PostBackwardEffect
<1> HIDE DEF s2
<1>9. /\ ResetCounts(s2, b) \in Runtime /\ SameContext(s2, ResetCounts(s2, b))
      /\ ResetCounts(s2, b).bucket = [s.bucket EXCEPT ![b] = Uncounted(Finished(k, b, TRUE))]
  <2>1. s2.bucket[b] = Finished(k, b, TRUE)
    BY <1>1, <1>8
  <2>2. \A x : [s2.bucket EXCEPT ![b] = x] = [s.bucket EXCEPT ![b] = x]
    BY <1>1, <1>8
  <2>3. /\ ResetCounts(s2, b) \in Runtime /\ SameContext(s2, ResetCounts(s2, b))
        /\ ResetCounts(s2, b).bucket = [s2.bucket EXCEPT ![b] = Uncounted(s2.bucket[b])]
    BY <1>8, ResetCountsEffect
  <2> QED BY <2>1, <2>2, <2>3
<1>10. SameContext(s, s2)
  BY <1>7, <1>8, SameContextAgain
<1>11. SameContext(s, ResetCounts(s2, b))
  BY <1>9, <1>10, SameContextAgain
<1> QED BY <1>4, <1>5, <1>7, <1>9, <1>11 DEF k, f

\* on_input_grads() gathers nothing, and reshards no bucket but its own.
LEMMA OnInputGradsGathers ==
  ASSUME NEW s \in Runtime, NEW b \in Bucket, sync \in [Bucket -> BOOLEAN]
  PROVE  LET t == OnInputGrads(s, b)
         IN  /\ GathersNothing(s, t)
             /\ \A c \in Bucket : c # b => t.bucket[c] = s.bucket[c]
             /\ b \in Defers => t.bucket[b].is_unsharded = s.bucket[b].is_unsharded
<1> DEFINE t == OnInputGrads(s, b)
           k == Triggered(s.bucket[b])
           d == Finished(k, b, TRUE)
<1>1. s.bucket \in [Bucket -> BucketState] /\ s.bucket[b] \in BucketState /\ sync[b] \in BOOLEAN
  BY DEF Runtime
<1>2. /\ SameContext(s, t)
      /\ \/ t.bucket = [s.bucket EXCEPT ![b] = k]
         \/ b \notin Defers /\ t.bucket = [s.bucket EXCEPT ![b] = Uncounted(d)]
  BY OnInputGradsEffect
<1>3. /\ k \in BucketState /\ k.is_unsharded = s.bucket[b].is_unsharded
      /\ k.held = s.bucket[b].held
  BY <1>1, TriggeredFacts
<1> HIDE DEF k, t
<1>4. d \in BucketState /\ (d.is_unsharded => k.is_unsharded /\ d.held = k.held)
  BY <1>1, <1>3, FinishedFacts
<1> HIDE DEF d
<1>5. Uncounted(d).is_unsharded = d.is_unsharded /\ Uncounted(d).held = d.held
  BY <1>4, UncountedFacts
<1>6. \A c \in Bucket : c # b => t.bucket[c] = s.bucket[c]
  BY <1>1, <1>2
<1>7. /\ t.bucket[b] = k \/ (b \notin Defers /\ t.bucket[b] = Uncounted(d))
  BY <1>1, <1>2
<1> QED BY <1>2, <1>3, <1>4, <1>5, <1>6, <1>7 DEF GathersNothing, SameContext, t

\* t is s after a method that may queue the callback.
MayQueue(s, t) ==
  /\ t.manual_backward_finalization = s.manual_backward_finalization
  /\ t.pending_finalization = s.pending_finalization
  /\ s.finish_at_backward_end => t.finish_at_backward_end
  /\ s.post_backward_callback_queued => t.post_backward_callback_queued

\* A bucket after the backward without sync its grads were kept by was completed.
Completed(j, k) ==
  /\ ~k.needs_sync /\ k.kept = 0 /\ k.reduced = j.reduced + j.kept
  /\ k.input_triggers_run = j.input_triggers_run

LEMMA CompletedFacts ==
  ASSUME NEW k \in BucketState, NEW b, sync[b]
  PROVE  LET d == Finished(k, b, FALSE)
         IN  d.is_unsharded = k.is_unsharded /\ d.held = k.held /\ Completed(k, d)
<1> DEFINE k1 == [k EXCEPT !.needs_sync = FALSE]
<1>1. /\ k1 \in BucketState /\ k1.is_unsharded = k.is_unsharded /\ k1.held = k.held
      /\ ~k1.needs_sync /\ k1.kept = k.kept /\ k1.reduced = k.reduced
      /\ k1.input_triggers_run = k.input_triggers_run
  BY DEF BucketState
<1>2. Finished(k, b, FALSE) = Reduced(k1)
  BY DEF Finished
<1> HIDE DEF k1
<1>3. k1.reduced + k1.kept \in Nat
  BY <1>1 DEF BucketState
<1>4. ASSUME NEW v \in Nat
      PROVE  LET d == [k1 EXCEPT !.reduced = v, !.kept = 0]
             IN  /\ d.is_unsharded = k1.is_unsharded /\ d.held = k1.held
                 /\ d.needs_sync = k1.needs_sync /\ d.kept = 0 /\ d.reduced = v
                 /\ d.input_triggers_run = k1.input_triggers_run
  BY <1>1 DEF BucketState
<1> QED BY <1>1, <1>2, <1>3, <1>4 DEF Reduced, Completed

\* pre_backward_hook(): its bucket ends unsharded, no bucket is resharded, and a
\* bucket whose grads were kept without sync may have them reduced.
LEMMA PreBackwardHookEffect ==
  ASSUME NEW s, Sound(s), NEW b \in Bucket, weights \in Nat, sync \in [Bucket -> BOOLEAN]
  PROVE  LET t == PreBackwardHook(s, b)
         IN  /\ t.bucket[b].is_unsharded
             /\ \A c \in Bucket : s.bucket[c].is_unsharded => t.bucket[c].is_unsharded
             /\ UpToDate(s) => UpToDate(t)
             /\ \A c \in Bucket : c # b => SameGrads(s.bucket[c], t.bucket[c])
             /\ \/ SameGrads(s.bucket[b], t.bucket[b])
                \/ /\ sync[b] /\ b \notin Defers
                   /\ Completed(s.bucket[b], t.bucket[b])
             /\ MayQueue(s, t)
             /\ InBackward /\ ~s.manual_backward_finalization =>
                  t.post_backward_callback_queued /\ t.finish_at_backward_end
<1> DEFINE s0 == QueueCallback(s, TRUE)
           s1 == Unshard(s0, b)
           k == s1.bucket[b]
           s2 == IF k.backward_calls > 1 /\ k.needs_sync /\ sync[b] /\ b \notin Defers
                 THEN PostBackward(s1, b, FALSE) ELSE s1
           t == PrefetchBackward(s2, b)
<1>1. PreBackwardHook(s, b) = t
  BY DEF PreBackwardHook
<1>2. s \in Runtime /\ sync[b] \in BOOLEAN
  BY DEF Sound
<1>3. /\ Sound(s0) /\ s0.bucket = s.bucket /\ s0.pending_unshards = s.pending_unshards
      /\ MayQueue(s, s0)
      /\ InBackward /\ ~s.manual_backward_finalization =>
           s0.post_backward_callback_queued /\ s0.finish_at_backward_end
  <2>1. Sound(s0)
    BY QueueCallbackSound
  <2> HIDE DEF s0
  <2> QED BY <1>2, <2>1, QueueCallbackEffect DEF s0, MayQueue
<1> HIDE DEF s0
<1>4. Sound(s1) /\ s1.bucket[b].is_unsharded /\ OnlyGathers(s0, s1)
  BY <1>3, UnshardSound, UnshardGathers
<1> HIDE DEF s1
<1>5. s1 \in Runtime /\ s1.bucket \in [Bucket -> BucketState] /\ k \in BucketState
  BY <1>4 DEF Sound, Runtime
<1>6. /\ Sound(s2) /\ MayQueue(s1, s2) /\ GathersNothing(s1, s2)
      /\ InBackward /\ s1.post_backward_callback_queued => s2.post_backward_callback_queued
      /\ s2.finish_at_backward_end = s1.finish_at_backward_end
      /\ \A c \in Bucket : s2.bucket[c].is_unsharded = s1.bucket[c].is_unsharded
      /\ \A c \in Bucket : c # b => s2.bucket[c] = s1.bucket[c]
      /\ \/ SameGrads(s1.bucket[b], s2.bucket[b])
         \/ /\ sync[b] /\ b \notin Defers
            /\ Completed(s1.bucket[b], s2.bucket[b])
  <2>1. CASE s2 = s1
    BY <1>4, <2>1 DEF MayQueue, GathersNothing, SameGrads
  <2>2. CASE s2 # s1
    <3> DEFINE u == PostBackward(s1, b, FALSE)
               d == Finished(k, b, FALSE)
    <3>1. s2 = u /\ sync[b] /\ b \notin Defers
      BY <2>2
    <3>2. Sound(u) /\ SameContext(s1, u) /\ u.bucket = [s1.bucket EXCEPT ![b] = d]
      BY <1>4, <1>5, PostBackwardSound, PostBackwardEffect
    <3> HIDE DEF u
    <3>3. /\ d.is_unsharded => k.is_unsharded /\ d.held = k.held
          /\ d.is_unsharded = k.is_unsharded
          /\ Completed(k, d)
      BY <1>5, <3>1, CompletedFacts
    <3> HIDE DEF d
    <3>4. u.bucket[b] = d /\ \A c \in Bucket : c # b => u.bucket[c] = s1.bucket[c]
      BY <1>5, <3>2
    <3>5. MayQueue(s1, u) /\ GathersNothing(s1, u)
          /\ u.finish_at_backward_end = s1.finish_at_backward_end
      BY <3>2, <3>3, <3>4 DEF MayQueue, SameContext, GathersNothing
    <3> HIDE DEF s2
    <3> QED BY <3>1, <3>2, <3>3, <3>4, <3>5 DEF MayQueue
  <2> QED BY <2>1, <2>2
<1> HIDE DEF s2
<1>7. OnlyGathers(s2, t)
  BY <1>6, PrefetchListGathers
<1> HIDE DEF t
<1>8. t.bucket[b].is_unsharded /\ \A c \in Bucket : s.bucket[c].is_unsharded => t.bucket[c].is_unsharded
  BY <1>3, <1>4, <1>6, <1>7 DEF OnlyGathers
<1>9. UpToDate(s) => UpToDate(t)
  <2>1. UpToDate(s) => UpToDate(s1)
    BY <1>3, <1>4 DEF OnlyGathers, UpToDate
  <2>2. UpToDate(s1) => UpToDate(s2)
    BY <1>6 DEF GathersNothing, UpToDate
  <2> QED BY <2>1, <2>2, <1>7 DEF OnlyGathers
<1>10. \A c \in Bucket : SameGrads(s.bucket[c], s1.bucket[c]) /\ SameGrads(s2.bucket[c], t.bucket[c])
  BY <1>3, <1>4, <1>7 DEF OnlyGathers
<1>11. \A c \in Bucket : c # b => SameGrads(s.bucket[c], t.bucket[c])
  BY <1>6, <1>10 DEF SameGrads
<1>12. \/ SameGrads(s.bucket[b], t.bucket[b])
       \/ sync[b] /\ b \notin Defers /\ Completed(s.bucket[b], t.bucket[b])
  BY <1>6, <1>10 DEF SameGrads, Completed
<1>13. /\ MayQueue(s, t)
       /\ InBackward /\ ~s.manual_backward_finalization =>
            t.post_backward_callback_queued /\ t.finish_at_backward_end
  BY <1>3, <1>4, <1>6, <1>7 DEF MayQueue, OnlyGathers, SameFlags
<1> QED BY <1>1, <1>8, <1>9, <1>11, <1>12, <1>13

-----------------------------------------------------------------------------
(* The weights the buckets hold *)

\* finish_buckets is done with b.
Visited(b) == \A i \in DOMAIN left : left[i] # b

\* A backward or finalize_backward() finishes its buckets, or has finished them.
Finishing ==
  \/ phase = "callback" /\ rt.finish_at_backward_end
  \/ phase = "finalize" \/ rt.pending_finalization

\* When the optimizer may step, every bucket is sharded and nothing is in flight:
\* finish_buckets visited every bucket, in a syncing backward, and reshards those it
\* visits.
StepsSharded ==
  /\ phase \in {"idle", "backward"} => left = <<>>
  /\ phase = "finalize" => graphs = <<>>
  /\ rt.pending_finalization =>
       phase = "idle" /\ open = <<>> /\ graphs = <<>> /\ rt.pending_unshards = {}
  /\ ready => /\ phase \in {"idle", "finalize"} /\ open = <<>>
              /\ rt.pending_unshards = {}
              /\ \A b \in Bucket : ~rt.bucket[b].is_unsharded
  /\ Finishing => \A b \in Bucket : Visited(b) /\ sync[b] => ~rt.bucket[b].is_unsharded

\* The buckets and the prefetches have the current weights (but see Current).
WeightsInv == UpToDate(rt) /\ StepsSharded

\* Every bucket is in the reverse of an order of all of them.
LEMMA ReverseCovers ==
  ASSUME NEW S, NEW q \in Seq(S), NEW x \in ToSet(q)
  PROVE  \E i \in DOMAIN Reverse(q) : Reverse(q)[i] = x
<1> DEFINE f == [i \in 1 .. Len(q) |-> q[(Len(q) - i) + 1]]
<1>1. Len(q) \in Nat /\ DOMAIN q = 1 .. Len(q)
  BY LenProperties
<1>2. PICK j \in 1 .. Len(q) : q[j] = x
  BY <1>1 DEF ToSet
<1>3. /\ Len(q) - j + 1 \in 1 .. Len(q)
      /\ (Len(q) - (Len(q) - j + 1)) + 1 = j
  BY <1>1
<1>4. f[Len(q) - j + 1] = x
  BY <1>2, <1>3
<1>5. Reverse(q) = f
  BY DEF Reverse
<1> HIDE DEF f
<1> QED BY <1>1, <1>3, <1>4, <1>5 DEF Reverse

\* A step outside finish_buckets keeps it when the optimizer may not step after it
\* and the weights are up to date.
LEMMA WorkingKeepsWeights ==
  ASSUME UpToDate(rt'), UNCHANGED <<weights, overtaken>>, ~ready', ~rt'.pending_finalization,
         phase' \in {"idle", "backward"}, left' = <<>>
  PROVE  WeightsInv'
BY DEF WeightsInv, UpToDate, Current, StepsSharded, Finishing

\* A step that gathers nothing keeps it.
LEMMA GathersNothingKeepsWeights ==
  ASSUME IInv, WeightsInv, GathersNothing(rt, rt'),
         UNCHANGED <<sync, weights, overtaken, open, phase, left>>,
         rt'.pending_finalization => rt.pending_finalization,
         phase = "callback" /\ rt'.finish_at_backward_end => rt.finish_at_backward_end,
         graphs = <<>> => graphs' = <<>>, ready' => ready
  PROVE  WeightsInv'
BY DEF WeightsInv, UpToDate, Current, StepsSharded, Finishing, Visited, GathersNothing

\* Resharding every bucket leaves none unsharded.
LEMMA ReshardUnshardedEffect ==
  ASSUME NEW s \in Runtime
  PROVE  LET t == ReshardUnsharded(s)
         IN  /\ \A c \in Bucket : /\ ~t.bucket[c].is_unsharded
                                  /\ SameGrads(s.bucket[c], t.bucket[c])
             /\ t.pending_unshards = s.pending_unshards /\ SameFlags(s, t)
<1> DEFINE f == [c \in Bucket |-> IF s.bucket[c].is_unsharded THEN Reshard(s.bucket[c])
                                                              ELSE s.bucket[c]]
           t == [s EXCEPT !.bucket = f]
<1>1. s.bucket \in [Bucket -> BucketState]
  BY DEF Runtime
<1>2. ASSUME NEW k \in BucketState
      PROVE  SameGrads(k, Reshard(k)) /\ ~Reshard(k).is_unsharded /\ SameGrads(k, k)
  BY DEF SameGrads, Reshard, Free, BucketState
<1>3. \A c \in Bucket : ~f[c].is_unsharded /\ SameGrads(s.bucket[c], f[c])
  BY <1>1, <1>2
<1>4. ReshardUnsharded(s) = t
  BY DEF ReshardUnsharded
<1> HIDE DEF f
<1>5. t.bucket = f /\ t.pending_unshards = s.pending_unshards /\ SameFlags(s, t)
  BY DEF Runtime, SameFlags
<1> QED BY <1>3, <1>4, <1>5

\* wait_and_clear_reduce_grad_states() touches the pending reductions only.
LEMMA WaitAndClearEffect ==
  ASSUME NEW s \in Runtime
  PROVE  LET t == WaitAndClear(s)
         IN  /\ t \in Runtime /\ SameContext(s, t) /\ t.bucket = s.bucket
             /\ t.finish_at_backward_end = s.finish_at_backward_end
             /\ t.post_backward_callback_queued = s.post_backward_callback_queued
             /\ t.reduce_grad_states = <<>> /\ t.retired_reduce_grad_states = <<>>
<1>1. <<>> \in Seq(Bucket)
  BY EmptySeq
<1> QED BY <1>1 DEF WaitAndClear, Runtime, SameContext

\* Types and soundness, as the steps below use them.
LEMMA InvFacts ==
  ASSUME IInv
  PROVE  /\ Sound(rt) /\ rt \in Runtime /\ rt.bucket \in [Bucket -> BucketState]
         /\ weights \in Nat /\ sync \in [Bucket -> BOOLEAN]
         /\ phase \in Phase /\ left \in Seq(Bucket)
         /\ due \in [Bucket -> Nat] /\ late \in [Bucket -> Nat] /\ owed \in [Bucket -> Nat]
         /\ phase # "idle" => open = <<>>
BY DEF IInv, TypeOK, OpenUnsharded, Sound, Runtime

LEMMA InitWeights == Init => WeightsInv
<1> SUFFICES ASSUME Init PROVE WeightsInv
  OBVIOUS
<1>1. \A b \in Bucket : ~rt.bucket[b].is_unsharded
  BY DEF Init, NewBucket
<1>2. rt.pending_unshards = {} /\ ~rt.pending_finalization /\ ~ready /\ phase = "idle"
      /\ left = <<>>
  BY DEF Init
<1> QED BY <1>1, <1>2 DEF WeightsInv, UpToDate, StepsSharded, Finishing

\* pre_forward_hook() gathers, and prefetches the next bucket.
LEMMA PreForwardGathers ==
  ASSUME IInv, NEW b \in Bucket, NEW grad \in BOOLEAN, NEW fresh \in BOOLEAN,
         PreForward(b, grad, fresh)
  PROVE  OnlyGathers(rt, rt')
<1> DEFINE q == Record(rt.forward_order, b)
           s0 == [rt EXCEPT !.forward_order = q]
           s1 == Unshard(s0, b)
<1>1. Sound(rt) /\ rt \in Runtime /\ weights \in Nat
  BY InvFacts
<1>2. Sound(s0)
  BY <1>1, RecordForwardSound
<1>3. OnlyGathers(rt, s0)
  <2> HIDE DEF q
  <2> QED BY <1>1 DEF Runtime, OnlyGathers, SameFlags, SameGrads, UpToDate
<1>4. rt' = PrefetchForward(s1, b)
  BY DEF PreForward
<1> HIDE DEF s0
<1>5. Sound(s1) /\ OnlyGathers(s0, s1)
  BY <1>1, <1>2, UnshardSound, UnshardGathers
<1> HIDE DEF s1
<1>6. OnlyGathers(s1, rt')
  BY <1>4, <1>5, PrefetchListGathers
<1> QED BY <1>3, <1>5, <1>6, OnlyGathersAgain

\* The hooks of a forward call keep it.
LEMMA ForwardKeepsWeights ==
  ASSUME IInv, WeightsInv,
         \/ \E b \in Bucket, grad, fresh \in BOOLEAN : PreForward(b, grad, fresh)
         \/ \E result \in ResultNames : PostForward(result)
  PROVE  WeightsInv'
<1>1. /\ Sound(rt) /\ rt \in Runtime /\ rt.bucket \in [Bucket -> BucketState]
      /\ weights \in Nat /\ UpToDate(rt)
  BY InvFacts DEF WeightsInv
<1>2. ASSUME NEW b \in Bucket, NEW grad \in BOOLEAN, NEW fresh \in BOOLEAN,
             PreForward(b, grad, fresh)
      PROVE  WeightsInv'
  <2>1. OnlyGathers(rt, rt')
    BY <1>2, PreForwardGathers
  <2>2. /\ UpToDate(rt') /\ ~rt'.pending_finalization
    BY <1>1, <1>2, <2>1 DEF OnlyGathers, SameFlags, PreForward
  <2> QED BY <1>2, <2>2, WorkingKeepsWeights DEF PreForward, WeightsInv, StepsSharded
<1>3. ASSUME NEW result \in ResultNames, PostForward(result)
      PROVE  WeightsInv'
  <2> DEFINE call == Last(open)
             b == call.bucket
             q == Record(rt.post_forward_order, b)
             s1 == [rt EXCEPT !.post_forward_order = q]
             k0 == s1.bucket[b]
  <2>1. open # <<>> /\ ~ready /\ ~rt.pending_finalization /\ phase = "idle"
    BY <1>3 DEF PostForward, WeightsInv, StepsSharded
  <2>2. b \in Bucket
    <3>1. open \in Seq(OpenCall) /\ Len(open) \in Nat \ {0}
      BY <2>1, EmptySeq, LenProperties DEF IInv, TypeOK
    <3>2. Last(open) \in OpenCall
      BY <3>1, ElementOfSeq DEF Last
    <3> QED BY <3>2 DEF OpenCall
  <2>3. \E k : /\ rt' = [s1 EXCEPT !.bucket[b] = k]
               /\ k \in {Reshard(k0), Called(k0, FALSE), Called(k0, call.has_trigger),
                         Reshard(Called(k0, call.has_trigger))}
    <3>1. rt' = CASE result = "none" -> [s1 EXCEPT !.bucket[b] = Reshard(k0)]
               [] result = "opaque" -> [s1 EXCEPT !.bucket[b] = Called(k0, FALSE)]
               [] OTHER ->
                    [s1 EXCEPT !.bucket[b] =
                       IF b \in ReshardAfterForward /\ result # "view"
                       THEN Reshard(Called(k0, call.has_trigger))
                       ELSE Called(k0, call.has_trigger)]
      BY <1>3 DEF PostForward
    <3> HIDE DEF s1, k0, call
    <3> QED BY <3>1
  <2>4. s1.bucket = rt.bucket /\ s1.pending_unshards = rt.pending_unshards
        /\ s1.pending_finalization = rt.pending_finalization
    <3> HIDE DEF q
    <3> QED BY <1>1 DEF Runtime
  <2>5. ASSUME NEW j \in BucketState, NEW flag
        PROVE  /\ ~Reshard(j).is_unsharded
               /\ Called(j, flag).is_unsharded = j.is_unsharded
               /\ Called(j, flag).held = j.held
               /\ ~Reshard(Called(j, flag)).is_unsharded
    BY DEF Reshard, Free, Called, BucketState
  <2>6. k0 \in BucketState /\ k0 = rt.bucket[b]
    BY <1>1, <2>2, <2>4
  <2>7. PICK k : /\ rt' = [s1 EXCEPT !.bucket[b] = k]
                 /\ k \in {Reshard(k0), Called(k0, FALSE), Called(k0, call.has_trigger),
                           Reshard(Called(k0, call.has_trigger))}
    BY <2>3
  <2>8. k.is_unsharded => k0.is_unsharded /\ k.held = k0.held
    <3>1. k0 \in BucketState
      BY <2>6
    <3> HIDE DEF k0, call
    <3>2. /\ ~Reshard(k0).is_unsharded
          /\ Called(k0, FALSE).is_unsharded = k0.is_unsharded
          /\ Called(k0, FALSE).held = k0.held
          /\ Called(k0, call.has_trigger).is_unsharded = k0.is_unsharded
          /\ Called(k0, call.has_trigger).held = k0.held
          /\ ~Reshard(Called(k0, call.has_trigger)).is_unsharded
      BY <2>5, <3>1
    <3> QED BY <2>7, <3>2
  <2> HIDE DEF s1, k0, b
  <2>9. rt'.bucket = [s1.bucket EXCEPT ![b] = k]
        /\ rt'.pending_unshards = s1.pending_unshards
        /\ rt'.pending_finalization = s1.pending_finalization
    <3>1. s1 \in Runtime
      BY <1>1, <2>2, RecordPostForwardSound DEF s1, q, Sound
    <3> QED BY <2>7, <3>1 DEF Runtime
  <2>10. UpToDate(rt')
    BY <1>1, <2>2, <2>4, <2>6, <2>9, <2>8 DEF UpToDate
  <2>11. UNCHANGED <<weights, overtaken>> /\ ready' = ready /\ phase' = phase /\ left' = left
    BY <1>3 DEF PostForward
  <2>12. left = <<>>
    BY <2>1 DEF WeightsInv, StepsSharded
  <2> QED BY <2>1, <2>4, <2>9, <2>10, <2>11, <2>12, WorkingKeepsWeights
<1> QED BY <1>2, <1>3

\* A running backward, and the start of one, keep it.
LEMMA BackwardKeepsWeights ==
  ASSUME IInv, WeightsInv,
         \/ \E i \in DOMAIN graphs : \E used \in SUBSET Exits(graphs[i]) : StartBackward(i, used)
         \/ ReachOutputs \/ ReachInputs
         \/ \E b \in Bucket : Recompute(b)
         \/ \E b \in Bucket : FinishDeferredBackward(b)
         \/ BackwardRaises
  PROVE  WeightsInv'
<1>1. /\ Sound(rt) /\ rt \in Runtime /\ rt.bucket \in [Bucket -> BucketState]
      /\ weights \in Nat /\ sync \in [Bucket -> BOOLEAN] /\ UpToDate(rt)
      /\ late \in [Bucket -> Nat] /\ due \in [Bucket -> Nat]
  BY InvFacts DEF WeightsInv
<1>2. phase = "backward" => ~ready /\ ~rt.pending_finalization /\ left = <<>>
  BY DEF WeightsInv, StepsSharded
<1>3. ASSUME NEW i \in DOMAIN graphs, NEW used \in SUBSET Exits(graphs[i]), StartBackward(i, used)
      PROVE  WeightsInv'
  <2>1. ~rt.pending_finalization /\ left = <<>>
    <3>1. graphs # <<>>
      BY EmptySeq
    <3> QED BY <1>3, <3>1 DEF StartBackward, Between, WeightsInv, StepsSharded
  <2> QED BY <1>1, <1>3, <2>1, WorkingKeepsWeights DEF StartBackward
<1>4. CASE ReachOutputs
  <2> DEFINE e == todo[1]
             t == PreBackwardHook(rt, e.bucket)
  <2>1. e \in Event /\ e.bucket \in Bucket
    BY <1>4, TodoFacts DEF ReachOutputs, Event
  <2> HIDE DEF e
  <2>2. UpToDate(t) /\ MayQueue(rt, t)
    BY <1>1, <2>1, PreBackwardHookEffect
  <2>3. rt' = IF e.flag THEN t ELSE rt
    BY <1>4 DEF ReachOutputs, e
  <2> HIDE DEF t
  <2>4. UpToDate(rt') /\ rt'.pending_finalization = rt.pending_finalization
    BY <1>1, <2>2, <2>3 DEF MayQueue
  <2> QED BY <1>2, <1>4, <2>4, WorkingKeepsWeights DEF ReachOutputs
<1>5. CASE ReachInputs
  <2> DEFINE e == todo[1]
             b == e.bucket
             last == \A i \in 2 .. Len(todo) : todo[i].bucket # b
             s1 == IF last /\ b \notin Defers
                   THEN [rt EXCEPT !.bucket[b].kept = @ + due[b]] ELSE rt
  <2>1. e \in Event /\ b \in Bucket
    BY <1>5, TodoFacts DEF ReachInputs, Event
  <2>2. rt' = IF e.flag THEN OnInputGrads(s1, b) ELSE s1
    BY <1>5 DEF ReachInputs
  <2> HIDE DEF e, last
  <2>3. s1 \in Runtime /\ GathersNothing(rt, s1) /\ s1.pending_finalization = rt.pending_finalization
    <3>1. due[b] \in Nat
      BY <1>1, <2>1
    <3>2. Sound([rt EXCEPT !.bucket[b].kept = @ + due[b]])
      BY <1>1, <2>1, <3>1, KeptSound
    <3>3. \A c \in Bucket :
            /\ [rt EXCEPT !.bucket[b].kept = @ + due[b]].bucket[c].is_unsharded = rt.bucket[c].is_unsharded
            /\ [rt EXCEPT !.bucket[b].kept = @ + due[b]].bucket[c].held = rt.bucket[c].held
      BY <1>1, <2>1 DEF Runtime, BucketState
    <3>4. /\ [rt EXCEPT !.bucket[b].kept = @ + due[b]].pending_unshards = rt.pending_unshards
          /\ [rt EXCEPT !.bucket[b].kept = @ + due[b]].pending_finalization = rt.pending_finalization
      BY <1>1 DEF Runtime
    <3> QED BY <1>1, <3>2, <3>3, <3>4 DEF GathersNothing, Sound
  <2> HIDE DEF s1
  <2>4. GathersNothing(s1, rt') /\ rt'.pending_finalization = s1.pending_finalization
    <3>1. /\ GathersNothing(s1, OnInputGrads(s1, b)) /\ SameContext(s1, OnInputGrads(s1, b))
      BY <1>1, <2>1, <2>3, OnInputGradsGathers, OnInputGradsEffect
    <3>2. GathersNothing(s1, s1)
      BY DEF GathersNothing
    <3> QED BY <2>2, <3>1, <3>2 DEF SameContext
  <2>5. UpToDate(rt')
    BY <1>1, <2>3, <2>4 DEF GathersNothing, UpToDate
  <2> QED BY <1>2, <1>5, <2>3, <2>4, <2>5, WorkingKeepsWeights DEF ReachInputs
<1>6. ASSUME NEW b \in Bucket, Recompute(b)
      PROVE  WeightsInv'
  <2>1. UpToDate(rt') /\ rt'.pending_finalization = rt.pending_finalization
    BY <1>1, <1>6, RecomputeGathers DEF Recompute, OnlyGathers, SameFlags
  <2> QED BY <1>2, <1>6, <2>1, WorkingKeepsWeights DEF Recompute
<1>7. ASSUME NEW b \in Bucket, FinishDeferredBackward(b)
      PROVE  WeightsInv'
  <2> DEFINE s1 == [rt EXCEPT !.bucket[b].kept = @ + late[b]]
             u == PostBackward(s1, b, TRUE)
             d == Finished(s1.bucket[b], b, TRUE)
  <2>1. rt' = IF NeedsFinish(s1, b) THEN u ELSE s1
    BY <1>7 DEF FinishDeferredBackward
  <2>2. s1 \in Runtime
    <3>1. late[b] \in Nat
      BY <1>1
    <3> QED BY <1>1, <3>1, KeptSound DEF Sound
  <2>3. /\ GathersNothing(rt, s1) /\ s1.pending_finalization = rt.pending_finalization
        /\ s1.finish_at_backward_end = rt.finish_at_backward_end
    BY <1>1 DEF Runtime, BucketState, GathersNothing
  <2> HIDE DEF s1
  <2>4. s1.bucket \in [Bucket -> BucketState] /\ s1.bucket[b] \in BucketState /\ sync[b] \in BOOLEAN
    BY <1>1, <2>2 DEF Runtime
  <2>5. SameContext(s1, u) /\ u.bucket = [s1.bucket EXCEPT ![b] = d]
    BY <1>1, <2>2, PostBackwardEffect
  <2> HIDE DEF u
  <2>6. d.is_unsharded => s1.bucket[b].is_unsharded /\ d.held = s1.bucket[b].held
    BY <2>4, FinishedFacts
  <2> HIDE DEF d
  <2>7. GathersNothing(s1, u)
    BY <2>4, <2>5, <2>6 DEF GathersNothing, SameContext
  <2>8. GathersNothing(rt, rt') /\ rt'.pending_finalization = rt.pending_finalization
    BY <2>1, <2>3, <2>5, <2>7 DEF GathersNothing, SameContext
  <2>9. rt'.finish_at_backward_end = rt.finish_at_backward_end \/ phase # "callback"
    BY <1>7 DEF FinishDeferredBackward
  <2> QED BY <1>7, <2>8, <2>9, GathersNothingKeepsWeights DEF FinishDeferredBackward
<1>8. CASE BackwardRaises
  BY <1>1, <1>2, <1>8, WorkingKeepsWeights DEF BackwardRaises
<1> QED BY <1>3, <1>4, <1>5, <1>6, <1>7, <1>8

\* finish_buckets: the bucket it visits, finished if it needs it, its counts cleared.
LEMMA FinishBucketEffect ==
  ASSUME IInv, FinishBucket
  PROVE  LET b == left[1]
             k == rt.bucket[b]
         IN  /\ b \in Bucket /\ open = <<>> /\ rt' \in Runtime /\ SameContext(rt, rt')
             /\ left = <<b>> \o Tail(left) /\ left' = Tail(left)
             /\ left' \in Seq(Bucket) /\ Len(left') = Len(left) - 1
             /\ \A i \in DOMAIN left' : i + 1 \in DOMAIN left /\ left'[i] = left[i + 1]
             /\ rt'.bucket = [rt.bucket EXCEPT ![b] =
                                Uncounted(IF NeedsFinish(rt, b) THEN Finished(k, b, TRUE)
                                                                ELSE k)]
<1> DEFINE b == left[1]
           k == rt.bucket[b]
           s1 == IF NeedsFinish(rt, b) THEN PostBackward(rt, b, TRUE) ELSE rt
           d == IF NeedsFinish(rt, b) THEN Finished(k, b, TRUE) ELSE k
<1>1. rt \in Runtime /\ rt.bucket \in [Bucket -> BucketState] /\ sync \in [Bucket -> BOOLEAN]
  BY InvFacts
<1>2. left \in Seq(Bucket) /\ left # <<>> /\ left' = Tail(left) /\ rt' = ResetCounts(s1, b)
      /\ open = <<>>
  BY InvFacts DEF FinishBucket
<1>3. /\ b \in Bucket /\ left' \in Seq(Bucket) /\ Len(left') = Len(left) - 1
      /\ \A i \in DOMAIN left' : i + 1 \in DOMAIN left /\ left'[i] = left[i + 1]
      /\ left = <<b>> \o Tail(left)
  <2>1. Len(left) \in Nat \ {0} /\ DOMAIN left = 1 .. Len(left)
    BY <1>2, EmptySeq, LenProperties
  <2>2. /\ Tail(left) \in Seq(Bucket) /\ Len(Tail(left)) = Len(left) - 1
        /\ \A i \in 1 .. Len(Tail(left)) : Tail(left)[i] = left[i + 1]
    BY <1>2, <2>1
  <2>3. DOMAIN left' = 1 .. (Len(left) - 1)
    BY <1>2, <2>2, LenProperties
  <2>4. left = <<b>> \o Tail(left)
    BY <1>2, <2>1
  <2>5. b \in Bucket
    BY <1>2, <2>1, ElementOfSeq
  <2> QED BY <1>2, <2>1, <2>2, <2>3, <2>4, <2>5
<1> HIDE DEF b
<1>4. s1 \in Runtime /\ SameContext(rt, s1) /\ s1.bucket = [rt.bucket EXCEPT ![b] = d]
  <2>1. CASE NeedsFinish(rt, b)
    BY <1>1, <1>3, <2>1, PostBackwardEffect
  <2>2. CASE ~NeedsFinish(rt, b)
    BY <1>1, <1>3, <2>2 DEF SameContext
  <2> QED BY <2>1, <2>2
<1> HIDE DEF s1, d
<1>5. s1.bucket[b] = d /\ \A x : [s1.bucket EXCEPT ![b] = x] = [rt.bucket EXCEPT ![b] = x]
  BY <1>1, <1>3, <1>4
<1>6. /\ rt' \in Runtime /\ SameContext(s1, rt')
      /\ rt'.bucket = [s1.bucket EXCEPT ![b] = Uncounted(s1.bucket[b])]
  BY <1>2, <1>3, <1>4, ResetCountsEffect
<1>7. SameContext(rt, rt') /\ rt'.bucket = [rt.bucket EXCEPT ![b] = Uncounted(d)]
  BY <1>4, <1>5, <1>6, SameContextAgain
<1> QED BY <1>2, <1>3, <1>6, <1>7 DEF b, d

\* finish_buckets visits one bucket at a time.
LEMMA VisitedBefore ==
  ASSUME IInv, FinishBucket, NEW c \in Bucket, c # left[1], Visited(c)'
  PROVE  Visited(c)
<1> SUFFICES ASSUME NEW i \in DOMAIN left PROVE left[i] # c
  BY DEF Visited
<1>1. /\ left \in Seq(Bucket) /\ left' \in Seq(Bucket) /\ Len(left') = Len(left) - 1
      /\ \A n \in DOMAIN left' : n + 1 \in DOMAIN left /\ left'[n] = left[n + 1]
  BY InvFacts, FinishBucketEffect
<1>2. Len(left) \in Nat \ {0} /\ DOMAIN left = 1 .. Len(left) /\ DOMAIN left' = 1 .. (Len(left) - 1)
  <2>1. left # <<>>
    BY EmptySeq DEF FinishBucket
  <2>2. Len(left) \in Nat \ {0} /\ DOMAIN left = 1 .. Len(left)
    BY <1>1, <2>1, EmptySeq, LenProperties
  <2> QED BY <1>1, <2>2, LenProperties
<1>3. CASE i = 1
  BY <1>3
<1>4. CASE i # 1
  <2>1. i - 1 \in DOMAIN left' /\ (i - 1) + 1 = i
    BY <1>2, <1>4
  <2>2. left'[i - 1] = left[i]
    BY <1>1, <2>1
  <2> QED BY <2>1, <2>2 DEF Visited
<1> QED BY <1>3, <1>4

\* A visit of finish_buckets leaves its bucket sharded if gradient sync is on.
LEMMA FinishBucketKeepsWeights ==
  ASSUME IInv, WeightsInv, FinishBucket
  PROVE  WeightsInv'
<1> DEFINE b == left[1]
           k == rt.bucket[b]
           d == IF NeedsFinish(rt, b) THEN Finished(k, b, TRUE) ELSE k
<1>1. /\ b \in Bucket /\ SameContext(rt, rt')
      /\ left' = Tail(left) /\ left' \in Seq(Bucket)
      /\ \A i \in DOMAIN left' : i + 1 \in DOMAIN left /\ left'[i] = left[i + 1]
      /\ rt'.bucket = [rt.bucket EXCEPT ![b] = Uncounted(d)]
  BY FinishBucketEffect
<1>2. /\ rt.bucket \in [Bucket -> BucketState] /\ k \in BucketState
      /\ sync \in [Bucket -> BOOLEAN] /\ left \in Seq(Bucket)
  BY <1>1, InvFacts
<1>3. /\ d \in BucketState
      /\ d.is_unsharded => k.is_unsharded /\ d.held = k.held
      /\ sync[b] => ~d.is_unsharded
  <2>1. CASE NeedsFinish(rt, b)
    <3>1. /\ Finished(k, b, TRUE) \in BucketState
          /\ Finished(k, b, TRUE).is_unsharded
               => k.is_unsharded /\ Finished(k, b, TRUE).held = k.held
          /\ sync[b] => ~Finished(k, b, TRUE).is_unsharded
      <4>1. k \in BucketState /\ sync[b] \in BOOLEAN /\ TRUE \in BOOLEAN
        BY <1>1, <1>2
      <4> QED BY <4>1, FinishedFacts
    <3> QED BY <2>1, <3>1
  <2>2. CASE ~NeedsFinish(rt, b)
    BY <1>2, <2>2 DEF NeedsFinish
  <2> QED BY <2>1, <2>2
<1>4. Uncounted(d).is_unsharded = d.is_unsharded /\ Uncounted(d).held = d.held
  BY <1>3, UncountedFacts
<1> HIDE DEF d, b
<1>5. rt'.bucket[b] = Uncounted(d) /\ \A c \in Bucket : c # b => rt'.bucket[c] = rt.bucket[c]
  BY <1>1, <1>2
<1>6. GathersNothing(rt, rt')
  BY <1>1, <1>3, <1>4, <1>5 DEF GathersNothing, SameContext
<1>7. \A c \in Bucket : c # b /\ Visited(c)' => Visited(c)
  BY VisitedBefore DEF b
<1>8. /\ phase \in {"callback", "finalize"} /\ phase' = phase /\ UNCHANGED <<weights, overtaken>> /\ sync' = sync
      /\ open' = open /\ graphs' = graphs /\ ready' = ready
  BY DEF FinishBucket
<1>9. /\ rt'.finish_at_backward_end = rt.finish_at_backward_end
      /\ rt'.pending_finalization = rt.pending_finalization
  BY <1>1 DEF SameContext
<1>10. Finishing' => \A c \in Bucket : Visited(c)' /\ sync'[c] => ~rt'.bucket[c].is_unsharded
  <2>1. Finishing' => Finishing
    BY <1>8, <1>9 DEF Finishing
  <2>2. Finishing => \A c \in Bucket : Visited(c) /\ sync[c] => ~rt.bucket[c].is_unsharded
    BY DEF WeightsInv, StepsSharded
  <2> QED BY <1>1, <1>3, <1>4, <1>5, <1>7, <1>8, <2>1, <2>2
<1>11. UpToDate(rt)'
  BY <1>6, <1>8 DEF WeightsInv, UpToDate, Current, GathersNothing
<1> QED BY <1>6, <1>8, <1>9, <1>10, <1>11 DEF WeightsInv, StepsSharded, GathersNothing

\* The rest of the callback and of finalize_backward() keep it.
LEMMA FinishingKeepsWeights ==
  ASSUME IInv, WeightsInv,
         \/ EndBackward \/ FinishBucketRaises \/ EndCallback
         \/ StartFinalizeBackward \/ EndFinalizeBackward \/ WaitFinalization
  PROVE  WeightsInv'
<1>1. /\ Sound(rt) /\ rt \in Runtime /\ rt.bucket \in [Bucket -> BucketState]
      /\ UpToDate(rt) /\ sync \in [Bucket -> BOOLEAN]
      /\ phase # "idle" => open = <<>>
  BY InvFacts DEF WeightsInv
<1>2. <<>> \in Seq(Bucket) /\ \A b : left = <<>> => Visited(b)
  BY EmptySeq DEF Visited
<1>3. CASE EndBackward
  <2>1. ~ready /\ ~rt.pending_finalization /\ left = <<>>
    BY <1>3 DEF EndBackward, WeightsInv, StepsSharded
  <2>2. CASE rt.post_backward_callback_queued
    <3>1. /\ phase' = "callback"
          /\ left' = IF rt.finish_at_backward_end THEN Registration ELSE <<>>
      BY <1>3, <2>2 DEF EndBackward
    <3>2. rt.finish_at_backward_end => \A b \in Bucket : ~Visited(b)'
      <4>1. \A b \in Bucket : \E i \in DOMAIN Registration : Registration[i] = b
        BY ConstantsOK DEF ConstantsOK, ToSet
      <4> QED BY <3>1, <4>1 DEF Visited
    <3> QED BY <1>1, <1>3, <2>1, <3>1, <3>2
            DEF EndBackward, WeightsInv, UpToDate, Current, StepsSharded, Finishing
  <2>3. CASE ~rt.post_backward_callback_queued
    BY <1>1, <1>3, <2>1, <2>3, WorkingKeepsWeights DEF EndBackward
  <2> QED BY <2>2, <2>3
<1>4. CASE FinishBucketRaises
  <2>1. ~ready /\ ~rt.pending_finalization
    BY <1>4 DEF FinishBucketRaises, WeightsInv, StepsSharded
  <2> QED BY <1>1, <1>4, <2>1, WorkingKeepsWeights DEF FinishBucketRaises
<1>5. CASE EndCallback
  <2> DEFINE finish == rt.finish_at_backward_end
             s1 == WaitAndClear(rt)
             s2 == IF finish THEN ReleasePrefetches(s1, s1.pending_unshards) ELSE s1
             t == [s2 EXCEPT !.finish_at_backward_end = FALSE,
                             !.post_backward_callback_queued = FALSE]
  <2>1. /\ rt' = t /\ open = <<>> /\ phase = "callback" /\ left = <<>>
        /\ ready' = (finish /\ AllSync) /\ ~rt.pending_finalization
    BY <1>1, <1>5 DEF EndCallback, WeightsInv, StepsSharded
  <2>2. /\ Sound(s1) /\ s1.bucket = rt.bucket /\ s1.pending_unshards = rt.pending_unshards
        /\ s1.pending_finalization = rt.pending_finalization
    BY <1>1, WaitAndClearSound, WaitAndClearEffect DEF SameContext
  <2> HIDE DEF s1
  <2>3. /\ Sound(s2) /\ UpToDate(s2) /\ (finish => s2.pending_unshards = {})
        /\ s2.pending_finalization = s1.pending_finalization
        /\ \A c \in Bucket : s2.bucket[c].is_unsharded = s1.bucket[c].is_unsharded
    <3>1. UpToDate(s1)
      BY <1>1, <2>2 DEF UpToDate
    <3> QED BY <2>2, <3>1, ReleaseSound, ReleaseGathers DEF OnlyGathers, SameFlags
  <2> HIDE DEF s2
  <2>4. /\ t.bucket = s2.bucket /\ t.pending_unshards = s2.pending_unshards
        /\ t.pending_finalization = s2.pending_finalization
    BY <2>3 DEF Sound, Runtime
  <2> HIDE DEF t, finish
  <2>5. UpToDate(rt') /\ ~rt'.pending_finalization
    BY <2>1, <2>2, <2>3, <2>4 DEF UpToDate
  <2>6. ready' => /\ rt'.pending_unshards = {}
                  /\ \A b \in Bucket : ~rt'.bucket[b].is_unsharded
    <3>1. finish => Finishing
      BY <2>1 DEF Finishing, finish
    <3>2. ASSUME ready' PROVE \A b \in Bucket : ~rt.bucket[b].is_unsharded
      BY <1>2, <2>1, <3>1, <3>2 DEF WeightsInv, StepsSharded, AllSync
    <3> QED BY <2>1, <2>2, <2>3, <2>4, <3>2
  <2>7. phase' = "idle" /\ left' = <<>> /\ UNCHANGED <<weights, overtaken>> /\ open' = <<>>
    BY <1>5, <2>1 DEF EndCallback
  <2> QED BY <2>5, <2>6, <2>7 DEF WeightsInv, UpToDate, Current, StepsSharded, Finishing
<1>6. CASE StartFinalizeBackward
  <2>1. /\ phase = "idle" /\ open = <<>> /\ graphs = <<>> /\ phase' = "finalize" /\ rt' = rt
        /\ open' = open /\ graphs' = graphs /\ UNCHANGED <<weights, overtaken>> /\ ready' = ready
        /\ ~rt.pending_finalization /\ left' = Reverse(ModuleOrder)
    BY <1>6 DEF StartFinalizeBackward, Between, CheckOutsideBackward
  <2>2. \A b \in Bucket : ~Visited(b)'
    BY <2>1, ConstantsOK, ReverseCovers DEF Visited, ConstantsOK
  <2> QED BY <2>1, <2>2 DEF WeightsInv, UpToDate, Current, StepsSharded, Finishing
<1>7. CASE EndFinalizeBackward
  <2> DEFINE s1 == ReleasePrefetches(rt, rt.pending_unshards)
             t == [s1 EXCEPT !.pending_finalization = TRUE]
  <2>1. /\ rt' = t /\ phase = "finalize" /\ phase' = "idle" /\ left = <<>> /\ left' = left
        /\ open = <<>> /\ open' = open /\ graphs' = graphs /\ UNCHANGED <<weights, overtaken>>
        /\ sync' = sync /\ ready' = ready
    BY <1>1, <1>7 DEF EndFinalizeBackward
  <2>2. /\ Sound(s1) /\ UpToDate(s1) /\ s1.pending_unshards = {}
        /\ \A c \in Bucket : s1.bucket[c].is_unsharded = rt.bucket[c].is_unsharded
    BY <1>1, ReleaseSound, ReleaseGathers DEF OnlyGathers
  <2> HIDE DEF s1
  <2>3. t.bucket = s1.bucket /\ t.pending_unshards = s1.pending_unshards
    BY <2>2 DEF Sound, Runtime
  <2> HIDE DEF t
  <2>4. UpToDate(rt)'
    BY <2>1, <2>2, <2>3 DEF UpToDate, Current
  <2>5. \A b \in Bucket : sync[b] => ~rt.bucket[b].is_unsharded
    BY <1>2, <2>1 DEF WeightsInv, StepsSharded, Finishing
  <2>6. graphs = <<>>
    BY <2>1 DEF WeightsInv, StepsSharded
  <2>7. ready => \A b \in Bucket : ~rt.bucket[b].is_unsharded
    BY DEF WeightsInv, StepsSharded
  <2> QED BY <2>1, <2>2, <2>3, <2>4, <2>5, <2>6, <2>7 DEF WeightsInv, StepsSharded
<1>8. CASE WaitFinalization
  <2> DEFINE s1 == WaitAndClear(rt)
             t == [s1 EXCEPT !.pending_finalization = FALSE]
  <2>1. /\ rt' = t /\ phase = "idle" /\ rt.pending_finalization /\ phase' = phase
        /\ left' = left /\ open' = open /\ UNCHANGED <<weights, overtaken>> /\ ready' = AllSync
    BY <1>8 DEF WaitFinalization
  <2>2. /\ s1 \in Runtime /\ s1.bucket = rt.bucket /\ s1.pending_unshards = rt.pending_unshards
    BY <1>1, WaitAndClearEffect DEF SameContext
  <2> HIDE DEF s1
  <2>3. /\ t.bucket = rt.bucket /\ t.pending_unshards = rt.pending_unshards
        /\ ~t.pending_finalization
    BY <2>2 DEF Runtime
  <2> HIDE DEF t
  <2>4. left = <<>> /\ open = <<>> /\ rt.pending_unshards = {}
    BY <2>1 DEF WeightsInv, StepsSharded
  <2>5. AllSync => \A b \in Bucket : ~rt.bucket[b].is_unsharded
    BY <1>2, <2>1, <2>4 DEF WeightsInv, StepsSharded, Finishing, AllSync
  <2>6. UpToDate(rt)'
    BY <1>1, <2>1, <2>3 DEF UpToDate, Current
  <2> QED BY <2>1, <2>3, <2>4, <2>5, <2>6 DEF WeightsInv, StepsSharded, Finishing
<1> QED BY <1>3, <1>4, <1>5, <1>6, <1>7, <1>8

\* The calls of the program keep it.
LEMMA CallsKeepWeights ==
  ASSUME IInv, WeightsInv,
         \/ \E b \in Bucket : UnshardBucket(b) \/ PrefetchBucket(b) \/ ReshardBucket(b)
         \/ ResetContext \/ StateDict \/ LoadStateDict \/ OptimizerStep
         \/ \E value \in BOOLEAN : SetRequiresGradientSync(value)
         \/ \E value \in BOOLEAN : SetManualBackwardFinalization(value)
         \/ \E i \in DOMAIN graphs : DropGraph(i)
  PROVE  WeightsInv'
<1>1. /\ Sound(rt) /\ rt \in Runtime /\ rt.bucket \in [Bucket -> BucketState]
      /\ weights \in Nat /\ UpToDate(rt)
  BY InvFacts DEF WeightsInv
<1>2. phase = "idle" => left = <<>>
  BY DEF WeightsInv, StepsSharded
<1>3. ASSUME NEW b \in Bucket, UnshardBucket(b) \/ PrefetchBucket(b)
      PROVE  WeightsInv'
  <2>1. OnlyGathers(rt, rt')
    BY <1>1, <1>3, UnshardGathers, PrefetchGathers DEF UnshardBucket, PrefetchBucket
  <2>2. /\ UNCHANGED <<weights, overtaken>> /\ ~ready' /\ phase' = "idle" /\ left' = left
        /\ ~rt.pending_finalization /\ phase = "idle"
    BY <1>3 DEF UnshardBucket, PrefetchBucket, Between, CheckOutsideBackward
  <2> QED BY <1>1, <1>2, <2>1, <2>2, WorkingKeepsWeights DEF OnlyGathers, SameFlags
<1>4. ASSUME NEW b \in Bucket, ReshardBucket(b)
      PROVE  WeightsInv'
  <2> DEFINE s1 == ReleasePrefetches(rt, Pending(rt, b))
             k == Reshard(s1.bucket[b])
             t == [s1 EXCEPT !.bucket[b] = k]
  <2>1. rt' = IF s1.bucket[b].is_unsharded THEN t ELSE s1
    BY <1>4 DEF ReshardBucket
  <2>2. Pending(rt, b) \in SUBSET rt.pending_unshards
    BY DEF Pending
  <2>3. /\ Sound(s1) /\ UpToDate(s1) /\ s1.pending_unshards \subseteq rt.pending_unshards
        /\ s1.pending_finalization = rt.pending_finalization
        /\ \A c \in Bucket : s1.bucket[c].is_unsharded = rt.bucket[c].is_unsharded
    BY <1>1, <2>2, ReleaseSound, ReleaseGathers DEF OnlyGathers, SameFlags
  <2> HIDE DEF s1
  <2>4. s1 \in Runtime /\ s1.bucket \in [Bucket -> BucketState]
    BY <2>3 DEF Sound, Runtime
  <2>5. ~k.is_unsharded
    BY <2>4, ReshardFacts
  <2> HIDE DEF k
  <2>6. /\ t.bucket = [s1.bucket EXCEPT ![b] = k] /\ t.pending_unshards = s1.pending_unshards
        /\ t.pending_finalization = s1.pending_finalization
    BY <2>4 DEF Runtime
  <2> HIDE DEF t
  <2>7. /\ UpToDate(rt') /\ rt'.pending_unshards \subseteq rt.pending_unshards
        /\ rt'.pending_finalization = rt.pending_finalization
        /\ \A c \in Bucket : rt'.bucket[c].is_unsharded => rt.bucket[c].is_unsharded
    BY <2>1, <2>3, <2>4, <2>5, <2>6 DEF UpToDate
  <2>8. /\ phase = "idle" /\ ~rt.pending_finalization
        /\ UNCHANGED <<sync, weights, overtaken, open, graphs, phase, left, ready>>
    BY <1>4 DEF ReshardBucket, Between, CheckOutsideBackward
  <2> QED BY <2>7, <2>8 DEF WeightsInv, UpToDate, Current, StepsSharded, Finishing
<1>5. CASE ResetContext
  <2> DEFINE s1 == ReleasePrefetches(rt, rt.pending_unshards)
             s2 == WaitAndClear(s1)
             s3 == ReshardUnsharded(s2)
             f == [b \in Bucket |-> Uncounted(s3.bucket[b])]
             t == [s3 EXCEPT !.pending_finalization = FALSE, !.bucket = f]
  <2>1. Sound(s1) /\ s1.pending_unshards = {}
    BY <1>1, ReleaseSound, ReleaseGathers
  <2> HIDE DEF s1
  <2>2. Sound(s2) /\ s2.pending_unshards = {}
    <3>1. s1 \in Runtime
      BY <2>1 DEF Sound
    <3> QED BY <2>1, <3>1, WaitAndClearSound, WaitAndClearEffect DEF SameContext
  <2> HIDE DEF s2
  <2>3. Sound(s3) /\ s3.pending_unshards = {} /\ \A c \in Bucket : ~s3.bucket[c].is_unsharded
    <3>1. s2 \in Runtime
      BY <2>2 DEF Sound
    <3> QED BY <2>2, <3>1, ReshardUnshardedSound, ReshardUnshardedEffect
  <2>4. rt' = t
    BY <1>5 DEF ResetContext, s1, s2
  <2> HIDE DEF s3
  <2>5. \A c \in Bucket : ~f[c].is_unsharded
    <3>1. s3.bucket \in [Bucket -> BucketState]
      BY <2>3 DEF Sound, Runtime
    <3> QED BY <2>3, <3>1, UncountedFacts
  <2> HIDE DEF f
  <2>6. t.bucket = f /\ t.pending_unshards = {} /\ ~t.pending_finalization
    BY <2>3 DEF Sound, Runtime
  <2> HIDE DEF t
  <2>7. /\ phase = "idle" /\ open = <<>> /\ graphs' = <<>>
        /\ UNCHANGED <<sync, weights, overtaken, open, phase, left, ready>>
    BY <1>5 DEF ResetContext, Between
  <2> QED BY <1>2, <2>4, <2>5, <2>6, <2>7 DEF WeightsInv, UpToDate, StepsSharded, Finishing
<1>6. CASE StateDict
  <2>1. /\ \A c \in Bucket : ~rt'.bucket[c].is_unsharded
        /\ rt'.pending_unshards = rt.pending_unshards /\ SameFlags(rt, rt')
    BY <1>1, <1>6, ReshardUnshardedEffect DEF StateDict
  <2>2. /\ phase = "idle" /\ UNCHANGED <<sync, weights, overtaken, open, graphs, phase, left, ready>>
    BY <1>6 DEF StateDict, Between
  <2> QED BY <2>1, <2>2 DEF WeightsInv, UpToDate, Current, StepsSharded, Finishing, SameFlags
<1>7. CASE LoadStateDict
  <2>1. /\ \A c \in Bucket : ~rt'.bucket[c].is_unsharded
        /\ rt'.pending_unshards = rt.pending_unshards /\ SameFlags(rt, rt')
    BY <1>1, <1>7, ReshardUnshardedEffect DEF LoadStateDict
  <2>2. /\ phase = "idle" /\ graphs = <<>>
        /\ UNCHANGED <<sync, open, graphs, phase, left, ready>>
        /\ \A p \in rt.pending_unshards : <<p.bucket, p.version>> \in overtaken'
    BY <1>7 DEF LoadStateDict, Between
  <2>3. UpToDate(rt)'
    BY <2>1, <2>2 DEF UpToDate, Current
  <2> QED BY <2>1, <2>2, <2>3 DEF WeightsInv, StepsSharded, Finishing, SameFlags
<1>8. CASE OptimizerStep
  <2> DEFINE f == [b \in Bucket |-> [rt.bucket[b] EXCEPT !.reduced = 0]]
             t == [rt EXCEPT !.bucket = f]
  <2>1. rt' = t /\ ready /\ ~ready' /\ phase = "idle"
        /\ UNCHANGED <<sync, open, graphs, phase, left>>
    BY <1>8 DEF OptimizerStep, Between
  <2>2. rt.pending_unshards = {} /\ \A c \in Bucket : ~rt.bucket[c].is_unsharded
    BY <2>1 DEF WeightsInv, StepsSharded
  <2>3. \A c \in Bucket : ~f[c].is_unsharded
    BY <1>1, <2>2 DEF BucketState
  <2> HIDE DEF f
  <2>4. t.bucket = f /\ t.pending_unshards = {} /\ t.pending_finalization = rt.pending_finalization
    BY <1>1, <2>2 DEF Runtime
  <2> HIDE DEF t
  <2> QED BY <2>1, <2>3, <2>4 DEF WeightsInv, UpToDate, StepsSharded, Finishing
<1>9. ASSUME NEW value \in BOOLEAN, SetRequiresGradientSync(value)
      PROVE  WeightsInv'
  <2>1. /\ phase = "idle" /\ ~rt.pending_finalization
        /\ UNCHANGED <<rt, weights, overtaken, open, graphs, phase, left, ready>>
    BY <1>9 DEF SetRequiresGradientSync, Between
  <2> QED BY <2>1 DEF WeightsInv, UpToDate, Current, StepsSharded, Finishing
<1>10. ASSUME NEW value \in BOOLEAN, SetManualBackwardFinalization(value)
       PROVE  WeightsInv'
  <2>1. /\ rt'.bucket = rt.bucket /\ rt'.pending_unshards = rt.pending_unshards
        /\ rt'.pending_finalization = rt.pending_finalization
    BY <1>1, <1>10 DEF SetManualBackwardFinalization, Runtime
  <2>2. phase = "idle" /\ UNCHANGED <<sync, weights, overtaken, open, graphs, phase, left, ready>>
    BY <1>10 DEF SetManualBackwardFinalization, Between
  <2> QED BY <2>1, <2>2 DEF WeightsInv, UpToDate, Current, StepsSharded, Finishing, Visited
<1>11. ASSUME NEW i \in DOMAIN graphs, DropGraph(i)
       PROVE  WeightsInv'
  <2>1. graphs # <<>>
    BY EmptySeq
  <2>2. phase = "idle" /\ UNCHANGED <<rt, sync, weights, overtaken, open, phase, left, ready>>
    BY <1>11 DEF DropGraph, Between
  <2> QED BY <2>1, <2>2 DEF WeightsInv, UpToDate, Current, StepsSharded, Finishing, Visited
<1> QED BY <1>3, <1>4, <1>5, <1>6, <1>7, <1>8, <1>9, <1>10, <1>11

LEMMA NextWeights == IInv /\ WeightsInv /\ [Next]_vars => WeightsInv'
<1> SUFFICES ASSUME IInv, WeightsInv, [Next]_vars PROVE WeightsInv'
  OBVIOUS
<1>1. CASE UNCHANGED vars
  BY <1>1 DEF vars, WeightsInv, UpToDate, Current, StepsSharded, Finishing, Visited
<1>2. CASE EngineStep
  BY <1>2, BackwardKeepsWeights, FinishBucketKeepsWeights, FinishingKeepsWeights DEF EngineStep
<1>3. CASE Next /\ ~EngineStep
  BY <1>3, ForwardKeepsWeights, BackwardKeepsWeights, FinishingKeepsWeights, CallsKeepWeights
     DEF Next
<1> QED BY <1>1, <1>2, <1>3

\* No bucket is unsharded with other weights than the current ones, and no prefetch
\* brings others: an optimizer step leaves no gathered weights behind, nor any gather
\* in flight; a checkpoint load leaves those in flight, which the pre-hook does not
\* drop, and no others.
THEOREM WeightsUpToDate == Spec => []WeightsInv
<1>1. Init => WeightsInv
  BY InitWeights
<1>2. IInv /\ WeightsInv /\ [Next]_vars => WeightsInv'
  BY NextWeights
<1> QED BY <1>1, <1>2, Invariance, PTL DEF Spec

-----------------------------------------------------------------------------
(* The order of events in the graphs *)

\* Without "unhooked" the program runs the backward of a bucket whose outputs hid
\* their tensors before it uses the bucket otherwise (Spares).  A deferring bucket's
\* outputs hide nothing: finish_deferred_backward of an earlier backward would free
\* the params that the hidden call's backward reads without a hook.
Hooked == "unhooked" \notin Calls /\ \A b \in Defers : "opaque" \notin Results[b]

Enters(g) == {i \in DOMAIN g : g[i].kind = "enter"}
Leaves(g) == {i \in DOMAIN g : g[i].kind = "exit"}

\* The events of one call are of one bucket.
OneBucketPerCall(g) ==
  \A p, q \in DOMAIN g : g[p].id = g[q].id => g[p].bucket = g[q].bucket

\* Calls are numbered as they begin.
CallsNumbered(g) ==
  \A p, q \in Enters(g) : p < q => g[p].id < g[q].id

\* A call begins before it ends.
EnterThenExit(g) ==
  /\ \A p \in Enters(g), r \in Leaves(g) : g[p].id = g[r].id => p < r
  /\ \A r \in Leaves(g) : \E p \in Enters(g) : g[p].id = g[r].id

\* A bucket's call that ends has ended before the bucket's next call begins.
CallsInTurn(g) ==
  \A p, q \in Enters(g), r \in Leaves(g) :
    p < q /\ g[p].bucket = g[q].bucket /\ g[p].id = g[r].id => r < q

\* After a call that hid its outputs, no event of its bucket follows; it defers
\* nothing.
HiddenLast(g) ==
  \A r \in Leaves(g) : ~g[r].flag =>
    /\ g[r].bucket \notin Defers
    /\ \A q \in DOMAIN g : r < q => g[q].bucket # g[r].bucket

\* A graph as forward calls record it.
GraphOK(g) ==
  /\ OneBucketPerCall(g) /\ CallsNumbered(g) /\ EnterThenExit(g) /\ CallsInTurn(g)
  /\ HiddenLast(g)

\* What is still to come of a running backward: each bucket's calls in turn, each
\* from its outputs to its inputs, the hidden ones of a bucket first.
TodoOK(w) ==
  /\ OneBucketPerCall(w)
  /\ \A p, q \in Enters(w) :
       p < q /\ w[p].bucket = w[q].bucket
       => \E r \in Leaves(w) : p < r /\ r < q /\ w[r].id = w[q].id
  /\ \A p \in Enters(w), r \in Leaves(w) : w[p].id = w[r].id => r < p
  /\ \A r \in Leaves(w) : \E p \in Enters(w) : w[p].id = w[r].id
  /\ \A r \in Leaves(w), q \in DOMAIN w : ~w[r].flag /\ q < r => w[q].bucket # w[r].bucket

\* h is g with e after it.
Follows(h, g, e) ==
  /\ Len(g) \in Nat /\ DOMAIN g = 1 .. Len(g) /\ DOMAIN h = 1 .. (Len(g) + 1)
  /\ \A i \in 1 .. Len(g) : h[i] = g[i]
  /\ h[Len(g) + 1] = e

LEMMA AppendFollows ==
  ASSUME NEW S, NEW g \in Seq(S), NEW e \in S
  PROVE  Append(g, e) \in Seq(S) /\ Follows(Append(g, e), g, e)
<1> DEFINE h == Append(g, e)
<1>1. /\ h \in Seq(S) /\ Len(h) = Len(g) + 1 /\ \A i \in 1 .. Len(g) : h[i] = g[i]
      /\ h[Len(g) + 1] = e
  BY AppendProperties
<1>2. Len(g) \in Nat /\ DOMAIN g = 1 .. Len(g) /\ DOMAIN h = 1 .. (Len(g) + 1)
  BY <1>1, LenProperties
<1> QED BY <1>1, <1>2 DEF Follows

\* The events of a graph one longer.
LEMMA FollowsPlaces ==
  ASSUME NEW g, NEW h, NEW e, Follows(h, g, e)
  PROVE  \E n \in Nat :
           /\ DOMAIN h = DOMAIN g \cup {n} /\ n \notin DOMAIN g
           /\ h[n] = e /\ \A i \in DOMAIN g : h[i] = g[i] /\ i < n
           /\ e.kind = "enter" => Enters(h) = Enters(g) \cup {n} /\ Leaves(h) = Leaves(g)
           /\ e.kind = "exit" => Enters(h) = Enters(g) /\ Leaves(h) = Leaves(g) \cup {n}
           /\ Enters(g) \subseteq DOMAIN g /\ Leaves(g) \subseteq DOMAIN g
           /\ DOMAIN h \subseteq Nat
<1> DEFINE n == Len(g) + 1
<1>1. /\ n \in Nat /\ DOMAIN h = DOMAIN g \cup {n} /\ n \notin DOMAIN g
      /\ h[n] = e /\ \A i \in DOMAIN g : h[i] = g[i] /\ i < n
      /\ DOMAIN h \subseteq Nat
  BY DEF Follows
<1> HIDE DEF n
<1>2. e.kind = "enter" => Enters(h) = Enters(g) \cup {n} /\ Leaves(h) = Leaves(g)
  BY <1>1 DEF Enters, Leaves
<1>3. e.kind = "exit" => Enters(h) = Enters(g) /\ Leaves(h) = Leaves(g) \cup {n}
  BY <1>1 DEF Enters, Leaves
<1>4. Enters(g) \subseteq DOMAIN g /\ Leaves(g) \subseteq DOMAIN g
  BY DEF Enters, Leaves
<1> QED BY <1>1, <1>2, <1>3, <1>4

LEMMA FollowsElements ==
  ASSUME NEW g, NEW h, NEW e, Follows(h, g, e)
  PROVE  \A q \in DOMAIN h : h[q] = e \/ (q \in DOMAIN g /\ h[q] = g[q])
BY DEF Follows

\* A call that begins adds an event of that kind.
LEMMA EnterPlaces ==
  ASSUME NEW g, NEW h, NEW e, Follows(h, g, e), e.kind = "enter"
  PROVE  \E n \in Nat :
           /\ DOMAIN h = DOMAIN g \cup {n} /\ n \notin DOMAIN g
           /\ h[n] = e /\ \A i \in DOMAIN g : h[i] = g[i] /\ i < n
           /\ Enters(h) = Enters(g) \cup {n} /\ Leaves(h) = Leaves(g)
           /\ Enters(g) \subseteq DOMAIN g /\ Leaves(g) \subseteq DOMAIN g
           /\ DOMAIN h \subseteq Nat
BY FollowsPlaces

\* A call that ends adds one of the other.
LEMMA ExitPlaces ==
  ASSUME NEW g, NEW h, NEW e, Follows(h, g, e), e.kind = "exit"
  PROVE  \E n \in Nat :
           /\ DOMAIN h = DOMAIN g \cup {n} /\ n \notin DOMAIN g
           /\ h[n] = e /\ \A i \in DOMAIN g : h[i] = g[i] /\ i < n
           /\ Enters(h) = Enters(g) /\ Leaves(h) = Leaves(g) \cup {n}
           /\ Enters(g) \subseteq DOMAIN g /\ Leaves(g) \subseteq DOMAIN g
           /\ DOMAIN h \subseteq Nat
BY FollowsPlaces

\* A call that begins: newer than all, and its bucket hid nothing before.
LEMMA EnterKeepsGraph ==
  ASSUME NEW g, NEW h, NEW e, Follows(h, g, e), GraphOK(g), e.kind = "enter",
         e.id \in Nat, \A i \in DOMAIN g : g[i].id \in Nat /\ g[i].id < e.id,
         \A r \in Leaves(g) : ~g[r].flag => g[r].bucket # e.bucket
  PROVE  GraphOK(h)
<1>1. PICK n \in Nat :
      /\ DOMAIN h = DOMAIN g \cup {n} /\ n \notin DOMAIN g
      /\ h[n] = e /\ \A i \in DOMAIN g : h[i] = g[i] /\ i < n
      /\ Enters(h) = Enters(g) \cup {n} /\ Leaves(h) = Leaves(g)
      /\ Enters(g) \subseteq DOMAIN g /\ Leaves(g) \subseteq DOMAIN g /\ DOMAIN h \subseteq Nat
  BY EnterPlaces
<1>2. OneBucketPerCall(h)
  BY <1>1 DEF GraphOK, OneBucketPerCall
<1>3. CallsNumbered(h)
  BY <1>1 DEF GraphOK, CallsNumbered
<1>4. EnterThenExit(h)
  BY <1>1 DEF GraphOK, EnterThenExit
<1>5. CallsInTurn(h)
  BY <1>1 DEF GraphOK, CallsInTurn
<1>6. HiddenLast(h)
  BY <1>1 DEF GraphOK, HiddenLast
<1> QED BY <1>2, <1>3, <1>4, <1>5, <1>6 DEF GraphOK

\* A call that ends: the newest one of its bucket, which hid nothing before.
LEMMA ExitKeepsGraph ==
  ASSUME NEW g, NEW h, NEW e, Follows(h, g, e), GraphOK(g), e.kind = "exit",
         e.id \in Nat, \A i \in DOMAIN g : g[i].id \in Nat,
         \A i \in DOMAIN g : g[i].id = e.id => g[i].bucket = e.bucket,
         \A i \in Enters(g) : g[i].bucket = e.bucket => g[i].id <= e.id,
         \E p \in Enters(g) : g[p].id = e.id,
         \A r \in Leaves(g) : ~g[r].flag => g[r].bucket # e.bucket,
         ~e.flag => e.bucket \notin Defers
  PROVE  GraphOK(h)
<1>1. PICK n \in Nat :
      /\ DOMAIN h = DOMAIN g \cup {n} /\ n \notin DOMAIN g
      /\ h[n] = e /\ \A i \in DOMAIN g : h[i] = g[i] /\ i < n
      /\ Enters(h) = Enters(g) /\ Leaves(h) = Leaves(g) \cup {n}
      /\ Enters(g) \subseteq DOMAIN g /\ Leaves(g) \subseteq DOMAIN g /\ DOMAIN h \subseteq Nat
  BY ExitPlaces
<1>2. OneBucketPerCall(h)
  BY <1>1 DEF GraphOK, OneBucketPerCall
<1>3. CallsNumbered(h)
  BY <1>1 DEF GraphOK, CallsNumbered
<1>4. EnterThenExit(h)
  <2>1. \A p \in Enters(h), r \in Leaves(h) : h[p].id = h[r].id => p < r
    BY <1>1 DEF GraphOK, EnterThenExit
  <2>2. \A r \in Leaves(h) : \E p \in Enters(h) : h[p].id = h[r].id
    BY <1>1 DEF GraphOK, EnterThenExit
  <2> QED BY <2>1, <2>2 DEF EnterThenExit
<1>5. CallsInTurn(h)
  <2> SUFFICES ASSUME NEW p \in Enters(h), NEW q \in Enters(h), NEW r \in Leaves(h),
                      p < q, h[p].bucket = h[q].bucket, h[p].id = h[r].id
               PROVE  r < q
    BY DEF CallsInTurn
  <2>1. /\ p \in Enters(g) /\ q \in Enters(g) /\ h[p] = g[p] /\ h[q] = g[q]
        /\ g[p].id \in Nat /\ g[q].id \in Nat
    BY <1>1
  <2>2. CASE r = n
    <3>1. g[p].id = e.id /\ g[p].bucket = e.bucket
      BY <1>1, <2>1, <2>2
    <3>2. g[q].id <= e.id /\ g[p].id < g[q].id
      BY <2>1, <3>1 DEF GraphOK, CallsNumbered
    <3> QED BY <2>1, <3>1, <3>2
  <2>3. CASE r # n
    BY <1>1, <2>1, <2>3 DEF GraphOK, CallsInTurn
  <2> QED BY <2>2, <2>3
<1>6. HiddenLast(h)
  BY <1>1 DEF GraphOK, HiddenLast
<1> QED BY <1>2, <1>3, <1>4, <1>5, <1>6 DEF GraphOK

\* The empty graph.
LEMMA EmptyGraph == GraphOK(<<>>)
<1>1. DOMAIN <<>> = {}
  BY EmptySeq
<1> QED BY <1>1 DEF GraphOK, OneBucketPerCall, CallsNumbered, EnterThenExit, CallsInTurn,
                    HiddenLast, Enters, Leaves

\* A backward reaches the events in the order TodoOK.
LEMMA WalkInOrder ==
  ASSUME NEW g \in Seq(Event), NEW used \in SUBSET Exits(g), GraphOK(g)
  PROVE  LET w == Walk(g, used)
         IN  /\ TodoOK(w)
             /\ \A p \in Enters(w) : \E r \in Leaves(w) : w[r].id = w[p].id
             /\ \A r \in Leaves(w) : ~w[r].flag =>
                  \E i \in Leaves(g) : ~g[i].flag /\ g[i].bucket = w[r].bucket
<1> DEFINE w == Walk(g, used)
<1>1. PICK n \in Nat : \E m : Traverses(w, g, used, n, m)
  BY WalkFacts
<1>2. PICK m : Traverses(w, g, used, n, m)
  BY <1>1
<1>3. DOMAIN g \subseteq Nat
  BY LenProperties
<1> HIDE DEF w
<1>4. /\ DOMAIN w = 1 .. n
      /\ \A k \in 1 .. n : /\ m[k] \in DOMAIN g /\ m[k] \in Nat
                           /\ w[k] = g[m[k]] /\ w[k].id \in used
      /\ \A k, l \in 1 .. n : k < l => m[l] < m[k]
      /\ \A i \in DOMAIN g : g[i].id \in used => \E k \in 1 .. n : m[k] = i
  BY <1>2, <1>3 DEF Traverses
<1>5. ASSUME NEW k \in 1 .. n, NEW l \in 1 .. n, m[l] < m[k]
      PROVE  k < l
  <2>1. m[k] \in Nat /\ m[l] \in Nat /\ k \in Nat /\ l \in Nat
    BY <1>4
  <2>2. k # l
    BY <1>5, <2>1
  <2>3. ~(l < k)
    BY <1>4, <1>5, <2>1
  <2> QED BY <2>1, <2>2, <2>3
<1>6. /\ \A k \in Enters(w) : k \in 1 .. n /\ m[k] \in Enters(g)
      /\ \A k \in Leaves(w) : k \in 1 .. n /\ m[k] \in Leaves(g)
      /\ \A i \in Enters(g) : g[i].id \in used => \E k \in Enters(w) : m[k] = i
      /\ \A i \in Leaves(g) : g[i].id \in used => \E k \in Leaves(w) : m[k] = i
  <2>1. \A k \in Enters(w) : k \in 1 .. n /\ m[k] \in Enters(g)
    BY <1>4 DEF Enters
  <2>2. \A k \in Leaves(w) : k \in 1 .. n /\ m[k] \in Leaves(g)
    BY <1>4 DEF Leaves
  <2>3. \A i \in Enters(g) : g[i].id \in used => \E k \in Enters(w) : m[k] = i
    BY <1>4 DEF Enters
  <2>4. \A i \in Leaves(g) : g[i].id \in used => \E k \in Leaves(w) : m[k] = i
    BY <1>4 DEF Leaves
  <2> QED BY <2>1, <2>2, <2>3, <2>4
<1>7. \A x \in used : \E i \in Leaves(g) : g[i].id = x
  BY DEF Exits, Leaves
<1>8. OneBucketPerCall(w)
  <2>1. SUFFICES ASSUME NEW p \in DOMAIN w, NEW q \in DOMAIN w, w[p].id = w[q].id
                 PROVE  w[p].bucket = w[q].bucket
    BY DEF OneBucketPerCall
  <2>2. /\ m[p] \in DOMAIN g /\ w[p] = g[m[p]]
        /\ m[q] \in DOMAIN g /\ w[q] = g[m[q]]
    BY <1>4
  <2> QED BY <2>1, <2>2 DEF GraphOK, OneBucketPerCall
<1>9. ASSUME NEW p \in Enters(w), NEW q \in Enters(w), p < q, w[p].bucket = w[q].bucket
      PROVE  \E r \in Leaves(w) : p < r /\ r < q /\ w[r].id = w[q].id
  <2>1. PICK i \in Leaves(g) : g[i].id = w[q].id
    BY <1>4, <1>6, <1>7
  <2>2. PICK r \in Leaves(w) : m[r] = i
    BY <1>4, <1>6, <2>1
  <2>3. /\ p \in 1 .. n /\ q \in 1 .. n /\ r \in 1 .. n
        /\ m[p] \in Enters(g) /\ m[q] \in Enters(g) /\ m[q] < m[p]
        /\ g[m[q]].bucket = g[m[p]].bucket /\ g[m[q]].id = g[i].id
    BY <1>4, <1>6, <1>9, <2>1
  <2>4. m[q] < i /\ i < m[p]
    BY <2>3 DEF GraphOK, EnterThenExit, CallsInTurn
  <2>5. p < r /\ r < q
    BY <1>5, <2>2, <2>3, <2>4
  <2> QED BY <1>4, <2>1, <2>2, <2>3, <2>5
<1>10. ASSUME NEW p \in Enters(w), NEW r \in Leaves(w), w[p].id = w[r].id
       PROVE  r < p
  <2>1. /\ p \in 1 .. n /\ r \in 1 .. n /\ m[p] \in Enters(g) /\ m[r] \in Leaves(g)
        /\ g[m[p]].id = g[m[r]].id
    BY <1>4, <1>6, <1>10
  <2>2. m[p] < m[r]
    BY <2>1 DEF GraphOK, EnterThenExit
  <2> QED BY <1>5, <2>1, <2>2
<1>11. ASSUME NEW r \in Leaves(w)
       PROVE  \E p \in Enters(w) : w[p].id = w[r].id
  <2>1. r \in 1 .. n /\ m[r] \in Leaves(g) /\ w[r] = g[m[r]] /\ w[r].id \in used
    BY <1>4, <1>6
  <2>2. PICK i \in Enters(g) : g[i].id = g[m[r]].id
    BY <2>1 DEF GraphOK, EnterThenExit
  <2>3. PICK p \in Enters(w) : m[p] = i
    BY <1>6, <2>1, <2>2
  <2>4. w[p] = g[i]
    BY <1>4, <1>6, <2>3
  <2> QED BY <2>1, <2>2, <2>4
<1>12. ASSUME NEW r \in Leaves(w), NEW q \in DOMAIN w, ~w[r].flag, q < r
       PROVE  w[q].bucket # w[r].bucket
  <2>1. /\ m[r] \in Leaves(g) /\ w[r] = g[m[r]] /\ m[q] \in DOMAIN g /\ w[q] = g[m[q]]
        /\ m[r] < m[q]
    BY <1>4, <1>6, <1>12
  <2> QED BY <1>12, <2>1 DEF GraphOK, HiddenLast
<1>13. TodoOK(w)
  BY <1>8, <1>9, <1>10, <1>11, <1>12 DEF TodoOK
<1>14. ASSUME NEW p \in Enters(w)
       PROVE  \E r \in Leaves(w) : w[r].id = w[p].id
  <2>1. PICK i \in Leaves(g) : g[i].id = w[p].id
    BY <1>4, <1>6, <1>7
  <2>2. PICK r \in Leaves(w) : m[r] = i
    BY <1>4, <1>6, <2>1
  <2> QED BY <1>4, <1>6, <2>1, <2>2
<1>15. ASSUME NEW r \in Leaves(w), ~w[r].flag
       PROVE  \E i \in Leaves(g) : ~g[i].flag /\ g[i].bucket = w[r].bucket
  BY <1>4, <1>6, <1>15
<1> QED BY <1>13, <1>14, <1>15 DEF w

-----------------------------------------------------------------------------
(* Who needs its params *)

\* What the open call says of a graph: the events with its number are its own, it
\* is the newest of its bucket, and its bucket hid nothing before.
CallOpen(call, g) ==
  /\ \A q \in DOMAIN g : g[q].id = call.id => g[q].bucket = call.bucket
  /\ \A q \in Enters(g) : g[q].bucket = call.bucket => g[q].id <= call.id
  /\ \A r \in Leaves(g) : ~g[r].flag => g[r].bucket # call.bucket

\* The call has begun in the graph.
Entered(call, g) == \E p \in Enters(g) : g[p].id = call.id

\* The open calls and the graphs: numbers are given once, in order; the open calls
\* are recorded in the newest graph, or none is.
OpenOK ==
  /\ \A n \in DOMAIN graphs : \A q \in DOMAIN graphs[n] : graphs[n][q].id <= forwards
  /\ \A i \in DOMAIN open : open[i].id <= forwards
  /\ \A i, j \in DOMAIN open : i < j => open[i].id < open[j].id
  /\ \A i, j \in DOMAIN open : open[i].grad = open[j].grad
  /\ \A i \in DOMAIN open, n \in DOMAIN graphs : CallOpen(open[i], graphs[n])
  /\ \A i \in DOMAIN open : open[i].grad => graphs # <<>> /\ Entered(open[i], Last(graphs))

\* The running backward has still to reach a call of b that hid its outputs.
Awaits(b) == \E r \in Leaves(todo) : ~todo[r].flag /\ todo[r].bucket = b

\* The buckets no hook re-gathers, and those in use, are unsharded.
HeldOK ==
  /\ phase # "backward" => todo = <<>>
  /\ phase # "idle" => Unhooked = {}
  /\ \A b \in Bucket : b \in Unhooked \/ Awaits(b) => rt.bucket[b].is_unsharded
  /\ \A b \in InUse : rt.bucket[b].is_unsharded

\* The order of the events and what it protects.
OrderInv ==
  /\ \A n \in DOMAIN graphs : GraphOK(graphs[n])
  /\ OpenOK /\ TodoOK(todo) /\ HeldOK

\* An open call of another bucket goes on.
LEMMA CallStaysOpen ==
  ASSUME NEW g, NEW h, NEW e, Follows(h, g, e), NEW call, CallOpen(call, g),
         e.kind \in {"enter", "exit"}, e.bucket # call.bucket, e.id # call.id
  PROVE  CallOpen(call, h)
<1>1. CASE e.kind = "enter"
  <2>1. PICK n \in Nat :
          /\ DOMAIN h = DOMAIN g \cup {n} /\ n \notin DOMAIN g
          /\ h[n] = e /\ \A i \in DOMAIN g : h[i] = g[i] /\ i < n
          /\ Enters(h) = Enters(g) \cup {n} /\ Leaves(h) = Leaves(g)
          /\ Enters(g) \subseteq DOMAIN g /\ Leaves(g) \subseteq DOMAIN g
          /\ DOMAIN h \subseteq Nat
    BY <1>1, EnterPlaces
  <2> QED BY <2>1 DEF CallOpen
<1>2. CASE e.kind = "exit"
  <2>1. PICK n \in Nat :
          /\ DOMAIN h = DOMAIN g \cup {n} /\ n \notin DOMAIN g
          /\ h[n] = e /\ \A i \in DOMAIN g : h[i] = g[i] /\ i < n
          /\ Enters(h) = Enters(g) /\ Leaves(h) = Leaves(g) \cup {n}
          /\ Enters(g) \subseteq DOMAIN g /\ Leaves(g) \subseteq DOMAIN g
          /\ DOMAIN h \subseteq Nat
    BY <1>2, ExitPlaces
  <2> QED BY <2>1 DEF CallOpen
<1> QED BY <1>1, <1>2

\* A call of a bucket that hid nothing opens.
LEMMA CallOpens ==
  ASSUME NEW g, NEW call, call.id \in Nat,
         \A i \in DOMAIN g : g[i].id \in Nat /\ g[i].id < call.id,
         \A r \in Leaves(g) : ~g[r].flag => g[r].bucket # call.bucket
  PROVE  /\ CallOpen(call, g)
         /\ \A h, e : /\ Follows(h, g, e) /\ e.kind = "enter"
                      /\ e.id = call.id /\ e.bucket = call.bucket
                      => CallOpen(call, h) /\ Entered(call, h)
<1>1. CallOpen(call, g)
  BY DEF CallOpen, Enters
<1>2. ASSUME NEW h, NEW e, Follows(h, g, e), e.kind = "enter",
             e.id = call.id, e.bucket = call.bucket
      PROVE  CallOpen(call, h) /\ Entered(call, h)
  <2>1. PICK n \in Nat :
          /\ DOMAIN h = DOMAIN g \cup {n} /\ n \notin DOMAIN g
          /\ h[n] = e /\ \A i \in DOMAIN g : h[i] = g[i] /\ i < n
          /\ Enters(h) = Enters(g) \cup {n} /\ Leaves(h) = Leaves(g)
          /\ Enters(g) \subseteq DOMAIN g /\ Leaves(g) \subseteq DOMAIN g
          /\ DOMAIN h \subseteq Nat
    BY <1>2, EnterPlaces
  <2> QED BY <1>1, <1>2, <2>1 DEF CallOpen, Entered
<1> QED BY <1>1, <1>2

\* A call stays entered in a graph that grows.
LEMMA StaysEntered ==
  ASSUME NEW g, NEW h, NEW e, Follows(h, g, e), NEW call, Entered(call, g)
  PROVE  Entered(call, h)
BY DEF Follows, Entered, Enters

\* Recording an event: only the newest graph grows.
LEMMA RecordedFacts ==
  ASSUME NEW gs \in Seq(Seq(Event)), gs # <<>>, NEW e \in Event
  PROVE  LET hs == Recorded(gs, e)
             n == Len(gs)
         IN  /\ hs \in Seq(Seq(Event)) /\ hs # <<>>
             /\ n \in DOMAIN gs /\ DOMAIN hs = DOMAIN gs
             /\ Last(hs) = hs[n] /\ Last(gs) = gs[n]
             /\ \A i \in DOMAIN gs : i # n => hs[i] = gs[i]
             /\ Follows(hs[n], gs[n], e)
<1> DEFINE n == Len(gs)
           h == Append(gs[n], e)
           hs == [gs EXCEPT ![n] = h]
<1>1. n \in Nat \ {0} /\ DOMAIN gs = 1 .. n
  BY EmptySeq, LenProperties
<1>2. Recorded(gs, e) = hs
  BY DEF Recorded
<1>3. gs[n] \in Seq(Event)
  BY <1>1, ElementOfSeq
<1>4. h \in Seq(Event) /\ Follows(h, gs[n], e)
  BY <1>3, AppendFollows
<1>5. hs \in Seq(Seq(Event))
  BY <1>2, RecordedType
<1> HIDE DEF h, n
<1>6. DOMAIN hs = 1 .. n /\ hs[n] = h /\ \A i \in DOMAIN gs : i # n => hs[i] = gs[i]
  BY <1>1
<1>7. Len(hs) = n
  <2> HIDE DEF hs
  <2>1. DOMAIN hs = 1 .. Len(hs) /\ Len(hs) \in Nat
    BY <1>5, LenProperties
  <2> QED BY <1>1, <1>6, <2>1
<1> HIDE DEF hs
<1>8. hs # <<>> /\ Last(hs) = hs[n] /\ Last(gs) = gs[n]
  BY <1>1, <1>7, EmptySeq DEF Last, n
<1> QED BY <1>1, <1>2, <1>4, <1>5, <1>6, <1>8 DEF n

\* An event and its types.
LEMMA EventFacts ==
  ASSUME NEW gs \in Seq(Seq(Event)), NEW n \in DOMAIN gs
  PROVE  /\ gs[n] \in Seq(Event)
         /\ \A q \in DOMAIN gs[n] :
              /\ gs[n][q] \in Event /\ gs[n][q].id \in Nat /\ gs[n][q].bucket \in Bucket
              /\ gs[n][q].kind \in {"enter", "exit"} /\ gs[n][q].flag \in BOOLEAN
<1>1. gs[n] \in Seq(Event)
  BY LenProperties, ElementOfSeq
<1>2. \A q \in DOMAIN gs[n] : gs[n][q] \in Event
  BY <1>1, LenProperties, ElementOfSeq
<1> QED BY <1>1, <1>2 DEF Event

\* RemoveAt leaves other graphs only.
LEMMA RemoveAtElements ==
  ASSUME NEW S, NEW q \in Seq(S), NEW i \in DOMAIN q, NEW n \in DOMAIN RemoveAt(q, i)
  PROVE  \E k \in DOMAIN q : k # i /\ RemoveAt(q, i)[n] = q[k]
<1> DEFINE a == SubSeq(q, 1, i - 1)
           c == SubSeq(q, i + 1, Len(q))
<1>1. Len(q) \in Nat /\ DOMAIN q = 1 .. Len(q) /\ i \in 1 .. Len(q)
  BY LenProperties
<1>2. /\ a \in Seq(S) /\ Len(a) = i - 1 /\ \A j \in 1 .. (i - 1) : a[j] = q[j]
  BY <1>1, SubSeqProperties
<1>3. /\ c \in Seq(S) /\ Len(c) = Len(q) - i
      /\ \A j \in 1 .. (Len(q) - i) : c[j] = q[i + j]
  BY <1>1, SubSeqProperties
<1>4. RemoveAt(q, i) = a \o c
  BY DEF RemoveAt
<1> HIDE DEF a, c
<1>5. /\ a \o c \in Seq(S) /\ Len(a \o c) = Len(a) + Len(c)
      /\ \A j \in 1 .. Len(a) + Len(c) :
           (a \o c)[j] = IF j <= Len(a) THEN a[j] ELSE c[j - Len(a)]
  BY <1>2, <1>3, ConcatProperties
<1>6. n \in 1 .. (Len(q) - 1)
  <2>1. DOMAIN (a \o c) = 1 .. Len(a \o c)
    BY <1>5, LenProperties
  <2> QED BY <1>1, <1>2, <1>3, <1>4, <1>5, <2>1
<1>7. CASE n <= i - 1
  <2>1. RemoveAt(q, i)[n] = q[n] /\ n \in DOMAIN q /\ n # i
    BY <1>1, <1>2, <1>3, <1>4, <1>5, <1>6, <1>7
  <2> QED BY <2>1
<1>8. CASE ~(n <= i - 1)
  <2>1. n - (i - 1) \in 1 .. (Len(q) - i) /\ i + (n - (i - 1)) = n + 1
        /\ n + 1 \in DOMAIN q /\ n + 1 # i
    BY <1>1, <1>6, <1>8
  <2>2. RemoveAt(q, i)[n] = c[n - (i - 1)]
    BY <1>1, <1>2, <1>3, <1>4, <1>5, <1>6, <1>8
  <2>3. RemoveAt(q, i)[n] = q[n + 1]
    BY <1>3, <2>1, <2>2
  <2> QED BY <2>1, <2>3
<1> QED BY <1>7, <1>8

-----------------------------------------------------------------------------
(* The steps that record no event and reach none *)

\* t keeps the buckets unsharded that s has so.
StillUnsharded(s, t) ==
  \A c \in Bucket : s.bucket[c].is_unsharded => t.bucket[c].is_unsharded

LEMMA GathersKeepUnsharded ==
  ASSUME NEW s, Sound(s), NEW b \in Bucket, weights \in Nat
  PROVE  /\ StillUnsharded(s, Unshard(s, b)) /\ StillUnsharded(s, UnshardForRecompute(s, b))
         /\ StillUnsharded(s, Prefetch(s, {b}, TRUE))
<1>1. StillUnsharded(s, Unshard(s, b))
  BY UnshardSound DEF StillUnsharded
<1>2. StillUnsharded(s, UnshardForRecompute(s, b))
  BY UnshardForRecomputeSound DEF StillUnsharded
<1>3. StillUnsharded(s, Prefetch(s, {b}, TRUE))
  <2> DEFINE t == Prefetch(s, {b}, TRUE)
  <2>1. /\ \A c \in Bucket : t.bucket[c].is_unsharded = s.bucket[c].is_unsharded
        /\ t \in Runtime
    BY PrefetchSound DEF Sound
  <2> HIDE DEF t
  <2>2. \A c \in Bucket : s.bucket[c].is_unsharded \in BOOLEAN
    BY DEF Sound, Runtime, BucketState
  <2> QED BY <2>1, <2>2 DEF StillUnsharded, t
<1> QED BY <1>1, <1>2, <1>3

\* The calls whose outputs the running backward has reached, not yet their inputs.
Reached(w) == {p \in Enters(w) : \A r \in Leaves(w) : w[r].id # w[p].id}

\* Outside a backward, only the open calls and the hidden ones hold their buckets.
LEMMA HeldOutsideBackward ==
  ASSUME IInv', todo' = <<>>, phase' # "backward", phase' # "idle" => Unhooked' = {},
         \A b \in Unhooked' : rt'.bucket[b].is_unsharded
  PROVE  HeldOK'
<1>1. DOMAIN todo' = {}
  BY EmptySeq
<1>2. \A b \in Bucket : ~Awaits(b)'
  BY <1>1 DEF Awaits, Leaves
<1>3. \A b \in InUse' : rt'.bucket[b].is_unsharded
  BY <1>1 DEF InUse, IInv, OpenUnsharded
<1> QED BY <1>2, <1>3 DEF HeldOK

\* In a backward, only what it still has to reach.
LEMMA HeldInBackward ==
  ASSUME IInv', phase' = "backward", Unhooked' = {},
         \A b \in Bucket : Awaits(b)' => rt'.bucket[b].is_unsharded,
         \A p \in Reached(todo') : rt'.bucket[todo'[p].bucket].is_unsharded
  PROVE  HeldOK'
<1>1. DOMAIN open' = {}
  BY EmptySeq DEF IInv, OpenUnsharded
<1>2. \A b \in InUse' : \E p \in Reached(todo') : b = todo'[p].bucket
  BY <1>1 DEF InUse, Reached, Enters, Leaves
<1> QED BY <1>2 DEF HeldOK

\* A step that records and reaches no event.
LEMMA OrderFromHeld ==
  ASSUME OrderInv, HeldOK', UNCHANGED <<open, graphs, forwards, todo>>
  PROVE  OrderInv'
<1>1. \A n \in DOMAIN graphs' : GraphOK(graphs'[n])
  BY DEF OrderInv
<1>2. OpenOK'
  BY DEF OrderInv, OpenOK
<1>3. TodoOK(todo')
  BY DEF OrderInv
<1> QED BY <1>1, <1>2, <1>3 DEF OrderInv

LEMMA SeqElements ==
  ASSUME NEW S, NEW q \in Seq(S)
  PROVE  Len(q) \in Nat /\ DOMAIN q = 1 .. Len(q) /\ \A i \in DOMAIN q : q[i] \in S
BY LenProperties, ElementOfSeq

\* The open calls and the events to reach, and their types.
LEMMA OpenAndTodoTypes ==
  ASSUME IInv
  PROVE  /\ open \in Seq(OpenCall) /\ Len(open) \in Nat /\ DOMAIN open = 1 .. Len(open)
         /\ \A i \in DOMAIN open :
              /\ open[i].bucket \in Bucket /\ open[i].id \in Nat
              /\ open[i].grad \in BOOLEAN /\ open[i].has_trigger \in BOOLEAN
         /\ todo \in Seq(Event) /\ Len(todo) \in Nat /\ DOMAIN todo = 1 .. Len(todo)
         /\ \A i \in DOMAIN todo :
              /\ todo[i].bucket \in Bucket /\ todo[i].id \in Nat
              /\ todo[i].kind \in {"enter", "exit"} /\ todo[i].flag \in BOOLEAN
<1>1. open \in Seq(OpenCall) /\ todo \in Seq(Event)
  BY DEF IInv, TypeOK
<1>2. /\ Len(open) \in Nat /\ DOMAIN open = 1 .. Len(open)
      /\ \A i \in DOMAIN open : open[i] \in OpenCall
  BY <1>1, SeqElements
<1>3. /\ Len(todo) \in Nat /\ DOMAIN todo = 1 .. Len(todo)
      /\ \A i \in DOMAIN todo : todo[i] \in Event
  BY <1>1, SeqElements
<1>4. \A i \in DOMAIN open :
        /\ open[i].bucket \in Bucket /\ open[i].id \in Nat
        /\ open[i].grad \in BOOLEAN /\ open[i].has_trigger \in BOOLEAN
  BY <1>2 DEF OpenCall
<1>5. \A i \in DOMAIN todo :
        /\ todo[i].bucket \in Bucket /\ todo[i].id \in Nat
        /\ todo[i].kind \in {"enter", "exit"} /\ todo[i].flag \in BOOLEAN
  BY <1>3 DEF Event
<1> QED BY <1>1, <1>2, <1>3, <1>4, <1>5

\* Such a step that reshards nothing.
LEMMA OrderIfStillUnsharded ==
  ASSUME OrderInv, StillUnsharded(rt, rt'), UNCHANGED <<open, graphs, forwards, todo, phase>>,
         IInv
  PROVE  OrderInv'
<1>1. InUse' = InUse /\ Unhooked' = Unhooked /\ \A b : Awaits(b)' = Awaits(b)
  BY DEF InUse, Unhooked, Awaits, Leaves
<1>2. InUse \subseteq Bucket
  BY OpenAndTodoTypes DEF InUse
<1>3. HeldOK'
  BY <1>1, <1>2 DEF OrderInv, HeldOK, StillUnsharded
<1> QED BY <1>3, OrderFromHeld

\* Such a step with no call open and none hidden.
LEMMA OrderIfNoneHeld ==
  ASSUME OrderInv, IInv', todo = <<>>, Unhooked = {}, phase' # "backward",
         UNCHANGED <<open, graphs, forwards, todo>>
  PROVE  OrderInv'
<1>1. Unhooked' = {}
  BY DEF Unhooked
<1> QED BY <1>1, HeldOutsideBackward, OrderFromHeld

\* No graph, no hidden call.
LEMMA UnhookedFacts ==
  /\ graphs = <<>> => Unhooked = {}
  /\ \A b \in Bucket : b \in Unhooked <=>
       \E n \in DOMAIN graphs : \E r \in Leaves(graphs[n]) :
         ~graphs[n][r].flag /\ graphs[n][r].bucket = b
<1>1. graphs = <<>> => DOMAIN graphs = {}
  BY EmptySeq
<1> QED BY <1>1 DEF Unhooked, Leaves

LEMMA InitOrder == Init => OrderInv
<1> SUFFICES ASSUME Init PROVE OrderInv
  OBVIOUS
<1>1. open = <<>> /\ graphs = <<>> /\ todo = <<>> /\ phase = "idle"
  BY DEF Init
<1>2. DOMAIN open = {} /\ DOMAIN graphs = {} /\ DOMAIN todo = {}
  BY <1>1, EmptySeq
<1>3. TodoOK(todo)
  BY <1>2 DEF TodoOK, OneBucketPerCall, Enters, Leaves
<1>4. OpenOK
  BY <1>2 DEF OpenOK
<1>5. HeldOK
  BY <1>1, <1>2 DEF HeldOK, Unhooked, Awaits, Leaves, InUse
<1> QED BY <1>2, <1>3, <1>4, <1>5 DEF OrderInv

\* The calls of the program and the ends of a backward keep it.
LEMMA QuietKeepsOrder ==
  ASSUME IInv, IInv', OrderInv, Hooked,
         \/ \E b \in Bucket : Recompute(b)
         \/ EndBackward \/ FinishBucket \/ FinishBucketRaises \/ EndCallback
         \/ StartFinalizeBackward \/ EndFinalizeBackward \/ WaitFinalization
         \/ \E b \in Bucket : UnshardBucket(b) \/ PrefetchBucket(b) \/ ReshardBucket(b)
         \/ StateDict \/ LoadStateDict \/ OptimizerStep
         \/ \E value \in BOOLEAN : SetRequiresGradientSync(value)
         \/ \E value \in BOOLEAN : SetManualBackwardFinalization(value)
  PROVE  OrderInv'
<1>1. /\ Sound(rt) /\ rt \in Runtime /\ rt.bucket \in [Bucket -> BucketState]
      /\ weights \in Nat
  BY InvFacts
<1>2. /\ phase # "backward" => todo = <<>> /\ \A b : ~Awaits(b)
      /\ phase # "idle" => Unhooked = {}
      /\ graphs = <<>> => Unhooked = {}
  BY EmptySeq, UnhookedFacts DEF OrderInv, HeldOK, Awaits, Leaves
<1>3. Spares(Bucket) => Unhooked = {}
  BY DEF Hooked, Spares, Unhooked
<1>4. ASSUME NEW b \in Bucket, Recompute(b)
      PROVE  OrderInv'
  <2>1. StillUnsharded(rt, UnshardForRecompute(rt, b))
    BY <1>1, GathersKeepUnsharded
  <2>2. rt' = UnshardForRecompute(rt, b) /\ UNCHANGED <<open, graphs, forwards, todo, phase>>
    BY <1>4 DEF Recompute
  <2> QED BY <2>1, <2>2, OrderIfStillUnsharded
<1>5. CASE EndBackward
  BY <1>2, <1>5, OrderIfNoneHeld DEF EndBackward
<1>6. CASE FinishBucket \/ FinishBucketRaises \/ EndCallback \/ EndFinalizeBackward
  BY <1>2, <1>6, OrderIfNoneHeld
     DEF FinishBucket, FinishBucketRaises, EndCallback, EndFinalizeBackward
<1>7. CASE StartFinalizeBackward \/ LoadStateDict \/ OptimizerStep
  BY <1>2, <1>7, OrderIfNoneHeld DEF StartFinalizeBackward, LoadStateDict, OptimizerStep, Between
<1>8. CASE StateDict
  BY <1>2, <1>3, <1>8, OrderIfNoneHeld DEF StateDict, Between
<1>9. CASE WaitFinalization
  <2>1. WaitAndClear(rt) \in Runtime /\ WaitAndClear(rt).bucket = rt.bucket
    BY <1>1, WaitAndClearEffect
  <2>2. rt' = [WaitAndClear(rt) EXCEPT !.pending_finalization = FALSE]
    BY <1>9 DEF WaitFinalization
  <2>3. rt'.bucket = rt.bucket
    BY <2>1, <2>2 DEF Runtime
  <2> QED BY <1>9, <2>3, OrderIfStillUnsharded DEF WaitFinalization, StillUnsharded
<1>10. ASSUME NEW b \in Bucket, UnshardBucket(b)
       PROVE  OrderInv'
  <2>1. StillUnsharded(rt, Unshard(rt, b))
    BY <1>1, GathersKeepUnsharded
  <2>2. rt' = Unshard(rt, b) /\ UNCHANGED <<open, graphs, forwards, todo, phase>>
    BY <1>10 DEF UnshardBucket
  <2> QED BY <2>1, <2>2, OrderIfStillUnsharded
<1>11. ASSUME NEW b \in Bucket, PrefetchBucket(b)
       PROVE  OrderInv'
  <2>1. StillUnsharded(rt, Prefetch(rt, {b}, TRUE))
    BY <1>1, GathersKeepUnsharded
  <2>2. rt' = Prefetch(rt, {b}, TRUE) /\ UNCHANGED <<open, graphs, forwards, todo, phase>>
    BY <1>11 DEF PrefetchBucket
  <2> QED BY <2>1, <2>2, OrderIfStillUnsharded
<1>12. ASSUME NEW b \in Bucket, ReshardBucket(b)
       PROVE  OrderInv'
  <2> DEFINE s1 == ReleasePrefetches(rt, Pending(rt, b))
             k == Reshard(s1.bucket[b])
             t == [s1 EXCEPT !.bucket[b] = k]
  <2>1. rt' = IF s1.bucket[b].is_unsharded THEN t ELSE s1
    BY <1>12 DEF ReshardBucket
  <2>2. Pending(rt, b) \in SUBSET rt.pending_unshards
    BY DEF Pending
  <2>3. Sound(s1) /\ \A c \in Bucket : s1.bucket[c].is_unsharded = rt.bucket[c].is_unsharded
    BY <1>1, <2>2, ReleaseSound, ReleaseGathers DEF OnlyGathers
  <2> HIDE DEF s1, k
  <2>4. \A c \in Bucket : c # b => t.bucket[c] = s1.bucket[c]
    BY <2>3 DEF Sound, Runtime
  <2> HIDE DEF t
  <2>5. \A c \in Bucket : c # b => rt'.bucket[c].is_unsharded = rt.bucket[c].is_unsharded
    BY <2>1, <2>3, <2>4
  <2>6. b \notin Unhooked /\ Unhooked \subseteq Bucket /\ open = <<>> /\ phase = "idle"
        /\ UNCHANGED <<open, graphs, forwards, todo, phase>>
    BY <1>12 DEF ReshardBucket, Between, Hooked, Spares, Unhooked
  <2>7. Unhooked' = Unhooked /\ todo' = <<>>
    BY <1>2, <2>6 DEF Unhooked
  <2>8. \A c \in Unhooked' : rt'.bucket[c].is_unsharded
    BY <2>5, <2>6, <2>7 DEF OrderInv, HeldOK
  <2> QED BY <2>6, <2>7, <2>8, HeldOutsideBackward, OrderFromHeld
<1>13. ASSUME NEW value \in BOOLEAN,
              SetRequiresGradientSync(value) \/ SetManualBackwardFinalization(value)
       PROVE  OrderInv'
  <2>1. rt'.bucket = rt.bucket /\ UNCHANGED <<open, graphs, forwards, todo, phase>>
    BY <1>1, <1>13 DEF SetRequiresGradientSync, SetManualBackwardFinalization, Runtime
  <2> QED BY <2>1, OrderIfStillUnsharded DEF StillUnsharded
<1> QED BY <1>4, <1>5, <1>6, <1>7, <1>8, <1>9, <1>10, <1>11, <1>12, <1>13

\* finish_deferred_backward keeps it: its bucket has no call open, none to reach and,
\* since it defers, none that hid its outputs.
LEMMA FinishDeferredBackwardKeepsOrder ==
  ASSUME IInv, IInv', OrderInv, NEW b \in Bucket, FinishDeferredBackward(b)
  PROVE  OrderInv'
<1> DEFINE s1 == [rt EXCEPT !.bucket[b].kept = @ + late[b]]
           u == PostBackward(s1, b, TRUE)
           d == Finished(s1.bucket[b], b, TRUE)
<1>1. /\ Sound(rt) /\ rt.bucket \in [Bucket -> BucketState]
      /\ sync \in [Bucket -> BOOLEAN] /\ late[b] \in Nat
  BY InvFacts
<1>2. s1 \in Runtime /\ \A c \in Bucket : s1.bucket[c].is_unsharded = rt.bucket[c].is_unsharded
  BY <1>1, KeptSound DEF Sound
<1>3. rt' = IF NeedsFinish(s1, b) THEN u ELSE s1
  BY DEF FinishDeferredBackward
<1> HIDE DEF s1
<1>4. u.bucket = [s1.bucket EXCEPT ![b] = d]
  BY <1>1, <1>2, PostBackwardEffect
<1> HIDE DEF u, d
<1>5. \A c \in Bucket : c # b => rt'.bucket[c].is_unsharded = rt.bucket[c].is_unsharded
  <2>1. s1.bucket \in [Bucket -> BucketState]
    BY <1>2 DEF Runtime
  <2> QED BY <1>2, <1>3, <1>4, <2>1
<1>6. /\ b \in Defers /\ phase \in {"idle", "backward"} /\ phase' = phase
      /\ \A i \in DOMAIN todo : todo[i].bucket # b
      /\ UNCHANGED <<open, graphs, forwards, todo>>
  BY DEF FinishDeferredBackward
<1>7. Unhooked' = Unhooked /\ \A c : Awaits(c)' = Awaits(c)
  BY <1>6 DEF Unhooked, Awaits, Leaves
<1>8. b \notin Unhooked
  BY UnhookedFacts, <1>6 DEF OrderInv, GraphOK, HiddenLast
<1>9. ~Awaits(b) /\ \A p \in Reached(todo) : todo[p].bucket # b /\ todo[p].bucket \in Bucket
  BY <1>6, OpenAndTodoTypes DEF Awaits, Leaves, Reached, Enters
<1>10. \A p \in Reached(todo) : todo[p].bucket \in InUse
  BY DEF Reached, Enters, Leaves, InUse
<1>11. HeldOK'
  <2>1. CASE phase = "idle"
    <3>1. todo' = <<>>
      BY <1>6, <2>1 DEF OrderInv, HeldOK
    <3>2. \A c \in Unhooked' : c \in Bucket /\ rt'.bucket[c].is_unsharded
      BY <1>5, <1>7, <1>8 DEF OrderInv, HeldOK, Unhooked
    <3> QED BY <1>6, <2>1, <3>1, <3>2, HeldOutsideBackward
  <2>2. CASE phase = "backward"
    <3>1. Unhooked' = {}
      BY <1>7, <2>2 DEF OrderInv, HeldOK
    <3>2. \A c \in Bucket : Awaits(c)' => rt'.bucket[c].is_unsharded
      BY <1>5, <1>7, <1>9 DEF OrderInv, HeldOK
    <3>3. \A p \in Reached(todo) : rt'.bucket[todo[p].bucket].is_unsharded
      BY <1>5, <1>9, <1>10 DEF OrderInv, HeldOK
    <3> QED BY <1>6, <2>2, <3>1, <3>2, <3>3, HeldInBackward
  <2> QED BY <1>6, <2>1, <2>2
<1> QED BY <1>6, <1>11, OrderFromHeld

\* Some graphs go, the others stay; no call is open.
LEMMA FewerGraphs ==
  ASSUME OrderInv, open' = <<>>, forwards' = forwards,
         \A n \in DOMAIN graphs' : \E k \in DOMAIN graphs : graphs'[n] = graphs[k]
  PROVE  /\ \A n \in DOMAIN graphs' : GraphOK(graphs'[n])
         /\ OpenOK'
         /\ Unhooked' \subseteq Unhooked
<1>1. DOMAIN open' = {}
  BY EmptySeq
<1>2. \A n \in DOMAIN graphs' : GraphOK(graphs'[n])
  BY DEF OrderInv
<1>3. \A n \in DOMAIN graphs' : \A q \in DOMAIN graphs'[n] : graphs'[n][q].id <= forwards'
  BY DEF OrderInv, OpenOK
<1>4. OpenOK'
  BY <1>1, <1>3 DEF OpenOK
<1>5. Unhooked' \subseteq Unhooked
  BY DEF Unhooked
<1> QED BY <1>2, <1>4, <1>5

LEMMA EmptyTodo == TodoOK(<<>>)
<1>1. DOMAIN <<>> = {}
  BY EmptySeq
<1> QED BY <1>1 DEF TodoOK, OneBucketPerCall, Enters, Leaves

\* Dropping an output, resetting the context and a backward that raises keep it.
LEMMA DroppingKeepsOrder ==
  ASSUME IInv, IInv', OrderInv,
         \/ \E i \in DOMAIN graphs : DropGraph(i)
         \/ ResetContext \/ BackwardRaises
  PROVE  OrderInv'
<1>1. /\ phase # "backward" => todo = <<>>
      /\ phase # "idle" => Unhooked = {} /\ open = <<>>
  BY InvFacts DEF OrderInv, HeldOK
<1>2. ASSUME NEW i \in DOMAIN graphs, DropGraph(i)
      PROVE  OrderInv'
  <2>1. /\ open = <<>> /\ phase = "idle" /\ graphs' = RemoveAt(graphs, i)
        /\ UNCHANGED <<rt, open, forwards, phase, todo>>
    BY <1>2 DEF DropGraph, Between
  <2>2. \A n \in DOMAIN graphs' : \E k \in DOMAIN graphs : graphs'[n] = graphs[k]
    BY <2>1, RemoveAtElements DEF IInv, TypeOK
  <2>3. /\ \A n \in DOMAIN graphs' : GraphOK(graphs'[n])
        /\ OpenOK' /\ Unhooked' \subseteq Unhooked
    BY <2>1, <2>2, FewerGraphs
  <2>4. todo' = <<>> /\ TodoOK(todo')
    BY <1>1, <2>1, EmptyTodo
  <2>5. \A c \in Unhooked' : rt'.bucket[c].is_unsharded
    BY <2>1, <2>3 DEF OrderInv, HeldOK, Unhooked
  <2>6. HeldOK'
    BY <2>1, <2>4, <2>5, HeldOutsideBackward
  <2> QED BY <2>3, <2>4, <2>6 DEF OrderInv
<1>3. CASE ResetContext
  <2>1. /\ open = <<>> /\ phase = "idle" /\ graphs' = <<>>
        /\ UNCHANGED <<open, forwards, phase, todo>>
    BY <1>3 DEF ResetContext, Between
  <2>2. DOMAIN graphs' = {} /\ Unhooked' = {}
    BY <2>1, EmptySeq DEF Unhooked
  <2>3. (\A n \in DOMAIN graphs' : GraphOK(graphs'[n])) /\ OpenOK'
    BY <2>1, <2>2, FewerGraphs
  <2>4. todo' = <<>> /\ TodoOK(todo')
    BY <1>1, <2>1, EmptyTodo
  <2>5. HeldOK'
    BY <2>1, <2>2, <2>4, HeldOutsideBackward
  <2> QED BY <2>3, <2>4, <2>5 DEF OrderInv
<1>4. CASE BackwardRaises
  <2>1. /\ open = <<>> /\ phase' = "idle" /\ todo' = <<>> /\ Unhooked = {}
        /\ UNCHANGED <<open, graphs, forwards>>
    BY <1>1, <1>4 DEF BackwardRaises
  <2>2. /\ \A n \in DOMAIN graphs' : GraphOK(graphs'[n])
        /\ OpenOK' /\ Unhooked' = {}
    BY <2>1, FewerGraphs
  <2>3. HeldOK'
    BY <2>1, <2>2, HeldOutsideBackward
  <2> QED BY <2>1, <2>2, <2>3, EmptyTodo DEF OrderInv
<1> QED BY <1>2, <1>3, <1>4

\* Starting a backward keeps it: the graph's hidden calls were the only ones.
LEMMA StartBackwardKeepsOrder ==
  ASSUME IInv, IInv', OrderInv, Hooked, NEW i \in DOMAIN graphs,
         NEW used \in SUBSET Exits(graphs[i]), StartBackward(i, used)
  PROVE  OrderInv'
<1>1. /\ open = <<>> /\ phase' = "backward" /\ graphs' = RemoveAt(graphs, i)
      /\ todo' = Walk(graphs[i], used) /\ UNCHANGED <<rt, open, forwards>>
      /\ Len(graphs) > 1 => Spares(Bucket)
  BY DEF StartBackward, Between
<1>2. graphs \in Seq(Seq(Event)) /\ graphs[i] \in Seq(Event) /\ GraphOK(graphs[i])
  BY EventFacts DEF IInv, TypeOK, OrderInv
<1>3. \A n \in DOMAIN graphs' : \E k \in DOMAIN graphs : k # i /\ graphs'[n] = graphs[k]
  BY <1>1, <1>2, RemoveAtElements
<1>4. /\ \A n \in DOMAIN graphs' : GraphOK(graphs'[n])
      /\ OpenOK' /\ Unhooked' \subseteq Unhooked
  BY <1>1, <1>3, FewerGraphs
<1>5. /\ TodoOK(todo')
      /\ \A p \in Enters(todo') : \E r \in Leaves(todo') : todo'[r].id = todo'[p].id
      /\ \A r \in Leaves(todo') : ~todo'[r].flag =>
           \E j \in Leaves(graphs[i]) :
             ~graphs[i][j].flag /\ graphs[i][j].bucket = todo'[r].bucket
  BY <1>1, <1>2, WalkInOrder
<1>6. Unhooked' = {}
  <2>1. CASE Len(graphs) > 1
    BY <1>1, <1>4, <2>1 DEF Hooked, Spares, Unhooked
  <2>2. CASE ~(Len(graphs) > 1)
    <3>1. \A k \in DOMAIN graphs : k = i
      BY <1>2, <2>2, SeqElements
    <3>2. DOMAIN graphs' = {}
      BY <1>3, <3>1
    <3> QED BY <3>2 DEF Unhooked
  <2> QED BY <2>1, <2>2
<1>7. \A c \in Bucket : Awaits(c)' => rt'.bucket[c].is_unsharded
  <2>1. \A c \in Bucket : Awaits(c)' => c \in Unhooked
    BY <1>5, UnhookedFacts DEF Awaits
  <2> QED BY <1>1, <2>1 DEF OrderInv, HeldOK
<1>8. Reached(todo') = {}
  BY <1>5 DEF Reached
<1>9. HeldOK'
  BY <1>1, <1>6, <1>7, <1>8, HeldInBackward
<1> QED BY <1>4, <1>5, <1>9 DEF OrderInv

\* The events after the next one.
LEMMA TailFacts ==
  ASSUME NEW w \in Seq(Event), w # <<>>
  PROVE  LET v == Tail(w)
         IN  /\ 1 \in DOMAIN w
             /\ \A i \in DOMAIN v : /\ i \in Nat /\ i >= 1 /\ i + 1 \in DOMAIN w
                                    /\ v[i] = w[i + 1]
             /\ \A i \in DOMAIN w : /\ i \in Nat /\ i >= 1
                                    /\ i # 1 => i - 1 \in DOMAIN v /\ v[i - 1] = w[i]
             /\ \A i \in Enters(v) : i \in DOMAIN v /\ i + 1 \in Enters(w)
             /\ \A i \in Leaves(v) : i \in DOMAIN v /\ i + 1 \in Leaves(w)
             /\ \A i \in Enters(w) : i \in DOMAIN w /\ (i # 1 => i - 1 \in Enters(v))
             /\ \A i \in Leaves(w) : i \in DOMAIN w /\ (i # 1 => i - 1 \in Leaves(v))
<1> DEFINE v == Tail(w)
<1>1. Len(w) \in Nat \ {0} /\ DOMAIN w = 1 .. Len(w)
  BY LenProperties, EmptySeq
<1>2. v \in Seq(Event) /\ Len(v) = Len(w) - 1 /\ \A i \in 1 .. Len(v) : v[i] = w[i + 1]
  BY <1>1, HeadTailProperties
<1>3. DOMAIN v = 1 .. (Len(w) - 1)
  BY <1>2, LenProperties
<1> HIDE DEF v
<1>4. /\ 1 \in DOMAIN w
      /\ \A i \in DOMAIN v : i \in Nat /\ i >= 1 /\ i + 1 \in DOMAIN w /\ v[i] = w[i + 1]
      /\ \A i \in DOMAIN w : /\ i \in Nat /\ i >= 1
                             /\ i # 1 => i - 1 \in DOMAIN v /\ v[i - 1] = w[i]
  BY <1>1, <1>2, <1>3
<1>5. /\ \A i \in Enters(v) : i \in DOMAIN v /\ i + 1 \in Enters(w)
      /\ \A i \in Leaves(v) : i \in DOMAIN v /\ i + 1 \in Leaves(w)
      /\ \A i \in Enters(w) : i \in DOMAIN w /\ (i # 1 => i - 1 \in Enters(v))
      /\ \A i \in Leaves(w) : i \in DOMAIN w /\ (i # 1 => i - 1 \in Leaves(v))
  BY <1>4 DEF Enters, Leaves
<1> QED BY <1>4, <1>5 DEF v

LEMMA TailInOrder ==
  ASSUME NEW w \in Seq(Event), w # <<>>, TodoOK(w)
  PROVE  TodoOK(Tail(w))
<1> DEFINE v == Tail(w)
<1>1. /\ \A i \in DOMAIN v : /\ i \in Nat /\ i >= 1 /\ i + 1 \in DOMAIN w
                             /\ v[i] = w[i + 1]
      /\ \A i \in DOMAIN w : /\ i \in Nat /\ i >= 1
                             /\ i # 1 => i - 1 \in DOMAIN v /\ v[i - 1] = w[i]
      /\ \A i \in Enters(v) : i \in DOMAIN v /\ i + 1 \in Enters(w)
      /\ \A i \in Leaves(v) : i \in DOMAIN v /\ i + 1 \in Leaves(w)
      /\ \A i \in Enters(w) : i \in DOMAIN w /\ (i # 1 => i - 1 \in Enters(v))
      /\ \A i \in Leaves(w) : i \in DOMAIN w /\ (i # 1 => i - 1 \in Leaves(v))
  BY TailFacts
<1> HIDE DEF v
<1>2. OneBucketPerCall(v)
  BY <1>1 DEF TodoOK, OneBucketPerCall
<1>3. ASSUME NEW p \in Enters(v), NEW q \in Enters(v), p < q, v[p].bucket = v[q].bucket
      PROVE  \E r \in Leaves(v) : p < r /\ r < q /\ v[r].id = v[q].id
  <2>1. /\ p + 1 \in Enters(w) /\ q + 1 \in Enters(w) /\ p + 1 < q + 1 /\ p \in Nat /\ q \in Nat
        /\ w[p + 1].bucket = w[q + 1].bucket
    BY <1>1, <1>3
  <2>2. PICK r \in Leaves(w) : p + 1 < r /\ r < q + 1 /\ w[r].id = w[q + 1].id
    BY <2>1 DEF TodoOK
  <2>3. r \in Nat /\ r # 1
    BY <1>1, <2>1, <2>2
  <2>4. r - 1 \in Leaves(v) /\ v[r - 1] = w[r]
    BY <1>1, <2>3
  <2>5. p < r - 1 /\ r - 1 < q
    BY <2>1, <2>2, <2>3
  <2>6. v[q] = w[q + 1]
    BY <1>1
  <2>7. v[r - 1].id = v[q].id
    BY <2>2, <2>4, <2>6
  <2> QED BY <2>4, <2>5, <2>7
<1>4. ASSUME NEW p \in Enters(v), NEW r \in Leaves(v), v[p].id = v[r].id
      PROVE  r < p
  <2>1. /\ p + 1 \in Enters(w) /\ r + 1 \in Leaves(w) /\ w[p + 1].id = w[r + 1].id
        /\ p \in Nat /\ r \in Nat
    BY <1>1, <1>4
  <2>2. r + 1 < p + 1
    BY <2>1 DEF TodoOK
  <2> QED BY <2>1, <2>2
<1>5. ASSUME NEW r \in Leaves(v)
      PROVE  \E p \in Enters(v) : v[p].id = v[r].id
  <2>1. r + 1 \in Leaves(w) /\ w[r + 1] = v[r] /\ r \in Nat /\ r >= 1
    BY <1>1
  <2>2. PICK p \in Enters(w) : w[p].id = w[r + 1].id
    BY <2>1 DEF TodoOK
  <2>3. r + 1 < p /\ p \in Nat
    BY <1>1, <2>1, <2>2 DEF TodoOK
  <2>4. p - 1 \in Enters(v) /\ v[p - 1] = w[p]
    BY <1>1, <2>1, <2>3
  <2> QED BY <2>1, <2>2, <2>4
<1>6. ASSUME NEW r \in Leaves(v), NEW q \in DOMAIN v, ~v[r].flag, q < r
      PROVE  v[q].bucket # v[r].bucket
  <2>1. /\ r + 1 \in Leaves(w) /\ q + 1 \in DOMAIN w /\ q + 1 < r + 1
        /\ v[r] = w[r + 1] /\ v[q] = w[q + 1]
    BY <1>1, <1>6
  <2> QED BY <1>6, <2>1 DEF TodoOK
<1>7. TodoOK(v)
  BY <1>2, <1>3, <1>4, <1>5, <1>6 DEF TodoOK
<1> QED BY <1>7 DEF v

\* A step of the running backward that reaches the next event.
LEMMA OrderFromReached ==
  ASSUME IInv, IInv', OrderInv, phase = "backward", todo # <<>>, todo' = Tail(todo),
         UNCHANGED <<open, graphs, forwards, phase>>,
         \A c \in Bucket : Awaits(c)' => rt'.bucket[c].is_unsharded,
         \A p \in Reached(todo') : rt'.bucket[todo'[p].bucket].is_unsharded
  PROVE  OrderInv'
<1>1. todo \in Seq(Event) /\ TodoOK(todo)
  BY DEF IInv, TypeOK, OrderInv
<1>2. TodoOK(todo')
  BY <1>1, TailInOrder
<1>3. Unhooked' = {}
  BY DEF OrderInv, HeldOK, Unhooked
<1>4. HeldOK'
  BY <1>3, HeldInBackward
<1>5. (\A n \in DOMAIN graphs' : GraphOK(graphs'[n])) /\ OpenOK'
  BY DEF OrderInv, OpenOK
<1> QED BY <1>2, <1>4, <1>5 DEF OrderInv

\* The outputs' node: the hook gathers the bucket, or no hook was needed.
LEMMA ReachOutputsKeepsOrder ==
  ASSUME IInv, IInv', OrderInv, ReachOutputs
  PROVE  OrderInv'
<1> DEFINE e == todo[1]
           t == PreBackwardHook(rt, e.bucket)
<1>1. /\ Sound(rt) /\ weights \in Nat /\ sync \in [Bucket -> BOOLEAN]
      /\ todo \in Seq(Event)
  BY InvFacts DEF IInv, TypeOK
<1>2. /\ phase = "backward" /\ todo # <<>> /\ e.kind = "exit" /\ todo' = Tail(todo)
      /\ rt' = IF e.flag THEN t ELSE rt
      /\ UNCHANGED <<open, graphs, forwards, phase>>
  BY DEF ReachOutputs
<1>3. e.bucket \in Bucket /\ e.flag \in BOOLEAN
  BY <1>2, TodoFacts DEF Event
<1>4. 1 \in Leaves(todo)
  BY <1>1, <1>2, TailFacts DEF Leaves
<1>5. t.bucket[e.bucket].is_unsharded /\ StillUnsharded(rt, t)
  <2> HIDE DEF e
  <2>1. /\ t.bucket[e.bucket].is_unsharded
        /\ \A c \in Bucket : rt.bucket[c].is_unsharded => t.bucket[c].is_unsharded
    BY <1>1, <1>3, PreBackwardHookEffect
  <2> HIDE DEF t
  <2>2. StillUnsharded(rt, t)
    BY <2>1 DEF StillUnsharded
  <2> QED BY <2>1, <2>2 DEF t
<1> HIDE DEF t
<1>6. rt'.bucket[e.bucket].is_unsharded /\ StillUnsharded(rt, rt')
  <2>1. CASE e.flag
    BY <1>2, <1>5, <2>1
  <2>2. CASE ~e.flag
    <3>1. Awaits(e.bucket)
      BY <1>4, <2>2 DEF Awaits
    <3> QED BY <1>2, <1>3, <2>2, <3>1 DEF OrderInv, HeldOK, StillUnsharded
  <2> QED BY <2>1, <2>2
<1>7. ASSUME NEW c \in Bucket, Awaits(c)'
      PROVE  rt'.bucket[c].is_unsharded
  <2>1. PICK r \in Leaves(todo') : ~todo'[r].flag /\ todo'[r].bucket = c
    BY <1>7 DEF Awaits
  <2>2. r + 1 \in Leaves(todo) /\ todo[r + 1] = todo'[r]
    BY <1>1, <1>2, TailFacts
  <2>3. Awaits(c)
    BY <2>1, <2>2 DEF Awaits
  <2> QED BY <1>6, <2>3 DEF OrderInv, HeldOK, StillUnsharded
<1>8. ASSUME NEW p \in Reached(todo')
      PROVE  rt'.bucket[todo'[p].bucket].is_unsharded
  <2>1. /\ p \in Enters(todo') /\ \A r \in Leaves(todo') : todo'[r].id # todo'[p].id
    BY DEF Reached
  <2>2. /\ p + 1 \in Enters(todo) /\ todo'[p] = todo[p + 1] /\ p + 1 \in DOMAIN todo
        /\ 1 \in DOMAIN todo
    BY <1>1, <1>2, <2>1, TailFacts
  <2>3. todo[p + 1].bucket \in Bucket
    BY <2>2, OpenAndTodoTypes
  <2>4. CASE todo[1].id = todo[p + 1].id
    BY <1>6, <2>2, <2>4 DEF OrderInv, TodoOK, OneBucketPerCall
  <2>5. CASE todo[1].id # todo[p + 1].id
    <3>1. \A r \in Leaves(todo) : r # 1 => r - 1 \in Leaves(todo') /\ todo'[r - 1] = todo[r]
      BY <1>1, <1>2, TailFacts
    <3>2. \A r \in Leaves(todo) : todo[r].id # todo[p + 1].id
      BY <2>1, <2>2, <2>5, <3>1
    <3>3. todo[p + 1].bucket \in InUse
      BY <2>2, <3>2 DEF InUse, Enters, Leaves
    <3> QED BY <1>6, <2>2, <2>3, <3>3 DEF OrderInv, HeldOK, StillUnsharded
  <2> QED BY <2>4, <2>5
<1> QED BY <1>2, <1>7, <1>8, OrderFromReached

\* The inputs' node: only its own bucket may be resharded.  No earlier call of the
\* bucket that hid its outputs is left, and the calls of the bucket still to run
\* their backward have their outputs still to reach.
LEMMA ReachInputsKeepsOrder ==
  ASSUME IInv, IInv', OrderInv, ReachInputs
  PROVE  OrderInv'
<1> DEFINE e == todo[1]
           b == e.bucket
           last == \A i \in 2 .. Len(todo) : todo[i].bucket # b
           s1 == IF last /\ b \notin Defers
                 THEN [rt EXCEPT !.bucket[b].kept = @ + due[b]] ELSE rt
           t == OnInputGrads(s1, b)
<1>1. /\ Sound(rt) /\ sync \in [Bucket -> BOOLEAN] /\ todo \in Seq(Event) /\ TodoOK(todo)
      /\ due \in [Bucket -> Nat]
  BY InvFacts DEF IInv, TypeOK, OrderInv
<1>2. /\ phase = "backward" /\ todo # <<>> /\ e.kind = "enter" /\ todo' = Tail(todo)
      /\ rt' = IF e.flag THEN t ELSE s1
      /\ UNCHANGED <<open, graphs, forwards, phase>>
  BY DEF ReachInputs
<1>3. b \in Bucket
  BY <1>2, TodoFacts DEF Event
<1>4. 1 \in Enters(todo) /\ 1 \notin Leaves(todo)
  BY <1>1, <1>2, TailFacts DEF Enters, Leaves
<1>5. s1 \in Runtime /\ \A c \in Bucket : s1.bucket[c].is_unsharded = rt.bucket[c].is_unsharded
  <2> HIDE DEF last, e
  <2>1. due[b] \in Nat
    BY <1>1, <1>3
  <2>2. /\ Sound([rt EXCEPT !.bucket[b].kept = @ + due[b]])
        /\ \A c \in Bucket : [rt EXCEPT !.bucket[b].kept = @ + due[b]].bucket[c].is_unsharded
                             = rt.bucket[c].is_unsharded
    BY <1>1, <1>3, <2>1, KeptSound
  <2> QED BY <1>1, <2>2 DEF Sound
<1> HIDE DEF s1
<1>6. \A c \in Bucket : c # b => rt'.bucket[c].is_unsharded = rt.bucket[c].is_unsharded
  <2> HIDE DEF e
  <2>1. \A c \in Bucket : c # b => t.bucket[c] = s1.bucket[c]
    BY <1>1, <1>3, <1>5, OnInputGradsGathers
  <2> HIDE DEF t
  <2> QED BY <1>2, <1>5, <2>1
<1>7. ASSUME NEW c \in Bucket, Awaits(c)'
      PROVE  rt'.bucket[c].is_unsharded
  <2>1. PICK r \in Leaves(todo') : ~todo'[r].flag /\ todo'[r].bucket = c
    BY <1>7 DEF Awaits
  <2>2. /\ r + 1 \in Leaves(todo) /\ todo[r + 1] = todo'[r] /\ r \in Nat /\ r >= 1
        /\ 1 \in DOMAIN todo
    BY <1>1, <1>2, TailFacts
  <2>3. Awaits(c)
    BY <2>1, <2>2 DEF Awaits
  <2>4. 1 < r + 1
    BY <2>2
  <2>5. todo[1].bucket # c
    BY <1>1, <2>1, <2>2, <2>4 DEF TodoOK
  <2> QED BY <1>6, <2>3, <2>5 DEF OrderInv, HeldOK
<1>8. ASSUME NEW p \in Reached(todo')
      PROVE  rt'.bucket[todo'[p].bucket].is_unsharded
  <2>1. /\ p \in Enters(todo') /\ \A r \in Leaves(todo') : todo'[r].id # todo'[p].id
    BY DEF Reached
  <2>2. /\ p + 1 \in Enters(todo) /\ todo'[p] = todo[p + 1] /\ p + 1 \in DOMAIN todo
        /\ p \in Nat /\ p >= 1
        /\ \A r \in Leaves(todo) : r # 1 => r - 1 \in Leaves(todo') /\ todo'[r - 1] = todo[r]
    BY <1>1, <1>2, <2>1, TailFacts
  <2>3. \A r \in Leaves(todo) : todo[r].id # todo[p + 1].id
    BY <1>4, <2>1, <2>2
  <2>4. todo[p + 1].bucket \in Bucket /\ todo[p + 1].bucket \in InUse
    BY <2>2, <2>3, OpenAndTodoTypes DEF InUse, Enters, Leaves
  <2>5. todo[p + 1].bucket # b
    <3>1. 1 < p + 1
      BY <2>2
    <3> QED BY <1>1, <1>4, <2>2, <2>3, <3>1 DEF TodoOK
  <2> QED BY <1>6, <2>2, <2>4, <2>5 DEF OrderInv, HeldOK
<1> QED BY <1>2, <1>7, <1>8, OrderFromReached

\* The graphs a call finds, among them the one it starts if it starts one: what they
\* hold is older than the call and hid nothing of its bucket.
LEMMA GraphsForCall ==
  ASSUME IInv, OrderInv, Hooked, NEW b \in Bucket, NEW grad \in BOOLEAN, NEW fresh \in BOOLEAN,
         PreForward(b, grad, fresh)
  PROVE  LET gs == IF fresh THEN Append(graphs, <<>>) ELSE graphs
         IN  /\ gs \in Seq(Seq(Event))
             /\ \A n \in DOMAIN gs :
                  /\ GraphOK(gs[n])
                  /\ \A q \in DOMAIN gs[n] : gs[n][q].id \in Nat /\ gs[n][q].id <= forwards
                  /\ \A r \in Leaves(gs[n]) : ~gs[n][r].flag =>
                       gs[n][r].bucket \in Unhooked /\ gs[n][r].bucket # b
                  /\ \A i \in DOMAIN open : CallOpen(open[i], gs[n])
             /\ \A i \in DOMAIN open : open[i].grad => gs # <<>> /\ Entered(open[i], Last(gs))
<1> DEFINE gs == IF fresh THEN Append(graphs, <<>>) ELSE graphs
<1>1. graphs \in Seq(Seq(Event)) /\ <<>> \in Seq(Event) /\ DOMAIN <<>> = {}
  BY EmptySeq DEF IInv, TypeOK
<1>2. b \notin Unhooked /\ (fresh => DOMAIN open = {})
  BY EmptySeq DEF PreForward, Hooked, Spares
<1>3. ASSUME NEW n \in DOMAIN graphs
      PROVE  /\ GraphOK(graphs[n])
             /\ \A q \in DOMAIN graphs[n] :
                  graphs[n][q].id \in Nat /\ graphs[n][q].id <= forwards
             /\ \A r \in Leaves(graphs[n]) : ~graphs[n][r].flag =>
                  graphs[n][r].bucket \in Unhooked /\ graphs[n][r].bucket # b
             /\ \A i \in DOMAIN open : CallOpen(open[i], graphs[n])
  <2>1. GraphOK(graphs[n]) /\ \A i \in DOMAIN open : CallOpen(open[i], graphs[n])
    BY DEF OrderInv, OpenOK
  <2>2. \A q \in DOMAIN graphs[n] : /\ graphs[n][q].id \in Nat /\ graphs[n][q].id <= forwards
                                    /\ graphs[n][q].bucket \in Bucket
    BY <1>1, EventFacts DEF OrderInv, OpenOK
  <2>3. \A r \in Leaves(graphs[n]) : ~graphs[n][r].flag => graphs[n][r].bucket \in Unhooked
    BY <2>2, UnhookedFacts DEF Leaves
  <2> QED BY <1>2, <2>1, <2>2, <2>3
<1>4. CASE ~fresh
  BY <1>1, <1>3, <1>4 DEF OrderInv, OpenOK
<1>5. CASE fresh
  <2>1. /\ gs \in Seq(Seq(Event)) /\ Len(gs) = Len(graphs) + 1
        /\ \A n \in 1 .. Len(graphs) : gs[n] = graphs[n]
        /\ gs[Len(graphs) + 1] = <<>>
    BY <1>1, <1>5, AppendProperties
  <2> HIDE DEF gs
  <2>2. DOMAIN gs = 1 .. (Len(graphs) + 1) /\ DOMAIN graphs = 1 .. Len(graphs) /\ Len(graphs) \in Nat
    BY <1>1, <2>1, LenProperties
  <2>3. \A n \in DOMAIN gs : gs[n] = <<>> \/ (n \in DOMAIN graphs /\ gs[n] = graphs[n])
    BY <2>1, <2>2
  <2>4. ASSUME NEW n \in DOMAIN gs, gs[n] = <<>>
        PROVE  /\ GraphOK(gs[n]) /\ DOMAIN gs[n] = {} /\ Leaves(gs[n]) = {}
    BY <1>1, <2>4, EmptyGraph DEF Leaves
  <2>5. ASSUME NEW n \in DOMAIN gs
        PROVE  /\ GraphOK(gs[n])
               /\ \A q \in DOMAIN gs[n] : gs[n][q].id \in Nat /\ gs[n][q].id <= forwards
               /\ \A r \in Leaves(gs[n]) : ~gs[n][r].flag =>
                    gs[n][r].bucket \in Unhooked /\ gs[n][r].bucket # b
    <3>1. CASE gs[n] = <<>>
      BY <2>4, <3>1
    <3>2. CASE n \in DOMAIN graphs /\ gs[n] = graphs[n]
      BY <1>3, <3>2
    <3> QED BY <2>3, <3>1, <3>2
  <2> QED BY <1>2, <1>5, <2>1, <2>5 DEF gs
<1> QED BY <1>4, <1>5

\* The event a call records as it begins, if autograd records it: the graphs stay in
\* order, the call is open in all of them and the others stay open.
LEMMA CallBegins ==
  ASSUME NEW gs \in Seq(Seq(Event)), gs # <<>>, NEW call \in OpenCall, NEW e \in Event,
         e.kind = "enter", e.id = call.id, e.bucket = call.bucket,
         \A n \in DOMAIN gs :
           /\ GraphOK(gs[n])
           /\ \A q \in DOMAIN gs[n] : gs[n][q].id \in Nat /\ gs[n][q].id < call.id
           /\ \A r \in Leaves(gs[n]) : ~gs[n][r].flag => gs[n][r].bucket # call.bucket
  PROVE  LET hs == Recorded(gs, e)
         IN  /\ hs # <<>> /\ Entered(call, Last(hs)) /\ DOMAIN hs = DOMAIN gs
             /\ \A n \in DOMAIN hs :
                  /\ GraphOK(hs[n]) /\ CallOpen(call, hs[n])
                  /\ \A q \in DOMAIN hs[n] : hs[n][q].id <= call.id
                  /\ \A r \in Leaves(hs[n]) : r \in Leaves(gs[n]) /\ hs[n][r] = gs[n][r]
             /\ \A other :
                  /\ other.id # call.id /\ other.bucket # call.bucket
                  => /\ Entered(other, Last(gs)) => Entered(other, Last(hs))
                     /\ \A n \in DOMAIN hs : CallOpen(other, gs[n]) => CallOpen(other, hs[n])
<1> DEFINE hs == Recorded(gs, e)
           n0 == Len(gs)
<1>1. /\ hs # <<>> /\ n0 \in DOMAIN gs /\ DOMAIN hs = DOMAIN gs
      /\ Last(hs) = hs[n0] /\ Last(gs) = gs[n0]
      /\ \A i \in DOMAIN gs : i # n0 => hs[i] = gs[i]
      /\ Follows(hs[n0], gs[n0], e)
  BY RecordedFacts
<1>2. call.id \in Nat
  BY DEF OpenCall
<1> HIDE DEF hs, n0
<1>3. GraphOK(hs[n0])
  BY <1>1, <1>2, EnterKeepsGraph
<1>4. CallOpen(call, hs[n0]) /\ Entered(call, hs[n0]) /\ \A n \in DOMAIN gs : CallOpen(call, gs[n])
  BY <1>1, <1>2, CallOpens
<1>5. PICK m \in Nat :
      /\ DOMAIN hs[n0] = DOMAIN gs[n0] \cup {m} /\ m \notin DOMAIN gs[n0]
      /\ hs[n0][m] = e /\ \A i \in DOMAIN gs[n0] : hs[n0][i] = gs[n0][i] /\ i < m
      /\ Enters(hs[n0]) = Enters(gs[n0]) \cup {m} /\ Leaves(hs[n0]) = Leaves(gs[n0])
      /\ Enters(gs[n0]) \subseteq DOMAIN gs[n0] /\ Leaves(gs[n0]) \subseteq DOMAIN gs[n0]
      /\ DOMAIN hs[n0] \subseteq Nat
  BY <1>1, EnterPlaces
<1>6. ASSUME NEW n \in DOMAIN hs
      PROVE  /\ GraphOK(hs[n]) /\ CallOpen(call, hs[n])
             /\ \A q \in DOMAIN hs[n] : hs[n][q].id <= call.id
             /\ \A r \in Leaves(hs[n]) : r \in Leaves(gs[n]) /\ hs[n][r] = gs[n][r]
  <2>1. CASE n = n0
    <3>1. ASSUME NEW q \in DOMAIN hs[n]
          PROVE  hs[n][q].id <= call.id
      <4>1. CASE q \in DOMAIN gs[n0]
        <5>1. hs[n][q].id = gs[n0][q].id
          BY <1>5, <2>1, <4>1
        <5>2. gs[n0][q].id \in Nat /\ gs[n0][q].id < call.id
          BY <1>1, <4>1
        <5> QED BY <1>2, <5>1, <5>2
      <4>2. CASE q = m
        BY <1>2, <1>5, <2>1, <4>2
      <4> QED BY <1>5, <2>1, <4>1, <4>2
    <3>2. \A r \in Leaves(hs[n]) : r \in Leaves(gs[n]) /\ hs[n][r] = gs[n][r]
      BY <1>5, <2>1
    <3> QED BY <1>3, <1>4, <2>1, <3>1, <3>2
  <2>2. CASE n # n0
    BY <1>1, <1>2, <1>4, <2>2
  <2> QED BY <2>1, <2>2
<1>7. ASSUME NEW other, other.id # call.id, other.bucket # call.bucket
      PROVE  /\ Entered(other, Last(gs)) => Entered(other, Last(hs))
             /\ \A n \in DOMAIN hs : CallOpen(other, gs[n]) => CallOpen(other, hs[n])
  <2>1. Entered(other, Last(gs)) => Entered(other, Last(hs))
    BY <1>1, StaysEntered
  <2>2. CallOpen(other, gs[n0]) => CallOpen(other, hs[n0])
    BY <1>1, <1>7, CallStaysOpen
  <2> QED BY <1>1, <2>1, <2>2
<1> QED BY <1>1, <1>4, <1>6, <1>7 DEF hs

\* The pre-forward hook keeps it.
LEMMA PreForwardKeepsOrder ==
  ASSUME IInv, IInv', OrderInv, Hooked,
         NEW b \in Bucket, NEW grad \in BOOLEAN, NEW fresh \in BOOLEAN,
         PreForward(b, grad, fresh)
  PROVE  OrderInv'
<1> DEFINE gs == IF fresh THEN Append(graphs, <<>>) ELSE graphs
           has_trigger == grad /\ b \notin NoInputGrad
           call == [bucket |-> b, id |-> forwards', grad |-> grad,
                    has_trigger |-> has_trigger]
           e == [kind |-> "enter", bucket |-> b, id |-> forwards', flag |-> has_trigger]
<1>1. /\ phase = "idle" /\ phase' = "idle" /\ todo' = todo /\ forwards' = forwards + 1
      /\ open' = Append(open, call)
      /\ graphs' = IF grad THEN Recorded(gs, e) ELSE gs
      /\ grad => gs # <<>>
      /\ open # <<>> => grad = Last(open).grad
      /\ ~IsOpen(b)
  BY DEF PreForward
<1>2. forwards \in Nat /\ forwards' \in Nat /\ call \in OpenCall /\ e \in Event
  <2>1. forwards \in Nat
    BY DEF IInv, TypeOK
  <2> QED BY <1>1, <2>1 DEF OpenCall, Event
<1>3. /\ gs \in Seq(Seq(Event))
      /\ \A n \in DOMAIN gs :
           /\ GraphOK(gs[n])
           /\ \A q \in DOMAIN gs[n] : gs[n][q].id \in Nat /\ gs[n][q].id <= forwards
           /\ \A r \in Leaves(gs[n]) : ~gs[n][r].flag =>
                gs[n][r].bucket \in Unhooked /\ gs[n][r].bucket # b
           /\ \A i \in DOMAIN open : CallOpen(open[i], gs[n])
      /\ \A i \in DOMAIN open : open[i].grad => gs # <<>> /\ Entered(open[i], Last(gs))
  BY GraphsForCall
<1>4. /\ call.id = forwards' /\ call.bucket = b /\ call.grad = grad
      /\ e.kind = "enter" /\ e.id = forwards' /\ e.bucket = b
  OBVIOUS
<1> HIDE DEF gs, call, e
<1>5. /\ Len(open) \in Nat /\ DOMAIN open = 1 .. Len(open)
      /\ \A i \in DOMAIN open : /\ open[i].id \in Nat /\ open[i].bucket \in Bucket
                                /\ open[i].bucket # b /\ open[i].id <= forwards
                                /\ open[i].grad = grad
  <2>1. /\ Len(open) \in Nat /\ DOMAIN open = 1 .. Len(open)
        /\ \A i \in DOMAIN open : open[i].id \in Nat /\ open[i].bucket \in Bucket
    BY OpenAndTodoTypes
  <2>2. ASSUME NEW i \in DOMAIN open
        PROVE  open[i].grad = grad
    <3>1. open # <<>> /\ Len(open) \in DOMAIN open /\ Last(open) = open[Len(open)]
      BY <2>1, EmptySeq DEF Last
    <3> QED BY <1>1, <3>1 DEF OrderInv, OpenOK
  <2> QED BY <1>1, <2>1, <2>2 DEF IsOpen, OrderInv, OpenOK
<1>6. /\ DOMAIN open' = 1 .. (Len(open) + 1)
      /\ \A i \in DOMAIN open : open'[i] = open[i]
      /\ open'[Len(open) + 1] = call
  <2>1. open \in Seq(OpenCall)
    BY OpenAndTodoTypes
  <2>2. /\ open' \in Seq(OpenCall) /\ Len(open') = Len(open) + 1
        /\ \A i \in 1 .. Len(open) : open'[i] = open[i]
        /\ open'[Len(open) + 1] = call
    BY <1>1, <1>2, <2>1, AppendProperties
  <2> QED BY <1>5, <2>2, LenProperties
<1>7. \A n \in DOMAIN gs :
        /\ \A q \in DOMAIN gs[n] : gs[n][q].id \in Nat /\ gs[n][q].id < call.id
        /\ \A r \in Leaves(gs[n]) : ~gs[n][r].flag => gs[n][r].bucket # call.bucket
  BY <1>1, <1>2, <1>3, <1>4
<1>8. /\ \A n \in DOMAIN graphs' :
           /\ GraphOK(graphs'[n]) /\ CallOpen(call, graphs'[n])
           /\ \A q \in DOMAIN graphs'[n] : graphs'[n][q].id <= forwards'
           /\ \A r \in Leaves(graphs'[n]) : ~graphs'[n][r].flag =>
                graphs'[n][r].bucket \in Unhooked
           /\ \A i \in DOMAIN open : CallOpen(open[i], graphs'[n])
      /\ grad => /\ graphs' # <<>> /\ Entered(call, Last(graphs'))
                 /\ \A i \in DOMAIN open : Entered(open[i], Last(graphs'))
  <2>1. CASE ~grad
    <3>1. graphs' = gs
      BY <1>1, <2>1
    <3>2. ASSUME NEW n \in DOMAIN gs
          PROVE  /\ CallOpen(call, gs[n])
                 /\ \A q \in DOMAIN gs[n] : gs[n][q].id <= forwards'
      <4>1. CallOpen(call, gs[n])
        BY <1>2, <1>4, <1>7, CallOpens
      <4>2. \A q \in DOMAIN gs[n] : gs[n][q].id <= forwards'
        BY <1>1, <1>2, <1>3
      <4> QED BY <4>1, <4>2
    <3> QED BY <1>3, <2>1, <3>1, <3>2
  <2>2. CASE grad
    <3> DEFINE hs == Recorded(gs, e)
    <3>1. graphs' = hs /\ gs # <<>>
      BY <1>1, <2>2
    <3>2. /\ hs # <<>> /\ Entered(call, Last(hs)) /\ DOMAIN hs = DOMAIN gs
          /\ \A n \in DOMAIN hs :
               /\ GraphOK(hs[n]) /\ CallOpen(call, hs[n])
               /\ \A q \in DOMAIN hs[n] : hs[n][q].id <= call.id
               /\ \A r \in Leaves(hs[n]) : r \in Leaves(gs[n]) /\ hs[n][r] = gs[n][r]
          /\ \A other :
               /\ other.id # call.id /\ other.bucket # call.bucket
               => /\ Entered(other, Last(gs)) => Entered(other, Last(hs))
                  /\ \A n \in DOMAIN hs : CallOpen(other, gs[n]) => CallOpen(other, hs[n])
      <4>1. /\ gs \in Seq(Seq(Event)) /\ gs # <<>> /\ call \in OpenCall /\ e \in Event
            /\ e.kind = "enter" /\ e.id = call.id /\ e.bucket = call.bucket
        BY <1>2, <1>3, <1>4, <3>1
      <4>2. \A n \in DOMAIN gs :
              /\ GraphOK(gs[n])
              /\ \A q \in DOMAIN gs[n] : gs[n][q].id \in Nat /\ gs[n][q].id < call.id
              /\ \A r \in Leaves(gs[n]) : ~gs[n][r].flag => gs[n][r].bucket # call.bucket
        BY <1>3, <1>7
      <4> QED BY <4>1, <4>2, CallBegins
    <3> HIDE DEF hs
    <3>3. \A i \in DOMAIN open : open[i].id # call.id /\ open[i].bucket # call.bucket
      BY <1>1, <1>2, <1>4, <1>5
    <3>4. \A i \in DOMAIN open : /\ Entered(open[i], Last(hs))
                                 /\ \A n \in DOMAIN hs : CallOpen(open[i], hs[n])
      BY <1>3, <1>5, <2>2, <3>2, <3>3
    <3>5. DOMAIN graphs' = DOMAIN gs /\ graphs' # <<>> /\ Entered(call, Last(graphs'))
      BY <3>1, <3>2
    <3>6. ASSUME NEW n \in DOMAIN graphs'
          PROVE  /\ GraphOK(graphs'[n]) /\ CallOpen(call, graphs'[n])
                 /\ \A q \in DOMAIN graphs'[n] : graphs'[n][q].id <= forwards'
                 /\ \A r \in Leaves(graphs'[n]) : r \in Leaves(gs[n]) /\ graphs'[n][r] = gs[n][r]
      BY <1>4, <3>1, <3>2
    <3>7. ASSUME NEW n \in DOMAIN graphs', NEW r \in Leaves(graphs'[n]), ~graphs'[n][r].flag
          PROVE  graphs'[n][r].bucket \in Unhooked
      BY <1>3, <3>5, <3>6, <3>7
    <3> QED BY <3>1, <3>4, <3>5, <3>6, <3>7
  <2> QED BY <2>1, <2>2
<1>9. \A i \in DOMAIN open' : i \in DOMAIN open \/ i = Len(open) + 1
  BY <1>5, <1>6
<1>10. OpenOK'
  <2>1. \A i \in DOMAIN open' : open'[i].id <= forwards'
    BY <1>1, <1>2, <1>4, <1>5, <1>6, <1>9
  <2>2. ASSUME NEW i \in DOMAIN open', NEW j \in DOMAIN open', i < j
        PROVE  open'[i].id < open'[j].id
    <3>1. i \in DOMAIN open
      BY <1>5, <1>6, <2>2
    <3>2. CASE j \in DOMAIN open
      BY <1>6, <2>2, <3>1, <3>2 DEF OrderInv, OpenOK
    <3>3. CASE j = Len(open) + 1
      BY <1>1, <1>2, <1>4, <1>5, <1>6, <3>1, <3>3
    <3> QED BY <1>9, <3>2, <3>3
  <2>3. \A i, j \in DOMAIN open' : open'[i].grad = open'[j].grad
    BY <1>4, <1>5, <1>6, <1>9
  <2>4. \A i \in DOMAIN open', n \in DOMAIN graphs' : CallOpen(open'[i], graphs'[n])
    BY <1>6, <1>8, <1>9
  <2>5. \A i \in DOMAIN open' :
          open'[i].grad => graphs' # <<>> /\ Entered(open'[i], Last(graphs'))
    BY <1>4, <1>5, <1>6, <1>8, <1>9
  <2> QED BY <1>8, <2>1, <2>2, <2>3, <2>4, <2>5 DEF OpenOK
<1>11. HeldOK'
  <2>1. Unhooked' \subseteq Unhooked
    <3>1. ASSUME NEW c \in Unhooked'
          PROVE  \E n \in DOMAIN graphs' : \E r \in Leaves(graphs'[n]) :
                   ~graphs'[n][r].flag /\ graphs'[n][r].bucket = c
      BY DEF Unhooked, Leaves
    <3> QED BY <1>8, <3>1
  <2>2. StillUnsharded(rt, rt')
    BY PreForwardGathers DEF OnlyGathers, StillUnsharded
  <2>3. \A c \in Unhooked' : rt'.bucket[c].is_unsharded
    BY <2>1, <2>2 DEF OrderInv, HeldOK, StillUnsharded, Unhooked
  <2>4. todo' = <<>>
    BY <1>1 DEF OrderInv, HeldOK
  <2> QED BY <1>1, <2>3, <2>4, HeldOutsideBackward
<1>12. TodoOK(todo')
  BY <1>1 DEF OrderInv
<1> QED BY <1>8, <1>10, <1>11, <1>12 DEF OrderInv

\* The event a call records as it ends: the graphs stay in order, and so do the other
\* calls.
LEMMA CallEnds ==
  ASSUME NEW gs \in Seq(Seq(Event)), gs # <<>>, NEW call \in OpenCall, NEW e \in Event,
         e.kind = "exit", e.id = call.id, e.bucket = call.bucket,
         ~e.flag => e.bucket \notin Defers, Entered(call, Last(gs)),
         \A n \in DOMAIN gs : GraphOK(gs[n]) /\ CallOpen(call, gs[n])
  PROVE  LET hs == Recorded(gs, e)
         IN  /\ hs # <<>> /\ DOMAIN hs = DOMAIN gs
             /\ \A n \in DOMAIN hs :
                  /\ GraphOK(hs[n])
                  /\ \A q \in DOMAIN hs[n] :
                       hs[n][q] = e \/ (q \in DOMAIN gs[n] /\ hs[n][q] = gs[n][q])
             /\ \A other :
                  /\ other.id # call.id /\ other.bucket # call.bucket
                  => /\ Entered(other, Last(gs)) => Entered(other, Last(hs))
                     /\ \A n \in DOMAIN hs : CallOpen(other, gs[n]) => CallOpen(other, hs[n])
<1> DEFINE hs == Recorded(gs, e)
           n0 == Len(gs)
<1>1. /\ hs # <<>> /\ n0 \in DOMAIN gs /\ DOMAIN hs = DOMAIN gs
      /\ Last(hs) = hs[n0] /\ Last(gs) = gs[n0]
      /\ \A i \in DOMAIN gs : i # n0 => hs[i] = gs[i]
      /\ Follows(hs[n0], gs[n0], e)
  BY RecordedFacts
<1>2. call.id \in Nat
  BY DEF OpenCall
<1> HIDE DEF hs, n0
<1>3. GraphOK(hs[n0])
  <2>1. \A i \in DOMAIN gs[n0] : gs[n0][i].id \in Nat
    BY <1>1, EventFacts
  <2>2. /\ \A i \in DOMAIN gs[n0] : gs[n0][i].id = e.id => gs[n0][i].bucket = e.bucket
        /\ \A i \in Enters(gs[n0]) : gs[n0][i].bucket = e.bucket => gs[n0][i].id <= e.id
        /\ \A r \in Leaves(gs[n0]) : ~gs[n0][r].flag => gs[n0][r].bucket # e.bucket
    BY <1>1 DEF CallOpen
  <2>3. \E p \in Enters(gs[n0]) : gs[n0][p].id = e.id
    BY <1>1 DEF Entered
  <2> QED BY <1>1, <1>2, <2>1, <2>2, <2>3, ExitKeepsGraph
<1>4. \A q \in DOMAIN hs[n0] :
        hs[n0][q] = e \/ (q \in DOMAIN gs[n0] /\ hs[n0][q] = gs[n0][q])
  BY <1>1, FollowsElements
<1>5. ASSUME NEW n \in DOMAIN hs
      PROVE  /\ GraphOK(hs[n])
             /\ \A q \in DOMAIN hs[n] :
                  hs[n][q] = e \/ (q \in DOMAIN gs[n] /\ hs[n][q] = gs[n][q])
  <2>1. CASE n = n0
    BY <1>3, <1>4, <2>1
  <2>2. CASE n # n0
    BY <1>1, <2>2
  <2> QED BY <2>1, <2>2
<1>6. ASSUME NEW other, other.id # call.id, other.bucket # call.bucket
      PROVE  /\ Entered(other, Last(gs)) => Entered(other, Last(hs))
             /\ \A n \in DOMAIN hs : CallOpen(other, gs[n]) => CallOpen(other, hs[n])
  <2>1. Entered(other, Last(gs)) => Entered(other, Last(hs))
    BY <1>1, StaysEntered
  <2>2. CallOpen(other, gs[n0]) => CallOpen(other, hs[n0])
    BY <1>1, <1>6, CallStaysOpen
  <2> QED BY <1>1, <2>1, <2>2
<1> QED BY <1>1, <1>5, <1>6 DEF hs

\* post_forward_hook() reshards its bucket at most, and not if the outputs are hidden.
LEMMA PostForwardEffect ==
  ASSUME IInv, NEW result \in ResultNames, PostForward(result), Last(open).bucket \in Bucket
  PROVE  LET b == Last(open).bucket
         IN  /\ \A c \in Bucket : c # b => rt'.bucket[c] = rt.bucket[c]
             /\ result = "opaque" => rt'.bucket[b].is_unsharded = rt.bucket[b].is_unsharded
<1> DEFINE call == Last(open)
           b == call.bucket
           s1 == [rt EXCEPT !.post_forward_order = Record(@, b)]
           k0 == s1.bucket[b]
<1>1. Sound(s1) /\ s1.bucket = rt.bucket
  BY InvFacts, RecordPostForwardSound
<1>2. rt' = CASE result = "none" -> [s1 EXCEPT !.bucket[b] = Reshard(k0)]
             [] result = "opaque" -> [s1 EXCEPT !.bucket[b] = Called(k0, FALSE)]
             [] OTHER ->
                  [s1 EXCEPT !.bucket[b] =
                     IF b \in ReshardAfterForward /\ result # "view"
                     THEN Reshard(Called(k0, call.has_trigger))
                     ELSE Called(k0, call.has_trigger)]
  BY DEF PostForward
<1>3. /\ s1 \in Runtime /\ s1.bucket \in [Bucket -> BucketState] /\ k0 \in BucketState
      /\ k0 = rt.bucket[b]
  BY <1>1 DEF Sound, Runtime
<1>4. Called(k0, FALSE).is_unsharded = k0.is_unsharded
  BY <1>3 DEF Called, BucketState
<1> HIDE DEF s1, k0, b, call
<1>5. PICK k : /\ rt' = [s1 EXCEPT !.bucket[b] = k]
               /\ result = "opaque" => k = Called(k0, FALSE)
  <2>1. \/ result = "none" \/ result = "opaque"
        \/ result # "none" /\ result # "opaque"
    OBVIOUS
  <2> QED BY <1>2, <2>1
<1>6. rt'.bucket = [s1.bucket EXCEPT ![b] = k]
  BY <1>3, <1>5 DEF Runtime
<1>7. b \in Bucket
  BY DEF b, call
<1>8. rt'.bucket[b] = k /\ \A c \in Bucket : c # b => rt'.bucket[c] = rt.bucket[c]
  BY <1>1, <1>3, <1>6, <1>7
<1> QED BY <1>3, <1>4, <1>5, <1>8 DEF b, call

\* The post-forward hook keeps it.
LEMMA PostForwardKeepsOrder ==
  ASSUME IInv, IInv', OrderInv, Hooked, NEW result \in ResultNames, PostForward(result)
  PROVE  OrderInv'
<1> DEFINE call == Last(open)
           b == call.bucket
           e == [kind |-> "exit", bucket |-> b, id |-> call.id, flag |-> result # "opaque"]
<1>1. /\ phase = "idle" /\ phase' = "idle" /\ open # <<>> /\ todo' = todo
      /\ forwards' = forwards /\ open' = Front(open)
      /\ graphs' = IF result = "none" THEN graphs ELSE Recorded(graphs, e)
      /\ result \in (IF call.grad THEN Results[b] ELSE {"none"})
  BY DEF PostForward
<1>2. /\ Len(open) \in DOMAIN open /\ Len(open) \in Nat /\ DOMAIN open = 1 .. Len(open)
      /\ call = open[Len(open)]
      /\ \A i \in DOMAIN open : open[i].id \in Nat /\ open[i].bucket \in Bucket
  BY <1>1, OpenAndTodoTypes, EmptySeq DEF Last
<1>3. call \in OpenCall /\ b \in Bucket /\ call.id \in Nat /\ e \in Event
  <2>1. call \in OpenCall
    BY <1>2, SeqElements DEF IInv, TypeOK
  <2> QED BY <2>1 DEF OpenCall, Event
<1>4. /\ DOMAIN open' = 1 .. (Len(open) - 1)
      /\ \A i \in DOMAIN open' : open'[i] = open[i]
  BY <1>1, FrontFacts DEF IInv, TypeOK
<1>5. ASSUME NEW i \in DOMAIN open'
      PROVE  /\ i \in DOMAIN open /\ i < Len(open)
             /\ open[i].id # call.id /\ open[i].bucket # b
  <2>1. i \in DOMAIN open /\ i < Len(open)
    BY <1>2, <1>4
  <2>2. open[i].id < call.id
    BY <1>2, <2>1 DEF OrderInv, OpenOK
  <2>3. open[i].bucket # b
    BY <1>2, <2>1 DEF IInv, OpenUnsharded
  <2> QED BY <1>2, <1>3, <2>1, <2>2, <2>3
<1>6. /\ \A c \in Bucket : c # b => rt'.bucket[c] = rt.bucket[c]
      /\ result = "opaque" => rt'.bucket[b].is_unsharded
  <2>1. rt.bucket[b].is_unsharded
    BY <1>2 DEF IInv, OpenUnsharded
  <2> QED BY <1>3, <2>1, PostForwardEffect
<1>7. /\ e.kind = "exit" /\ e.id = call.id /\ e.bucket = b /\ e.flag = (result # "opaque")
  OBVIOUS
<1>8. \A n \in DOMAIN graphs : GraphOK(graphs[n]) /\ CallOpen(call, graphs[n])
  BY <1>2 DEF OrderInv, OpenOK
<1>9. ~e.flag => b \notin Defers
  BY <1>1, <1>3, <1>7 DEF Hooked
<1>10. result # "none" => graphs # <<>> /\ Entered(call, Last(graphs))
  BY <1>1, <1>2 DEF OrderInv, OpenOK
<1>11. graphs \in Seq(Seq(Event))
  BY DEF IInv, TypeOK
<1> HIDE DEF e, b, call
<1>12. /\ \A n \in DOMAIN graphs' :
           /\ GraphOK(graphs'[n]) /\ n \in DOMAIN graphs
           /\ \A q \in DOMAIN graphs'[n] :
                \/ graphs'[n][q] = e /\ result # "none"
                \/ q \in DOMAIN graphs[n] /\ graphs'[n][q] = graphs[n][q]
           /\ \A i \in DOMAIN open' : CallOpen(open[i], graphs'[n])
       /\ \A i \in DOMAIN open' :
            open[i].grad => graphs' # <<>> /\ Entered(open[i], Last(graphs'))
  <2>1. CASE result = "none"
    <3>1. graphs' = graphs
      BY <1>1, <2>1 DEF e
    <3> QED BY <1>5, <1>8, <3>1 DEF OrderInv, OpenOK
  <2>2. CASE result # "none"
    <3> DEFINE hs == Recorded(graphs, e)
    <3>1. graphs' = hs
      BY <1>1, <2>2 DEF e, b, call
    <3>2. /\ hs # <<>> /\ DOMAIN hs = DOMAIN graphs
          /\ \A n \in DOMAIN hs :
               /\ GraphOK(hs[n])
               /\ \A q \in DOMAIN hs[n] :
                    hs[n][q] = e \/ (q \in DOMAIN graphs[n] /\ hs[n][q] = graphs[n][q])
          /\ \A other :
               /\ other.id # call.id /\ other.bucket # call.bucket
               => /\ Entered(other, Last(graphs)) => Entered(other, Last(hs))
                  /\ \A n \in DOMAIN hs : CallOpen(other, graphs[n]) => CallOpen(other, hs[n])
      <4>1. graphs # <<>> /\ Entered(call, Last(graphs))
        BY <1>10, <2>2
      <4>2. e.kind = "exit" /\ e.id = call.id /\ e.bucket = call.bucket
            /\ (~e.flag => e.bucket \notin Defers)
        BY <1>7, <1>9 DEF b
      <4> QED BY <1>3, <1>8, <1>11, <4>1, <4>2, CallEnds
    <3> HIDE DEF hs
    <3>3. \A i \in DOMAIN open' : /\ \A n \in DOMAIN hs : CallOpen(open[i], hs[n])
                                  /\ open[i].grad => Entered(open[i], Last(hs))
      <4>1. \A i \in DOMAIN open' :
              i \in DOMAIN open /\ open[i].id # call.id /\ open[i].bucket # call.bucket
        BY <1>5 DEF b
      <4>2. \A i \in DOMAIN open : /\ \A n \in DOMAIN graphs : CallOpen(open[i], graphs[n])
                                   /\ open[i].grad => Entered(open[i], Last(graphs))
        BY DEF OrderInv, OpenOK
      <4> QED BY <3>2, <4>1, <4>2
    <3> QED BY <2>2, <3>1, <3>2, <3>3
  <2> QED BY <2>1, <2>2
<1>13. OpenOK'
  <2>1. ASSUME NEW n \in DOMAIN graphs', NEW q \in DOMAIN graphs'[n]
        PROVE  graphs'[n][q].id <= forwards'
    <3>1. call.id <= forwards
      BY <1>2 DEF OrderInv, OpenOK
    <3>2. CASE graphs'[n][q] = e
      BY <1>1, <1>7, <3>1, <3>2
    <3>3. CASE q \in DOMAIN graphs[n] /\ graphs'[n][q] = graphs[n][q]
      BY <1>1, <1>12, <3>3 DEF OrderInv, OpenOK
    <3> QED BY <1>12, <3>2, <3>3
  <2>2. /\ \A i \in DOMAIN open' : open'[i].id <= forwards'
        /\ \A i, j \in DOMAIN open' : i < j => open'[i].id < open'[j].id
        /\ \A i, j \in DOMAIN open' : open'[i].grad = open'[j].grad
    BY <1>1, <1>4, <1>5 DEF OrderInv, OpenOK
  <2> QED BY <1>4, <1>12, <2>1, <2>2 DEF OpenOK
<1>14. ASSUME NEW c \in Unhooked'
       PROVE  rt'.bucket[c].is_unsharded
  <2>0. PICK n \in DOMAIN graphs' : \E r \in DOMAIN graphs'[n] :
          graphs'[n][r].kind = "exit" /\ graphs'[n][r].bucket = c /\ ~graphs'[n][r].flag
    BY DEF Unhooked
  <2>1. PICK r \in DOMAIN graphs'[n] :
          graphs'[n][r].kind = "exit" /\ graphs'[n][r].bucket = c /\ ~graphs'[n][r].flag
    BY <2>0
  <2>2. CASE graphs'[n][r] = e /\ result # "none"
    BY <1>6, <1>7, <2>1, <2>2
  <2>3. CASE r \in DOMAIN graphs[n] /\ graphs'[n][r] = graphs[n][r]
    <3>1. n \in DOMAIN graphs /\ r \in Leaves(graphs[n])
      BY <1>12, <2>1, <2>3 DEF Leaves
    <3>2. c \in Unhooked /\ c \in Bucket
      BY <2>1, <2>3, <3>1, UnhookedFacts DEF Unhooked
    <3>3. c # b
      BY <1>8, <2>1, <2>3, <3>1 DEF CallOpen, b
    <3> QED BY <1>6, <3>2, <3>3 DEF OrderInv, HeldOK
  <2> QED BY <1>12, <2>2, <2>3
<1>15. todo' = <<>> /\ TodoOK(todo')
  BY <1>1, EmptyTodo DEF OrderInv, HeldOK
<1>16. HeldOK'
  BY <1>1, <1>14, <1>15, HeldOutsideBackward
<1> QED BY <1>12, <1>13, <1>15, <1>16 DEF OrderInv

LEMMA NextOrder ==
  ASSUME IInv, IInv', OrderInv, Hooked, [Next]_vars
  PROVE  OrderInv'
<1>1. CASE UNCHANGED vars
  BY <1>1, OrderIfStillUnsharded DEF vars, StillUnsharded
<1>2. CASE EngineStep
  BY <1>2, ReachOutputsKeepsOrder, ReachInputsKeepsOrder, QuietKeepsOrder DEF EngineStep
<1>3. CASE Next /\ ~EngineStep
  <2>1. CASE \E b \in Bucket, grad, fresh \in BOOLEAN : PreForward(b, grad, fresh)
    BY <2>1, PreForwardKeepsOrder
  <2>2. CASE \E result \in ResultNames : PostForward(result)
    BY <2>2, PostForwardKeepsOrder
  <2>3. CASE \E i \in DOMAIN graphs :
               \E used \in SUBSET Exits(graphs[i]) : StartBackward(i, used)
    BY <2>3, StartBackwardKeepsOrder
  <2>4. CASE \E b \in Bucket : FinishDeferredBackward(b)
    BY <2>4, FinishDeferredBackwardKeepsOrder
  <2>5. CASE (\E i \in DOMAIN graphs : DropGraph(i)) \/ ResetContext \/ BackwardRaises
    BY <2>5, DroppingKeepsOrder
  <2> QED BY <1>3, <2>1, <2>2, <2>3, <2>4, <2>5, QuietKeepsOrder DEF Next
<1> QED BY <1>1, <1>2, <1>3

\* The events come in order, and whoever needs its params without a hook that
\* gathers them finds them unsharded.
THEOREM EventsInOrder == Hooked => (Spec => []OrderInv)
<1> SUFFICES ASSUME Hooked PROVE Spec => []OrderInv
  OBVIOUS
<1>1. Init => OrderInv
  BY InitOrder
<1>2. IInv /\ IInv' /\ OrderInv /\ [Next]_vars => OrderInv'
  BY NextOrder
<1> QED BY <1>1, <1>2, Invariance, PTL DEF Spec

\* A running module's params have their storage: nothing (another bucket's hook,
\* another call's trigger, a callback, a prefetch released) frees what its forward or
\* its backward still reads, when no deferring bucket hides its outputs and the
\* program uses no bucket that awaits the backward of hidden outputs.
THEOREM NothingReadIsFreed == Hooked => (Spec => []NoFreedRead)
<1> SUFFICES ASSUME Hooked PROVE Spec => []NoFreedRead
  OBVIOUS
<1>1. IInv /\ OrderInv => NoFreedRead
  <2> SUFFICES ASSUME IInv, OrderInv, NEW b \in InUse
               PROVE  rt.bucket[b].is_unsharded /\ rt.bucket[b].alloc
    BY DEF NoFreedRead
  <2>1. b \in Bucket
    BY OpenAndTodoTypes DEF InUse
  <2>2. rt.bucket[b].is_unsharded
    BY DEF OrderInv, HeldOK
  <2> QED BY <2>1, <2>2 DEF IInv, Sound, Accounted, AccountedFor
<1> QED BY <1>1, EventsInOrder, Invariance, PTL

\* A running module computes with the current weights, under the same condition:
\* never with ones gathered before an optimizer step, and with ones older than a
\* checkpoint load only if their gather was in flight over the load.
THEOREM ReadsCurrentWeights == Hooked => (Spec => []CurrentWeights)
<1> SUFFICES ASSUME Hooked PROVE Spec => []CurrentWeights
  OBVIOUS
<1>1. IInv /\ OrderInv /\ WeightsInv => CurrentWeights
  <2> SUFFICES ASSUME IInv, OrderInv, WeightsInv, NEW b \in InUse
               PROVE  Current(b, rt.bucket[b].held)
    BY DEF CurrentWeights
  <2>1. b \in Bucket
    BY OpenAndTodoTypes DEF InUse
  <2>2. rt.bucket[b].is_unsharded
    BY DEF OrderInv, HeldOK
  <2> QED BY <2>1, <2>2 DEF WeightsInv, UpToDate
<1> QED BY <1>1, EventsInOrder, WeightsUpToDate, Invariance, PTL

(***************************************************************************)
(* What becomes of every grad, for every value of the constants of         *)
(* BucketRuntime whose program leaves finalization to the runtime: each    *)
(* one is reduced exactly once before the optimizer steps (ReadyForStep),  *)
(* and an explicit finalization leaves none behind (FinalizeReducesAll).   *)
(*                                                                         *)
(* First that every call carries the hook and the trigger this needs; then *)
(* where each bucket's grads are while a backward runs, is finished, or    *)
(* has been; then what each action does to them.                           *)
(***************************************************************************)

-----------------------------------------------------------------------------
(* Hooks and triggers *)

\* The runtime finishes each backward by itself: no manual finalization, outputs
\* whose tensors the hooks see, and inputs that carry the trigger of a deferring
\* bucket, without which finish_buckets does not miss its late grads.
Automatic ==
  /\ Hooked /\ "manual" \notin Calls
  /\ \A b \in Bucket : "opaque" \notin Results[b]
  /\ Defers \cap NoInputGrad = {}

\* The event carries its pre-backward hook, or the trigger of a deferring bucket.
Wired(e) == e.kind = "exit" \/ e.bucket \in Defers => e.flag

WiredEvents(g) == \A i \in DOMAIN g : Wired(g[i])

HooksOK == WiredEvents(todo) /\ \A n \in DOMAIN graphs : WiredEvents(graphs[n])

\* An event added to the newest graph.
LEMMA RecordedWired ==
  ASSUME NEW gs \in Seq(Seq(Event)), gs # <<>>, NEW e \in Event, Wired(e),
         \A n \in DOMAIN gs : WiredEvents(gs[n])
  PROVE  \A n \in DOMAIN Recorded(gs, e) : WiredEvents(Recorded(gs, e)[n])
<1> DEFINE hs == Recorded(gs, e)
           m == Len(gs)
<1>1. /\ m \in DOMAIN gs /\ DOMAIN hs = DOMAIN gs
      /\ \A i \in DOMAIN gs : i # m => hs[i] = gs[i]
      /\ Follows(hs[m], gs[m], e)
  BY RecordedFacts
<1> HIDE DEF hs, m
<1>2. WiredEvents(hs[m])
  <2>1. \A i \in DOMAIN hs[m] : hs[m][i] = e \/ (i \in DOMAIN gs[m] /\ hs[m][i] = gs[m][i])
    BY <1>1 DEF Follows
  <2> QED BY <1>1, <2>1 DEF WiredEvents
<1> QED BY <1>1, <1>2 DEF hs

\* The events of a forward call are wired.
LEMMA ForwardWired ==
  ASSUME Automatic, IInv, OrderInv, HooksOK,
         \/ \E b \in Bucket, grad, fresh \in BOOLEAN : PreForward(b, grad, fresh)
         \/ \E result \in ResultNames : PostForward(result)
  PROVE  HooksOK'
<1>1. graphs \in Seq(Seq(Event)) /\ forwards \in Nat
  BY DEF IInv, TypeOK
<1>2. ASSUME NEW b \in Bucket, NEW grad \in BOOLEAN, NEW fresh \in BOOLEAN,
             PreForward(b, grad, fresh)
      PROVE  HooksOK'
  <2> DEFINE gs == IF fresh THEN Append(graphs, <<>>) ELSE graphs
             e == [kind |-> "enter", bucket |-> b, id |-> forwards',
                   flag |-> grad /\ b \notin NoInputGrad]
  <2>1. /\ todo' = todo /\ forwards' = forwards + 1
        /\ grad => gs # <<>>
        /\ graphs' = IF grad THEN Recorded(gs, e) ELSE gs
    BY <1>2 DEF PreForward
  <2>2. gs \in Seq(Seq(Event))
    BY <1>2, GraphsForCall DEF Automatic
  <2>3. \A n \in DOMAIN gs : WiredEvents(gs[n])
    <3>1. CASE fresh
      <4>1. \A n \in DOMAIN gs : gs[n] = <<>> \/ (n \in DOMAIN graphs /\ gs[n] = graphs[n])
        BY <1>1, <3>1, AppendProperties, LenProperties, EmptySeq
      <4>2. WiredEvents(<<>>)
        BY EmptySeq DEF WiredEvents
      <4> QED BY <4>1, <4>2 DEF HooksOK
    <3>2. CASE ~fresh
      BY <3>2 DEF HooksOK
    <3> QED BY <3>1, <3>2
  <2>4. e \in Event /\ (grad => Wired(e))
    BY <1>1, <2>1 DEF Event, Wired, Automatic
  <2> HIDE DEF gs, e
  <2>5. \A n \in DOMAIN graphs' : WiredEvents(graphs'[n])
    BY <2>1, <2>2, <2>3, <2>4, RecordedWired
  <2> QED BY <2>1, <2>5 DEF HooksOK
<1>3. ASSUME NEW result \in ResultNames, PostForward(result)
      PROVE  HooksOK'
  <2> DEFINE call == Last(open)
             e == [kind |-> "exit", bucket |-> call.bucket, id |-> call.id,
                   flag |-> result # "opaque"]
  <2>1. /\ todo' = todo /\ open # <<>>
        /\ result \in (IF call.grad THEN Results[call.bucket] ELSE {"none"})
        /\ graphs' = IF result = "none" THEN graphs ELSE Recorded(graphs, e)
    BY <1>3 DEF PostForward
  <2>2. Len(open) \in DOMAIN open /\ call = open[Len(open)]
    BY <2>1, OpenAndTodoTypes, EmptySeq DEF Last
  <2>3. call.bucket \in Bucket /\ call.id \in Nat /\ call.grad \in BOOLEAN
    BY <2>2, OpenAndTodoTypes
  <2>4. result # "opaque" /\ (result # "none" => graphs # <<>>)
    BY <2>1, <2>2, <2>3 DEF Automatic, OrderInv, OpenOK
  <2>5. e \in Event /\ Wired(e)
    BY <2>3, <2>4 DEF Event, Wired
  <2> HIDE DEF e, call
  <2>6. \A n \in DOMAIN graphs' : WiredEvents(graphs'[n])
    BY <1>1, <2>1, <2>4, <2>5, RecordedWired DEF HooksOK
  <2> QED BY <2>1, <2>6 DEF HooksOK
<1> QED BY <1>2, <1>3

\* A backward reaches the events of a graph.
LEMMA StartBackwardWired ==
  ASSUME IInv, HooksOK, NEW i \in DOMAIN graphs, NEW used \in SUBSET Exits(graphs[i]),
         StartBackward(i, used)
  PROVE  HooksOK'
<1>1. graphs \in Seq(Seq(Event)) /\ graphs[i] \in Seq(Event)
  BY EventFacts DEF IInv, TypeOK
<1>2. todo' = Walk(graphs[i], used) /\ graphs' = RemoveAt(graphs, i)
  BY DEF StartBackward
<1>3. \A n \in DOMAIN graphs' : WiredEvents(graphs'[n])
  BY <1>1, <1>2, RemoveAtElements DEF HooksOK
<1>4. PICK n \in Nat : \E m : Traverses(todo', graphs[i], used, n, m)
  BY <1>1, <1>2, WalkFacts
<1>5. PICK m : Traverses(todo', graphs[i], used, n, m)
  BY <1>4
<1>6. \A k \in DOMAIN todo' : m[k] \in DOMAIN graphs[i] /\ todo'[k] = graphs[i][m[k]]
  BY <1>5 DEF Traverses
<1>7. WiredEvents(todo')
  BY <1>6 DEF WiredEvents, HooksOK
<1> QED BY <1>3, <1>7 DEF HooksOK

LEMMA NextWired ==
  ASSUME Automatic, IInv, OrderInv, HooksOK, [Next]_vars
  PROVE  HooksOK'
<1> USE DEF HooksOK
<1>1. WiredEvents(<<>>) /\ \A n \in DOMAIN <<>> : WiredEvents(<<>>[n])
  BY EmptySeq DEF WiredEvents
<1>2. ASSUME ReachOutputs \/ ReachInputs
      PROVE  HooksOK'
  <2>1. todo' = Tail(todo) /\ todo # <<>> /\ graphs' = graphs /\ todo \in Seq(Event)
    BY <1>2 DEF ReachOutputs, ReachInputs, IInv, TypeOK
  <2>2. WiredEvents(todo')
    BY <2>1, TailFacts DEF WiredEvents
  <2> QED BY <2>1, <2>2
<1>3. CASE EndBackward \/ FinishBucket \/ FinishBucketRaises \/ EndCallback \/ EndFinalizeBackward
  BY <1>3 DEF EndBackward, FinishBucket, FinishBucketRaises, EndCallback, EndFinalizeBackward
<1>4. CASE \/ StartFinalizeBackward \/ WaitFinalization \/ StateDict \/ LoadStateDict
           \/ OptimizerStep \/ \E value \in BOOLEAN : SetRequiresGradientSync(value)
           \/ \E value \in BOOLEAN : SetManualBackwardFinalization(value)
  BY <1>4 DEF StartFinalizeBackward, WaitFinalization, StateDict, LoadStateDict,
              OptimizerStep, SetRequiresGradientSync, SetManualBackwardFinalization
<1>5. CASE \E b \in Bucket : \/ Recompute(b) \/ FinishDeferredBackward(b) \/ UnshardBucket(b)
                             \/ PrefetchBucket(b) \/ ReshardBucket(b)
  BY <1>5 DEF Recompute, FinishDeferredBackward, UnshardBucket, PrefetchBucket, ReshardBucket
<1>6. CASE BackwardRaises \/ ResetContext
  BY <1>1, <1>6 DEF BackwardRaises, ResetContext
<1>7. ASSUME NEW i \in DOMAIN graphs, DropGraph(i)
      PROVE  HooksOK'
  <2>1. graphs \in Seq(Seq(Event)) /\ graphs' = RemoveAt(graphs, i) /\ todo' = todo
    BY <1>7 DEF DropGraph, IInv, TypeOK
  <2>2. \A n \in DOMAIN graphs' : WiredEvents(graphs'[n])
    BY <2>1, RemoveAtElements
  <2> QED BY <2>1, <2>2
<1>8. CASE UNCHANGED vars
  BY <1>8 DEF vars
<1> HIDE DEF HooksOK
<1>9. ASSUME NEW i \in DOMAIN graphs, NEW used \in SUBSET Exits(graphs[i]), StartBackward(i, used)
      PROVE  HooksOK'
  BY <1>9, StartBackwardWired
<1>10. CASE \/ \E b \in Bucket, grad, fresh \in BOOLEAN : PreForward(b, grad, fresh)
            \/ \E result \in ResultNames : PostForward(result)
  BY <1>10, ForwardWired
<1> QED BY <1>2, <1>3, <1>4, <1>5, <1>6, <1>7, <1>8, <1>9, <1>10 DEF Next, EngineStep

-----------------------------------------------------------------------------
(* Where the grads are *)

\* A backward raised: the callback it queued will not run, and nothing runs again.
Stuck == phase = "idle" /\ rt.post_backward_callback_queued

\* The callback is queued, to finish the buckets.
Begun == rt.post_backward_callback_queued /\ rt.finish_at_backward_end

\* The running backward has not reached its first pre-backward hook.
Untouched ==
  /\ todo # <<>> /\ todo[1].kind = "exit" /\ ~rt.post_backward_callback_queued
  /\ \A b \in Bucket : /\ due[b] = 0 /\ late[b] = 0
                       /\ rt.bucket[b].kept > 0 => rt.bucket[b].needs_sync

\* A backward that computed grads finishes its buckets, and no step of the optimizer
\* comes between.
BackwardOK ==
  /\ ~rt.manual_backward_finalization
  /\ phase = "backward" => Begun \/ Untouched
  /\ phase = "callback" => Begun
  /\ phase = "finalize" => ~rt.post_backward_callback_queued
  /\ InBackward \/ Stuck => ~ready /\ ~rt.pending_finalization

\* The running backward has still to finish the bucket.
ToFinish(b) == phase = "backward" \/ (phase = "callback" /\ ~Visited(b))

\* finish_buckets is done with the bucket.
Done(b) == (phase \in {"callback", "finalize"} \/ rt.pending_finalization) /\ Visited(b)

\* Each grad owed is in one place.  A bucket with grads on its unsharded params
\* either waits for a syncing backward and knows it, or is unsharded and still to be
\* finished, so that needs_finish() sees it.
GradsKept(b) ==
  LET k == rt.bucket[b]
  IN  /\ owed[b] = k.reduced + k.kept + due[b] + late[b]
      /\ due[b] > 0 => \E p \in Enters(todo) : todo[p].bucket = b
      /\ k.kept > 0 => k.needs_sync \/ (k.is_unsharded /\ ToFinish(b))
      /\ late[b] > 0 =>
           /\ b \in Defers /\ ~ready /\ phase # "finalize" /\ ~rt.pending_finalization
           /\ \/ ToFinish(b) /\ k.is_unsharded /\ k.input_triggers_run > 0
              \/ phase = "idle" /\ k.needs_sync
              \/ phase = "callback" /\ k.needs_sync /\ ~sync[b]
      /\ ready \/ (Done(b) /\ sync[b]) => ~k.needs_sync

\* The reductions the optimizer would read are complete.
ReductionsWaited ==
  ready => rt.reduce_grad_states = <<>> /\ rt.retired_reduce_grad_states = <<>>

GradsOK == BackwardOK /\ (Stuck \/ \A b \in Bucket : GradsKept(b)) /\ ReductionsWaited

-----------------------------------------------------------------------------
(* What each action does to them *)

\* post_backward() reduces the bucket's grads, or marks them as waiting for it.
LEMMA FinishedGrads ==
  ASSUME NEW k \in BucketState, NEW b, NEW reshard \in BOOLEAN, sync[b] \in BOOLEAN
  PROVE  LET j == Finished(k, b, reshard)
         IN  /\ j.needs_sync = ~sync[b]
             /\ j.kept > 0 => ~sync[b]
             /\ j.reduced + j.kept = k.reduced + k.kept
<1> DEFINE k1 == [k EXCEPT !.needs_sync = ~sync[b]]
           k2 == IF reshard /\ k.is_unsharded /\ (sync[b] \/ b \in ReshardAfterBackward)
                 THEN Reshard(k1) ELSE k1
<1>1. /\ k1 \in BucketState /\ k1.needs_sync = ~sync[b] /\ k1.kept = k.kept
      /\ k1.reduced = k.reduced
  BY DEF BucketState
<1>2. ASSUME NEW r \in BucketState
      PROVE  /\ Reshard(r) \in BucketState /\ Reshard(r).needs_sync = r.needs_sync
             /\ Reshard(r).kept = r.kept /\ Reshard(r).reduced = r.reduced
  BY DEF Reshard, Free, BucketState
<1>3. ASSUME NEW r \in BucketState
      PROVE  /\ Reduced(r).needs_sync = r.needs_sync /\ Reduced(r).kept = 0
             /\ Reduced(r).reduced = r.reduced + r.kept
             /\ r.reduced \in Nat /\ r.kept \in Nat
  <2>1. r.reduced \in Nat /\ r.kept \in Nat /\ r.reduced + r.kept \in Nat
    BY DEF BucketState
  <2>2. ASSUME NEW v \in Nat
        PROVE  LET x == [r EXCEPT !.reduced = v, !.kept = 0]
               IN  x.needs_sync = r.needs_sync /\ x.kept = 0 /\ x.reduced = v
    BY DEF BucketState
  <2> QED BY <2>1, <2>2 DEF Reduced
<1> HIDE DEF k1
<1>4. /\ k2 \in BucketState /\ k2.needs_sync = ~sync[b] /\ k2.kept = k.kept
      /\ k2.reduced = k.reduced
  BY <1>1, <1>2
<1> HIDE DEF k2
<1>5. Finished(k, b, reshard) = IF sync[b] THEN Reduced(k2) ELSE k2
  BY DEF Finished, k1, k2
<1>6. k.kept \in Nat /\ k.reduced \in Nat
  BY DEF BucketState
<1>7. CASE sync[b]
  <2>1. Finished(k, b, reshard) = Reduced(k2)
    BY <1>5, <1>7
  <2>2. /\ Reduced(k2).needs_sync = ~sync[b] /\ Reduced(k2).kept = 0
        /\ Reduced(k2).reduced = k.reduced + k.kept
    BY <1>3, <1>4
  <2> QED BY <1>6, <2>1, <2>2
<1>8. CASE ~sync[b]
  BY <1>4, <1>5, <1>8
<1> QED BY <1>7, <1>8

\* t's buckets have the grads of s's; in a backward they are unsharded if s's are.
SameKept(s, t) ==
  \A c \in Bucket :
    /\ t.bucket[c].needs_sync = s.bucket[c].needs_sync
    /\ t.bucket[c].kept = s.bucket[c].kept /\ t.bucket[c].reduced = s.bucket[c].reduced
    /\ InBackward =>
         /\ t.bucket[c].input_triggers_run = s.bucket[c].input_triggers_run
         /\ s.bucket[c].is_unsharded => t.bucket[c].is_unsharded

\* A step that neither computes, moves nor reduces a grad.
LEMMA QuietKeepsGrads ==
  ASSUME GradsOK, SameKept(rt, rt'),
         UNCHANGED <<sync, phase, todo, left, due, late, owed>>,
         rt'.manual_backward_finalization = rt.manual_backward_finalization,
         rt'.post_backward_callback_queued = rt.post_backward_callback_queued,
         rt'.finish_at_backward_end = rt.finish_at_backward_end,
         rt'.pending_finalization => rt.pending_finalization,
         ready' => ready /\ rt'.reduce_grad_states \in {rt.reduce_grad_states, <<>>}
                         /\ rt'.retired_reduce_grad_states
                              \in {rt.retired_reduce_grad_states, <<>>}
  PROVE  GradsOK'
<1>1. BackwardOK'
  <2>1. (Begun \/ Untouched)' <=> Begun \/ Untouched
    BY DEF Begun, Untouched, SameKept
  <2> QED BY <2>1 DEF GradsOK, BackwardOK, Begun, Stuck, InBackward
<1>2. ASSUME NEW c \in Bucket, GradsKept(c)
      PROVE  GradsKept(c)'
  <2>1. /\ Enters(todo)' = Enters(todo) /\ (ToFinish(c)' <=> ToFinish(c))
        /\ (Done(c)' => Done(c)) /\ (ToFinish(c) => InBackward)
    BY DEF Enters, ToFinish, Done, Visited, InBackward
  <2> QED BY <1>2, <2>1 DEF GradsKept, SameKept
<1>3. Stuck' <=> Stuck
  BY DEF Stuck
<1> QED BY <1>1, <1>2, <1>3 DEF GradsOK, ReductionsWaited
\* Gathers, prefetches and releases of prefetches leave the grads alone.
LEMMA GathersKeepGrads ==
  ASSUME NEW s, NEW t, OnlyGathers(s, t)
  PROVE  SameKept(s, t)
BY DEF OnlyGathers, SameGrads, SameKept

\* post_forward_hook() counts its call, and reshards its bucket at most.
LEMMA PostForwardKeepsGrads ==
  ASSUME IInv, GradsOK, NEW result \in ResultNames, PostForward(result)
  PROVE  GradsOK'
<1> DEFINE call == Last(open)
           b == call.bucket
           q == Record(rt.post_forward_order, b)
           s1 == [rt EXCEPT !.post_forward_order = q]
           k0 == s1.bucket[b]
<1>1. /\ rt \in Runtime /\ rt.bucket \in [Bucket -> BucketState] /\ open # <<>>
      /\ phase = "idle"
  BY InvFacts DEF PostForward
<1>2. b \in Bucket
  BY <1>1, OpenAndTodoTypes, EmptySeq DEF Last
<1>3. \E k : /\ rt' = [s1 EXCEPT !.bucket[b] = k]
             /\ k \in {Reshard(k0), Called(k0, FALSE), Called(k0, call.has_trigger),
                       Reshard(Called(k0, call.has_trigger))}
  <2>1. rt' = CASE result = "none" -> [s1 EXCEPT !.bucket[b] = Reshard(k0)]
             [] result = "opaque" -> [s1 EXCEPT !.bucket[b] = Called(k0, FALSE)]
             [] OTHER ->
                  [s1 EXCEPT !.bucket[b] =
                     IF b \in ReshardAfterForward /\ result # "view"
                     THEN Reshard(Called(k0, call.has_trigger))
                     ELSE Called(k0, call.has_trigger)]
    BY DEF PostForward
  <2> HIDE DEF s1, k0, call
  <2> QED BY <2>1
<1>4. s1.bucket = rt.bucket /\ SameFlags(rt, s1) /\ s1 \in Runtime
  <2>1. q \in Seq(Bucket)
    BY <1>1, <1>2, RecordType DEF Runtime
  <2> HIDE DEF q
  <2> QED BY <1>1, <2>1 DEF Runtime, SameFlags
<1>5. k0 \in BucketState /\ k0 = rt.bucket[b]
  BY <1>1, <1>2, <1>4
<1>6. PICK k : /\ rt' = [s1 EXCEPT !.bucket[b] = k]
               /\ k \in {Reshard(k0), Called(k0, FALSE), Called(k0, call.has_trigger),
                         Reshard(Called(k0, call.has_trigger))}
  BY <1>3
<1>7. k.needs_sync = k0.needs_sync /\ k.kept = k0.kept /\ k.reduced = k0.reduced
  <2>1. ASSUME NEW flag
        PROVE  /\ Reshard(k0).needs_sync = k0.needs_sync /\ Reshard(k0).kept = k0.kept
               /\ Reshard(k0).reduced = k0.reduced
               /\ Called(k0, flag).needs_sync = k0.needs_sync /\ Called(k0, flag).kept = k0.kept
               /\ Called(k0, flag).reduced = k0.reduced
               /\ Reshard(Called(k0, flag)).needs_sync = k0.needs_sync
               /\ Reshard(Called(k0, flag)).kept = k0.kept
               /\ Reshard(Called(k0, flag)).reduced = k0.reduced
    <3>1. k0 \in BucketState
      BY <1>5
    <3> HIDE DEF k0
    <3> QED BY <3>1 DEF Reshard, Free, Called, BucketState
  <2> HIDE DEF k0, call
  <2> QED BY <1>6, <2>1
<1> HIDE DEF s1, k0, b
<1>8. rt'.bucket = [rt.bucket EXCEPT ![b] = k] /\ SameFlags(rt, rt')
  BY <1>4, <1>6 DEF Runtime, SameFlags
<1>9. SameKept(rt, rt')
  BY <1>1, <1>2, <1>5, <1>7, <1>8 DEF SameKept, InBackward
<1>10. UNCHANGED <<sync, phase, todo, left, due, late, owed, ready>>
  BY DEF PostForward
<1> QED BY <1>8, <1>9, <1>10, QuietKeepsGrads DEF SameFlags
\* The calls of the program that neither finish a backward nor step keep it.
LEMMA CallsKeepGrads ==
  ASSUME IInv, GradsOK,
         \/ \E b \in Bucket : \/ Recompute(b) \/ UnshardBucket(b) \/ PrefetchBucket(b)
                              \/ ReshardBucket(b)
         \/ \E b \in Bucket, grad, fresh \in BOOLEAN : PreForward(b, grad, fresh)
         \/ ResetContext \/ StateDict \/ LoadStateDict
         \/ \E i \in DOMAIN graphs : DropGraph(i)
  PROVE  GradsOK'
<1>1. Sound(rt) /\ rt \in Runtime /\ rt.bucket \in [Bucket -> BucketState] /\ weights \in Nat
  BY InvFacts
<1>2. ASSUME NEW b \in Bucket, NEW grad \in BOOLEAN, NEW fresh \in BOOLEAN,
             PreForward(b, grad, fresh)
      PROVE  GradsOK'
  <2>1. OnlyGathers(rt, rt')
    BY <1>2, PreForwardGathers
  <2>2. ~ready' /\ UNCHANGED <<sync, phase, todo, left, due, late, owed>>
    BY <1>2 DEF PreForward
  <2> QED BY <2>1, <2>2, GathersKeepGrads, QuietKeepsGrads DEF OnlyGathers, SameFlags
<1>3. ASSUME NEW b \in Bucket, Recompute(b) \/ UnshardBucket(b) \/ PrefetchBucket(b)
      PROVE  GradsOK'
  <2>1. OnlyGathers(rt, rt')
    BY <1>1, <1>3, RecomputeGathers, UnshardGathers, PrefetchGathers
       DEF Recompute, UnshardBucket, PrefetchBucket
  <2>2. UNCHANGED <<sync, phase, todo, left, due, late, owed>> /\ (ready' = ready \/ ~ready')
    <3>1. CASE Recompute(b)
      BY <3>1 DEF Recompute
    <3>2. CASE UnshardBucket(b)
      BY <3>2 DEF UnshardBucket
    <3>3. CASE PrefetchBucket(b)
      BY <3>3 DEF PrefetchBucket
    <3> QED BY <1>3, <3>1, <3>2, <3>3
  <2> QED BY <2>1, <2>2, GathersKeepGrads, QuietKeepsGrads DEF OnlyGathers, SameFlags
<1>4. ASSUME NEW b \in Bucket, ReshardBucket(b)
      PROVE  GradsOK'
  <2> DEFINE s1 == ReleasePrefetches(rt, Pending(rt, b))
             k == Reshard(s1.bucket[b])
             t == [s1 EXCEPT !.bucket[b] = k]
  <2>1. /\ rt' = IF s1.bucket[b].is_unsharded THEN t ELSE s1
        /\ ~InBackward /\ UNCHANGED <<sync, phase, todo, left, due, late, owed, ready>>
    BY <1>4 DEF ReshardBucket, CheckOutsideBackward
  <2>2. Pending(rt, b) \in SUBSET rt.pending_unshards
    BY DEF Pending
  <2>3. Sound(s1) /\ OnlyGathers(rt, s1)
    BY <1>1, <2>2, ReleaseSound, ReleaseGathers
  <2> HIDE DEF s1
  <2>4. s1 \in Runtime /\ s1.bucket \in [Bucket -> BucketState] /\ s1.bucket[b] \in BucketState
    BY <2>3 DEF Sound, Runtime
  <2>5. /\ k.needs_sync = s1.bucket[b].needs_sync /\ k.kept = s1.bucket[b].kept
        /\ k.reduced = s1.bucket[b].reduced
    BY <2>4 DEF Reshard, Free, BucketState
  <2> HIDE DEF k
  <2>6. t.bucket = [s1.bucket EXCEPT ![b] = k] /\ SameFlags(s1, t)
    BY <2>4 DEF Runtime, SameFlags
  <2> HIDE DEF t
  <2>7. SameKept(s1, rt') /\ SameFlags(s1, rt')
    BY <2>1, <2>4, <2>5, <2>6 DEF SameKept, SameFlags
  <2>8. SameKept(rt, s1) /\ SameFlags(rt, s1)
    BY <2>3, GathersKeepGrads DEF OnlyGathers
  <2>9. SameKept(rt, rt') /\ SameFlags(rt, rt')
    BY <2>7, <2>8 DEF SameKept, SameFlags
  <2> QED BY <2>1, <2>9, QuietKeepsGrads DEF SameFlags
<1>5. CASE ResetContext
  <2> DEFINE s1 == ReleasePrefetches(rt, rt.pending_unshards)
             s2 == WaitAndClear(s1)
             s3 == ReshardUnsharded(s2)
             f == [b \in Bucket |-> Uncounted(s3.bucket[b])]
             t == [s3 EXCEPT !.pending_finalization = FALSE, !.bucket = f]
  <2>1. Sound(s1) /\ s1 \in Runtime /\ SameKept(rt, s1) /\ SameFlags(rt, s1)
    BY <1>1, ReleaseSound, ReleaseGathers, GathersKeepGrads DEF OnlyGathers, Sound
  <2> HIDE DEF s1
  <2>2. /\ Sound(s2) /\ s2 \in Runtime /\ s2.bucket = s1.bucket /\ SameContext(s1, s2)
        /\ s2.post_backward_callback_queued = s1.post_backward_callback_queued
        /\ s2.reduce_grad_states = <<>> /\ s2.retired_reduce_grad_states = <<>>
    BY <2>1, WaitAndClearSound, WaitAndClearEffect
  <2> HIDE DEF s2
  <2>3. /\ s3 \in Runtime /\ s3.bucket \in [Bucket -> BucketState] /\ SameFlags(s2, s3)
        /\ \A c \in Bucket : SameGrads(s2.bucket[c], s3.bucket[c])
    <3>1. Sound(s3)
      BY <2>2, ReshardUnshardedSound
    <3>2. SameFlags(s2, s3) /\ \A c \in Bucket : SameGrads(s2.bucket[c], s3.bucket[c])
      BY <2>2, ReshardUnshardedEffect
    <3> QED BY <3>1, <3>2 DEF Sound, Runtime
  <2>4. rt' = t
    BY <1>5 DEF ResetContext, s1, s2
  <2> HIDE DEF s3
  <2>5. \A c \in Bucket : /\ f[c].needs_sync = s3.bucket[c].needs_sync
                          /\ f[c].kept = s3.bucket[c].kept
                          /\ f[c].reduced = s3.bucket[c].reduced
    BY <2>3, UncountedFacts
  <2> HIDE DEF f
  <2>6. /\ t.bucket = f /\ ~t.pending_finalization
        /\ t.manual_backward_finalization = s3.manual_backward_finalization
        /\ t.post_backward_callback_queued = s3.post_backward_callback_queued
        /\ t.finish_at_backward_end = s3.finish_at_backward_end
        /\ t.reduce_grad_states = s3.reduce_grad_states
        /\ t.retired_reduce_grad_states = s3.retired_reduce_grad_states
    BY <2>3 DEF Runtime
  <2> HIDE DEF t
  <2>7. ~InBackward /\ UNCHANGED <<sync, phase, todo, left, due, late, owed, ready>>
    BY <1>5 DEF ResetContext, Between, InBackward
  <2>8. SameKept(rt, rt')
    BY <2>1, <2>2, <2>3, <2>4, <2>5, <2>6, <2>7 DEF SameKept, SameGrads
  <2>9. /\ rt'.reduce_grad_states = <<>> /\ rt'.retired_reduce_grad_states = <<>>
        /\ rt'.manual_backward_finalization = rt.manual_backward_finalization
        /\ rt'.post_backward_callback_queued = rt.post_backward_callback_queued
        /\ rt'.finish_at_backward_end = rt.finish_at_backward_end
        /\ ~rt'.pending_finalization
    BY <2>1, <2>2, <2>3, <2>4, <2>6 DEF SameFlags, SameContext
  <2> QED BY <2>7, <2>8, <2>9, QuietKeepsGrads
<1>6. CASE StateDict \/ LoadStateDict
  <2>1. SameFlags(rt, rt') /\ \A c \in Bucket : SameGrads(rt.bucket[c], rt'.bucket[c])
    BY <1>1, <1>6, ReshardUnshardedEffect DEF StateDict, LoadStateDict
  <2>2. ~InBackward /\ UNCHANGED <<sync, phase, todo, left, due, late, owed, ready>>
    BY <1>6 DEF StateDict, LoadStateDict, Between, InBackward
  <2>3. SameKept(rt, rt')
    BY <2>1, <2>2 DEF SameKept, SameGrads
  <2> QED BY <2>1, <2>2, <2>3, QuietKeepsGrads DEF SameFlags
<1>7. ASSUME NEW i \in DOMAIN graphs, DropGraph(i)
      PROVE  GradsOK'
  <2>1. UNCHANGED <<rt, sync, phase, todo, left, due, late, owed, ready>>
    BY <1>7 DEF DropGraph
  <2> QED BY <2>1, QuietKeepsGrads DEF SameKept
<1> QED BY <1>2, <1>3, <1>4, <1>5, <1>6, <1>7
\* A backward's ends, outside finish_buckets, keep it: what raised leaves it Stuck,
\* what goes on still has every bucket to finish.
LEMMA BackwardEndsKeepGrads ==
  ASSUME IInv, WeightsInv, OrderInv, GradsOK,
         EndBackward \/ BackwardRaises \/ FinishBucketRaises
  PROVE  GradsOK'
<1>1. /\ due \in [Bucket -> Nat] /\ late \in [Bucket -> Nat] /\ todo \in Seq(Event)
  BY InvFacts DEF IInv, TypeOK
<1>2. DOMAIN <<>> = {}
  BY EmptySeq
<1>3. CASE EndBackward
  <2>1. /\ phase = "backward" /\ todo = <<>> /\ Begun /\ ~ready /\ ~rt.pending_finalization
        /\ ~rt.manual_backward_finalization
    BY <1>3 DEF EndBackward, GradsOK, BackwardOK, Untouched, InBackward
  <2>2. /\ phase' = "callback" /\ left' = Registration
        /\ UNCHANGED <<rt, sync, todo, due, late, owed, ready>>
    BY <1>3, <2>1 DEF EndBackward, Begun
  <2>3. \A c \in Bucket : ~Visited(c)'
    <3>1. \A c \in Bucket : \E i \in DOMAIN Registration : Registration[i] = c
      BY ConstantsOK DEF ConstantsOK, ToSet
    <3> QED BY <2>2, <3>1 DEF Visited
  <2>4. BackwardOK' /\ ReductionsWaited'
    BY <2>1, <2>2 DEF BackwardOK, ReductionsWaited, Begun, Stuck, InBackward
  <2>5. ASSUME NEW c \in Bucket
        PROVE  GradsKept(c)'
    <3>1. GradsKept(c) /\ ToFinish(c)' /\ ~Done(c)' /\ ~ready' /\ Enters(todo)' = Enters(todo)
      BY <2>1, <2>2, <2>3 DEF GradsOK, Stuck, ToFinish, Done, Enters
    <3> QED BY <2>1, <2>2, <3>1 DEF GradsKept
  <2> QED BY <2>4, <2>5 DEF GradsOK
<1>4. CASE FinishBucketRaises
  <2>1. /\ phase = "callback" /\ Begun /\ ~ready /\ ~rt.pending_finalization
        /\ phase' = "idle" /\ UNCHANGED <<rt, ready>>
        /\ ~rt.manual_backward_finalization
    BY <1>4 DEF FinishBucketRaises, GradsOK, BackwardOK, InBackward
  <2>2. Stuck' /\ BackwardOK' /\ ReductionsWaited'
    BY <2>1 DEF BackwardOK, ReductionsWaited, Begun, Stuck, InBackward
  <2> QED BY <2>2 DEF GradsOK
<1>5. CASE BackwardRaises
  <2>1. /\ phase = "backward" /\ ~ready /\ ~rt.pending_finalization
        /\ ~rt.manual_backward_finalization
        /\ phase' = "idle" /\ todo' = <<>> /\ due' = [b \in Bucket |-> 0]
        /\ UNCHANGED <<rt, sync, left, late, owed, ready>>
    BY <1>5 DEF BackwardRaises, GradsOK, BackwardOK, InBackward
  <2>2. BackwardOK' /\ ReductionsWaited'
    BY <2>1 DEF BackwardOK, ReductionsWaited, InBackward
  <2>3. CASE Begun
    BY <2>1, <2>2, <2>3 DEF GradsOK, Begun, Stuck
  <2>4. CASE Untouched
    <3>1. ASSUME NEW c \in Bucket
          PROVE  GradsKept(c)'
      <4>1. /\ due[c] = 0 /\ late[c] = 0 /\ due'[c] = 0
            /\ rt.bucket[c].kept > 0 => rt.bucket[c].needs_sync
        BY <2>1, <2>4 DEF Untouched
      <4>2. GradsKept(c) /\ ~Done(c)'
        BY <2>1 DEF GradsOK, Stuck, Done
      <4> QED BY <2>1, <4>1, <4>2 DEF GradsKept
    <3> QED BY <2>2, <3>1 DEF GradsOK
  <2> QED BY <2>1, <2>3, <2>4 DEF GradsOK, BackwardOK
<1> QED BY <1>3, <1>4, <1>5

\* The end of the callback keeps it: every bucket was visited, with gradient sync on
\* the grads of each were reduced.
LEMMA EndCallbackKeepsGrads ==
  ASSUME IInv, WeightsInv, OrderInv, GradsOK, EndCallback
  PROVE  GradsOK'
<1> DEFINE s1 == WaitAndClear(rt)
           s2 == ReleasePrefetches(s1, s1.pending_unshards)
           t == [s2 EXCEPT !.finish_at_backward_end = FALSE,
                           !.post_backward_callback_queued = FALSE]
<1>1. /\ phase = "callback" /\ left = <<>> /\ Begun /\ ~ready /\ ~rt.pending_finalization
      /\ ~rt.manual_backward_finalization
  BY DEF EndCallback, GradsOK, BackwardOK, InBackward
<1>2. /\ rt' = t /\ phase' = "idle" /\ ready' = AllSync
      /\ UNCHANGED <<sync, todo, left, due, late, owed>>
  BY <1>1 DEF EndCallback, Begun, AllSync
<1>3. Sound(rt) /\ rt \in Runtime
  BY InvFacts
<1>4. /\ Sound(s1) /\ s1.bucket = rt.bucket /\ SameContext(rt, s1)
      /\ s1.reduce_grad_states = <<>> /\ s1.retired_reduce_grad_states = <<>>
  BY <1>3, WaitAndClearSound, WaitAndClearEffect
<1> HIDE DEF s1
<1>5. Sound(s2) /\ OnlyGathers(s1, s2)
  BY <1>4, ReleaseSound, ReleaseGathers
<1> HIDE DEF s2
<1>6. /\ t.bucket = s2.bucket /\ ~t.post_backward_callback_queued
      /\ t.manual_backward_finalization = s2.manual_backward_finalization
      /\ t.pending_finalization = s2.pending_finalization
      /\ t.reduce_grad_states = s2.reduce_grad_states
      /\ t.retired_reduce_grad_states = s2.retired_reduce_grad_states
  BY <1>5 DEF Sound, Runtime
<1> HIDE DEF t
<1>7. /\ ~rt'.post_backward_callback_queued /\ ~rt'.pending_finalization
      /\ ~rt'.manual_backward_finalization
      /\ rt'.reduce_grad_states = <<>> /\ rt'.retired_reduce_grad_states = <<>>
      /\ \A c \in Bucket : SameGrads(rt.bucket[c], rt'.bucket[c])
  BY <1>1, <1>2, <1>4, <1>5, <1>6 DEF OnlyGathers, SameFlags, SameContext
<1>8. BackwardOK' /\ ReductionsWaited'
  BY <1>2, <1>7 DEF BackwardOK, ReductionsWaited, Stuck, InBackward
<1>9. ASSUME NEW c \in Bucket
      PROVE  GradsKept(c)'
  <2>1. Visited(c)
    BY <1>1, EmptySeq DEF Visited
  <2>2. GradsKept(c) /\ Done(c) /\ ~ToFinish(c) /\ ~Done(c)' /\ Enters(todo)' = Enters(todo)
    BY <1>1, <1>2, <1>7, <2>1 DEF GradsOK, Stuck, Done, ToFinish, Enters
  <2>3. ready' => sync[c]
    BY <1>2 DEF AllSync
  <2>4. SameGrads(rt.bucket[c], rt'.bucket[c])
    BY <1>7
  <2> QED BY <1>1, <1>2, <1>7, <2>2, <2>3, <2>4 DEF GradsKept, SameGrads
<1> QED BY <1>8, <1>9 DEF GradsOK

\* finalize_backward() and the wait on it, and the program's step, keep it.
LEMMA FinalizationKeepsGrads ==
  ASSUME IInv, WeightsInv, OrderInv, GradsOK,
         \/ StartFinalizeBackward \/ EndFinalizeBackward \/ WaitFinalization
         \/ \E value \in BOOLEAN : SetRequiresGradientSync(value)
  PROVE  GradsOK'
<1>1. /\ Sound(rt) /\ rt \in Runtime /\ late \in [Bucket -> Nat]
      /\ ~rt.manual_backward_finalization
  BY InvFacts DEF GradsOK, BackwardOK
<1>2. CASE StartFinalizeBackward
  <2>1. /\ phase = "idle" /\ ~rt.post_backward_callback_queued /\ ~rt.pending_finalization
        /\ NoLateGrads /\ phase' = "finalize" /\ left' = Reverse(ModuleOrder)
        /\ UNCHANGED <<rt, sync, todo, due, late, owed, ready>>
    BY <1>2 DEF StartFinalizeBackward, Between, CheckOutsideBackward, NoRaisedBackward
  <2>2. \A c \in Bucket : ~Visited(c)'
    BY <2>1, ConstantsOK, ReverseCovers DEF Visited, ConstantsOK
  <2>3. BackwardOK' /\ ReductionsWaited'
    BY <1>1, <2>1 DEF GradsOK, BackwardOK, ReductionsWaited, Stuck, InBackward
  <2>4. ASSUME NEW c \in Bucket
        PROVE  GradsKept(c)'
    <3>1. /\ GradsKept(c) /\ ~ToFinish(c) /\ late[c] = 0 /\ ~Done(c)'
          /\ Enters(todo)' = Enters(todo)
      BY <2>1, <2>2 DEF GradsOK, Stuck, ToFinish, Done, NoLateGrads, Enters
    <3> QED BY <2>1, <3>1 DEF GradsKept
  <2> QED BY <2>3, <2>4 DEF GradsOK
<1>3. CASE EndFinalizeBackward
  <2> DEFINE s1 == ReleasePrefetches(rt, rt.pending_unshards)
             t == [s1 EXCEPT !.pending_finalization = TRUE]
  <2>1. /\ phase = "finalize" /\ phase' = "idle" /\ rt' = t
        /\ UNCHANGED <<sync, todo, left, due, late, owed, ready>>
        /\ ~rt.post_backward_callback_queued
    BY <1>3 DEF EndFinalizeBackward, GradsOK, BackwardOK
  <2>2. Sound(s1) /\ OnlyGathers(rt, s1)
    BY <1>1, ReleaseSound, ReleaseGathers
  <2> HIDE DEF s1
  <2>3. /\ t.bucket = s1.bucket /\ t.pending_finalization
        /\ t.post_backward_callback_queued = s1.post_backward_callback_queued
        /\ t.manual_backward_finalization = s1.manual_backward_finalization
        /\ t.reduce_grad_states = s1.reduce_grad_states
        /\ t.retired_reduce_grad_states = s1.retired_reduce_grad_states
    BY <2>2 DEF Sound, Runtime
  <2> HIDE DEF t
  <2>4. /\ rt'.pending_finalization /\ ~rt'.post_backward_callback_queued
        /\ ~rt'.manual_backward_finalization
        /\ rt'.reduce_grad_states = rt.reduce_grad_states
        /\ rt'.retired_reduce_grad_states = rt.retired_reduce_grad_states
        /\ \A c \in Bucket : SameGrads(rt.bucket[c], rt'.bucket[c])
    BY <1>1, <2>1, <2>2, <2>3 DEF OnlyGathers, SameFlags
  <2>5. BackwardOK' /\ ReductionsWaited'
    BY <2>1, <2>4 DEF GradsOK, BackwardOK, ReductionsWaited, Stuck, InBackward
  <2>6. ASSUME NEW c \in Bucket
        PROVE  GradsKept(c)'
    <3>1. /\ GradsKept(c) /\ ~ToFinish(c) /\ (Done(c)' => Done(c))
          /\ Enters(todo)' = Enters(todo)
      BY <2>1 DEF GradsOK, Stuck, ToFinish, Done, Visited, Enters
    <3>2. late[c] = 0
      BY <1>1, <2>1, <3>1 DEF GradsKept
    <3>3. SameGrads(rt.bucket[c], rt'.bucket[c])
      BY <2>4
    <3> QED BY <2>1, <3>1, <3>2, <3>3 DEF GradsKept, SameGrads
  <2> QED BY <2>5, <2>6 DEF GradsOK
<1>4. CASE WaitFinalization
  <2> DEFINE s1 == WaitAndClear(rt)
             t == [s1 EXCEPT !.pending_finalization = FALSE]
  <2>1. /\ phase = "idle" /\ rt.pending_finalization /\ rt' = t /\ ready' = AllSync
        /\ UNCHANGED <<sync, phase, todo, left, due, late, owed>>
        /\ ~rt.post_backward_callback_queued /\ left = <<>>
    BY <1>4 DEF WaitFinalization, GradsOK, BackwardOK, Stuck, WeightsInv, StepsSharded
  <2>2. /\ s1 \in Runtime /\ s1.bucket = rt.bucket
        /\ s1.post_backward_callback_queued = rt.post_backward_callback_queued
        /\ s1.manual_backward_finalization = rt.manual_backward_finalization
        /\ s1.reduce_grad_states = <<>> /\ s1.retired_reduce_grad_states = <<>>
    BY <1>1, WaitAndClearEffect DEF SameContext
  <2> HIDE DEF s1
  <2>3. /\ rt'.bucket = rt.bucket /\ ~rt'.pending_finalization
        /\ ~rt'.post_backward_callback_queued /\ ~rt'.manual_backward_finalization
        /\ rt'.reduce_grad_states = <<>> /\ rt'.retired_reduce_grad_states = <<>>
    BY <1>1, <2>1, <2>2 DEF Runtime
  <2> HIDE DEF t
  <2>4. BackwardOK' /\ ReductionsWaited'
    BY <2>1, <2>3 DEF BackwardOK, ReductionsWaited, Stuck, InBackward
  <2>5. ASSUME NEW c \in Bucket
        PROVE  GradsKept(c)'
    <3>1. Visited(c) /\ Enters(todo)' = Enters(todo)
      BY <2>1, EmptySeq DEF Visited, Enters
    <3>2. GradsKept(c) /\ Done(c) /\ ~ToFinish(c) /\ ~Done(c)' /\ (ready' => sync[c])
      BY <2>1, <2>3, <3>1 DEF GradsOK, Stuck, Done, ToFinish, AllSync
    <3>3. late[c] = 0
      BY <1>1, <2>1, <3>2 DEF GradsKept
    <3> QED BY <2>1, <2>3, <3>1, <3>2, <3>3 DEF GradsKept
  <2> QED BY <2>4, <2>5 DEF GradsOK
<1>5. ASSUME NEW value \in BOOLEAN, SetRequiresGradientSync(value)
      PROVE  GradsOK'
  <2>1. /\ phase = "idle" /\ ~rt.pending_finalization
        /\ UNCHANGED <<rt, phase, todo, left, due, late, owed, ready>>
    BY <1>5 DEF SetRequiresGradientSync, Between
  <2>2. BackwardOK' /\ ReductionsWaited' /\ (Stuck' <=> Stuck)
    BY <2>1 DEF GradsOK, BackwardOK, ReductionsWaited, Stuck, InBackward
  <2>3. ASSUME NEW c \in Bucket, GradsKept(c)
        PROVE  GradsKept(c)'
    <3>1. ~Done(c)' /\ ~ToFinish(c) /\ Enters(todo)' = Enters(todo)
      BY <2>1 DEF Done, ToFinish, Enters
    <3> QED BY <2>1, <2>3, <3>1 DEF GradsKept
  <2> QED BY <2>2, <2>3 DEF GradsOK
<1> QED BY <1>2, <1>3, <1>4, <1>5

\* optimizer.step() keeps it: every grad owed was reduced.
LEMMA OptimizerStepKeepsGrads ==
  ASSUME IInv, OrderInv, GradsOK, OptimizerStep
  PROVE  GradsOK'
<1> DEFINE f == [b \in Bucket |-> [rt.bucket[b] EXCEPT !.reduced = 0]]
           t == [rt EXCEPT !.bucket = f]
<1>1. /\ rt \in Runtime /\ rt.bucket \in [Bucket -> BucketState]
      /\ due \in [Bucket -> Nat] /\ late \in [Bucket -> Nat]
  BY InvFacts
<1>2. /\ phase = "idle" /\ ready /\ ~ready' /\ rt' = t /\ owed' = [b \in Bucket |-> 0]
      /\ UNCHANGED <<sync, phase, todo, left, due, late>>
  BY DEF OptimizerStep, Between
<1>3. todo = <<>> /\ Enters(todo) = {}
  BY <1>2, EmptySeq DEF OrderInv, HeldOK, Enters
<1>4. ~Stuck /\ ~rt.manual_backward_finalization
  BY <1>2 DEF GradsOK, BackwardOK
<1>5. \A c \in Bucket : /\ f[c].needs_sync = rt.bucket[c].needs_sync
                        /\ f[c].kept = rt.bucket[c].kept /\ f[c].reduced = 0
                        /\ rt.bucket[c].kept \in Nat
  BY <1>1 DEF BucketState
<1> HIDE DEF f
<1>6. t.bucket = f /\ SameFlags(rt, t)
  BY <1>1 DEF Runtime, SameFlags
<1> HIDE DEF t
<1>7. BackwardOK' /\ ReductionsWaited'
  BY <1>2, <1>4, <1>6 DEF BackwardOK, ReductionsWaited, Stuck, InBackward, SameFlags
<1>8. ASSUME NEW c \in Bucket
      PROVE  GradsKept(c)'
  <2>1. GradsKept(c) /\ ~ToFinish(c) /\ due[c] \in Nat /\ late[c] \in Nat /\ owed'[c] = 0
    BY <1>1, <1>2, <1>4 DEF GradsOK, ToFinish
  <2>2. rt.bucket[c].kept = 0 /\ due[c] = 0 /\ late[c] = 0 /\ ~rt.bucket[c].needs_sync
    BY <1>2, <1>3, <1>5, <2>1 DEF GradsKept
  <2>3. rt'.bucket[c].kept = 0 /\ rt'.bucket[c].reduced = 0 /\ ~rt'.bucket[c].needs_sync
    BY <1>2, <1>5, <1>6, <2>2
  <2> QED BY <1>2, <2>1, <2>2, <2>3 DEF GradsKept
<1> QED BY <1>7, <1>8 DEF GradsOK
\* A backward starts at outputs, with no grad on its way.
LEMMA StartBackwardKeepsGrads ==
  ASSUME IInv, WeightsInv, OrderInv, GradsOK, NEW i \in DOMAIN graphs,
         NEW used \in SUBSET Exits(graphs[i]), StartBackward(i, used)
  PROVE  GradsOK'
<1>1. /\ rt.bucket \in [Bucket -> BucketState] /\ due \in [Bucket -> Nat]
      /\ late \in [Bucket -> Nat] /\ graphs \in Seq(Seq(Event)) /\ graphs[i] \in Seq(Event)
  BY InvFacts, EventFacts DEF IInv, TypeOK
<1>2. /\ phase = "idle" /\ ~rt.post_backward_callback_queued /\ NoLateGrads /\ used # {}
      /\ phase' = "backward" /\ todo' = Walk(graphs[i], used) /\ ~ready'
      /\ UNCHANGED <<rt, sync, left, due, late, owed>>
  BY DEF StartBackward, Between, NoRaisedBackward
<1>3. ~Stuck /\ ~rt.manual_backward_finalization /\ ~rt.pending_finalization
  <2>1. graphs # <<>>
    BY EmptySeq
  <2> QED BY <1>2, <2>1 DEF Stuck, GradsOK, BackwardOK, WeightsInv, StepsSharded
<1>4. todo' # <<>> /\ todo'[1].kind = "exit"
  <2>1. PICK n \in Nat : \E m : Traverses(todo', graphs[i], used, n, m)
    BY <1>1, <1>2, WalkFacts
  <2>2. PICK m : Traverses(todo', graphs[i], used, n, m)
    BY <2>1
  <2>3. PICK j \in DOMAIN graphs[i] : graphs[i][j].id \in used
    BY <1>2 DEF Exits
  <2>4. n >= 1 /\ DOMAIN todo' = 1 .. n
    BY <2>2, <2>3 DEF Traverses
  <2>5. 1 \in DOMAIN todo'
    BY <2>4
  <2>6. todo'[1].kind \in {"enter", "exit"}
    <3>1. m[1] \in DOMAIN graphs[i] /\ todo'[1] = graphs[i][m[1]]
      BY <2>2, <2>4 DEF Traverses
    <3>2. graphs[i][m[1]] \in Event
      BY <1>1, <3>1, SeqElements
    <3> QED BY <3>1, <3>2 DEF Event
  <2>7. ASSUME todo'[1].kind = "enter" PROVE FALSE
    <3>1. 1 \in Enters(todo')
      BY <2>5, <2>7 DEF Enters
    <3>2. TodoOK(todo') /\ \E r \in Leaves(todo') : todo'[r].id = todo'[1].id
      <4> DEFINE g == graphs[i]
      <4>1. g \in Seq(Event) /\ used \in SUBSET Exits(g) /\ GraphOK(g)
        BY <1>1 DEF OrderInv
      <4>2. todo' = Walk(g, used)
        BY <1>2
      <4> HIDE DEF g
      <4>3. /\ TodoOK(Walk(g, used))
            /\ \A p \in Enters(Walk(g, used)) :
                 \E r \in Leaves(Walk(g, used)) : Walk(g, used)[r].id = Walk(g, used)[p].id
        BY <4>1, WalkInOrder
      <4> QED BY <3>1, <4>2, <4>3
    <3>3. PICK r \in Leaves(todo') : todo'[r].id = todo'[1].id
      BY <3>2
    <3>4. r < 1
      BY <3>1, <3>2, <3>3 DEF TodoOK
    <3>5. r \in 1 .. n
      BY <2>4 DEF Leaves
    <3> QED BY <3>4, <3>5
  <2> QED BY <2>5, <2>6, <2>7, EmptySeq
<1>5. ASSUME NEW c \in Bucket
      PROVE  /\ GradsKept(c) /\ due[c] = 0 /\ late[c] = 0
             /\ rt.bucket[c].kept > 0 => rt.bucket[c].needs_sync
  <2>1. GradsKept(c) /\ ~ToFinish(c) /\ late[c] = 0
    BY <1>2, <1>3 DEF GradsOK, ToFinish, NoLateGrads
  <2>2. Enters(todo) = {}
    BY <1>2, EmptySeq DEF OrderInv, HeldOK, Enters
  <2> QED BY <1>1, <2>1, <2>2 DEF GradsKept
<1>6. Untouched'
  BY <1>2, <1>4, <1>5 DEF Untouched
<1>7. BackwardOK' /\ ReductionsWaited'
  BY <1>2, <1>3, <1>6 DEF BackwardOK, ReductionsWaited
<1>8. ASSUME NEW c \in Bucket
      PROVE  GradsKept(c)'
  <2>1. ~Done(c)'
    BY <1>2, <1>3 DEF Done
  <2> QED BY <1>2, <1>5, <2>1 DEF GradsKept
<1> QED BY <1>7, <1>8 DEF GradsOK

\* The inputs a bucket's grads wait for are still to reach after the next event,
\* unless it is the last of the bucket.
LEMMA EntersAhead ==
  ASSUME IInv, OrderInv, todo # <<>>, todo' = Tail(todo), NEW c \in Bucket,
         \/ \E p \in Enters(todo) : p # 1 /\ todo[p].bucket = c
         \/ \E r \in Leaves(todo) : todo[r].bucket = c
  PROVE  \E p \in Enters(todo') : todo'[p].bucket = c
<1>1. todo \in Seq(Event) /\ TodoOK(todo) /\ DOMAIN todo = 1 .. Len(todo) /\ Len(todo) \in Nat
  BY OpenAndTodoTypes DEF OrderInv
<1>2. \E p \in Enters(todo) : p # 1 /\ todo[p].bucket = c
  <2> SUFFICES ASSUME NEW r \in Leaves(todo), todo[r].bucket = c
               PROVE  \E p \in Enters(todo) : p # 1 /\ todo[p].bucket = c
    OBVIOUS
  <2>1. PICK p \in Enters(todo) : todo[p].id = todo[r].id
    BY <1>1 DEF TodoOK
  <2>2. r < p /\ p \in DOMAIN todo /\ r \in DOMAIN todo
    BY <1>1, <2>1 DEF TodoOK, Enters, Leaves
  <2>3. todo[p].bucket = c
    BY <1>1, <2>1, <2>2 DEF TodoOK, OneBucketPerCall
  <2> QED BY <1>1, <2>2, <2>3
<1>3. PICK p \in Enters(todo) : p # 1 /\ todo[p].bucket = c
  BY <1>2
<1>4. p - 1 \in Enters(todo') /\ todo'[p - 1] = todo[p]
  BY <1>1, <1>3, TailFacts DEF Enters
<1> QED BY <1>3, <1>4
\* The outputs' node keeps it: a grad is on its way, and the hook began the backward;
\* grads kept by a backward without sync may be reduced on the way.
LEMMA ReachOutputsKeepsGrads ==
  ASSUME IInv, WeightsInv, OrderInv, HooksOK, GradsOK, ReachOutputs
  PROVE  GradsOK'
<1> DEFINE e == todo[1]
           b == e.bucket
<1>1. /\ Sound(rt) /\ weights \in Nat /\ sync \in [Bucket -> BOOLEAN] /\ todo \in Seq(Event)
      /\ rt.bucket \in [Bucket -> BucketState] /\ due \in [Bucket -> Nat]
      /\ late \in [Bucket -> Nat] /\ owed \in [Bucket -> Nat]
  BY InvFacts DEF IInv, TypeOK
<1>2. /\ phase = "backward" /\ todo # <<>> /\ e.kind = "exit" /\ todo' = Tail(todo)
      /\ due' = [due EXCEPT ![b] = @ + 1] /\ owed' = [owed EXCEPT ![b] = @ + 1]
      /\ UNCHANGED <<sync, phase, left, late, ready>>
  BY DEF ReachOutputs
<1>3. b \in Bucket /\ 1 \in DOMAIN todo /\ 1 \in Leaves(todo)
  BY <1>1, <1>2, TodoFacts, TailFacts DEF Event, Leaves
<1>4. e.flag
  BY <1>2, <1>3 DEF HooksOK, WiredEvents, Wired
<1>5. rt' = PreBackwardHook(rt, b)
  BY <1>4 DEF ReachOutputs
<1>6. /\ ~rt.manual_backward_finalization /\ ~ready /\ ~rt.pending_finalization /\ ~Stuck
  BY <1>2 DEF GradsOK, BackwardOK, InBackward, Stuck
<1> HIDE DEF e, b
<1>7. /\ \A c \in Bucket : rt.bucket[c].is_unsharded => rt'.bucket[c].is_unsharded
      /\ \A c \in Bucket : c # b => SameGrads(rt.bucket[c], rt'.bucket[c])
      /\ \/ SameGrads(rt.bucket[b], rt'.bucket[b])
         \/ b \notin Defers /\ Completed(rt.bucket[b], rt'.bucket[b])
      /\ MayQueue(rt, rt')
      /\ rt'.post_backward_callback_queued /\ rt'.finish_at_backward_end
  BY <1>1, <1>2, <1>3, <1>5, <1>6, PreBackwardHookEffect DEF InBackward
<1>8. BackwardOK' /\ ReductionsWaited'
  BY <1>2, <1>6, <1>7 DEF BackwardOK, ReductionsWaited, Begun, Stuck, MayQueue
<1>9. ASSUME NEW c \in Bucket
      PROVE  GradsKept(c)'
  <2>1. /\ GradsKept(c) /\ ToFinish(c) /\ ToFinish(c)' /\ ~Done(c)'
    BY <1>2, <1>6, <1>7 DEF GradsOK, ToFinish, Done, MayQueue
  <2>2. due'[c] > 0 => \E p \in Enters(todo') : todo'[p].bucket = c
    <3>1. CASE c = b
      BY <1>2, <1>3, <3>1, EntersAhead DEF b, e
    <3>2. CASE c # b
      <4>1. due'[c] = due[c]
        BY <1>1, <1>2, <1>3, <3>2
      <4>2. \A p \in Enters(todo) : p # 1
        BY <1>2 DEF Enters, e
      <4> QED BY <1>2, <2>1, <4>1, <4>2, EntersAhead DEF GradsKept
    <3> QED BY <3>1, <3>2
  <2>3. CASE SameGrads(rt.bucket[c], rt'.bucket[c])
    <3>1. owed'[c] = rt'.bucket[c].reduced + rt'.bucket[c].kept + due'[c] + late'[c]
      <4>1. CASE c = b
        <5>1. owed'[c] = owed[c] + 1 /\ due'[c] = due[c] + 1
          BY <1>1, <1>2, <1>3, <4>1
        <5>2. /\ rt.bucket[c].reduced \in Nat /\ rt.bucket[c].kept \in Nat
              /\ due[c] \in Nat /\ late[c] \in Nat /\ late'[c] = late[c]
              /\ owed[c] = rt.bucket[c].reduced + rt.bucket[c].kept + due[c] + late[c]
          BY <1>1, <1>2, <2>1 DEF BucketState, GradsKept
        <5> QED BY <2>3, <5>1, <5>2 DEF SameGrads
      <4>2. CASE c # b
        BY <1>1, <1>2, <1>3, <2>1, <2>3, <4>2 DEF GradsKept, SameGrads
      <4> QED BY <4>1, <4>2
    <3> QED BY <1>2, <1>6, <1>7, <2>1, <2>2, <2>3, <3>1 DEF GradsKept, SameGrads, MayQueue
  <2>4. CASE ~SameGrads(rt.bucket[c], rt'.bucket[c])
    <3>1. c = b /\ b \notin Defers /\ Completed(rt.bucket[b], rt'.bucket[b])
      BY <1>7, <2>4
    <3>2. late[b] = 0
      BY <1>1, <1>3, <2>1, <3>1 DEF GradsKept
    <3>3. owed'[b] = owed[b] + 1 /\ due'[b] = due[b] + 1 /\ late'[b] = 0
      BY <1>1, <1>2, <1>3, <3>2
    <3>4. /\ rt.bucket[b].reduced \in Nat /\ rt.bucket[b].kept \in Nat /\ due[b] \in Nat
          /\ owed[b] = rt.bucket[b].reduced + rt.bucket[b].kept + due[b] + late[b]
      BY <1>1, <1>3, <2>1, <3>1 DEF BucketState, GradsKept
    <3>5. owed'[b] = rt'.bucket[b].reduced + rt'.bucket[b].kept + due'[b] + late'[b]
      BY <3>1, <3>2, <3>3, <3>4 DEF Completed
    <3> QED BY <1>2, <1>6, <2>1, <2>2, <3>1, <3>3, <3>5 DEF GradsKept, Completed
  <2> QED BY <2>3, <2>4
<1> QED BY <1>8, <1>9 DEF GradsOK

\* What the trigger at a bucket's inputs does to grads: it leaves them alone, or
\* post_backward() takes them.
AfterTrigger(s, t, b, flag) ==
  LET j == s.bucket[b]
      k == t.bucket[b]
  IN  /\ SameContext(s, t)
      /\ \A c \in Bucket : c # b => t.bucket[c] = s.bucket[c]
      /\ k.reduced + k.kept = j.reduced + j.kept
      /\ \/ /\ k.needs_sync = j.needs_sync /\ k.kept = j.kept
            /\ k.is_unsharded = j.is_unsharded
            /\ flag => k.input_triggers_run > 0
            /\ ~flag => k = j
         \/ flag /\ b \notin Defers /\ (k.kept > 0 => k.needs_sync)

LEMMA TriggerGrads ==
  ASSUME NEW s \in Runtime, NEW b \in Bucket, NEW flag \in BOOLEAN,
         sync \in [Bucket -> BOOLEAN], NEW t,
         t = IF flag THEN OnInputGrads(s, b) ELSE s
  PROVE  AfterTrigger(s, t, b, flag)
<1> DEFINE j == s.bucket[b]
           k == t.bucket[b]
           d == Finished(Triggered(j), b, TRUE)
<1>1. s.bucket \in [Bucket -> BucketState] /\ j \in BucketState /\ sync[b] \in BOOLEAN
  BY DEF Runtime
<1> HIDE DEF j
<1>2. CASE ~flag
  BY <1>2 DEF SameContext, AfterTrigger, j
<1>3. CASE flag
  <2>1. /\ SameContext(s, t)
        /\ \/ t.bucket = [s.bucket EXCEPT ![b] = Triggered(j)]
           \/ b \notin Defers /\ t.bucket = [s.bucket EXCEPT ![b] = Uncounted(d)]
    BY <1>3, OnInputGradsEffect DEF j
  <2>2. /\ Triggered(j) \in BucketState /\ Triggered(j).is_unsharded = j.is_unsharded
        /\ Triggered(j).needs_sync = j.needs_sync /\ Triggered(j).kept = j.kept
        /\ Triggered(j).reduced = j.reduced /\ Triggered(j).input_triggers_run > 0
    BY <1>1, TriggeredFacts
  <2>3. /\ d \in BucketState /\ d.needs_sync = ~sync[b] /\ (d.kept > 0 => ~sync[b])
        /\ d.reduced + d.kept = j.reduced + j.kept
    <3> DEFINE r == Triggered(j)
    <3>1. r \in BucketState /\ r.kept = j.kept /\ r.reduced = j.reduced
      BY <2>2
    <3> HIDE DEF r
    <3>2. Finished(r, b, TRUE) \in BucketState
      BY <1>1, <3>1, FinishedFacts
    <3>3. /\ Finished(r, b, TRUE).needs_sync = ~sync[b]
          /\ Finished(r, b, TRUE).kept > 0 => ~sync[b]
          /\ Finished(r, b, TRUE).reduced + Finished(r, b, TRUE).kept = r.reduced + r.kept
      BY <1>1, <3>1, FinishedGrads
    <3> QED BY <3>1, <3>2, <3>3 DEF r
  <2> HIDE DEF d
  <2>4. /\ Uncounted(d).needs_sync = d.needs_sync /\ Uncounted(d).kept = d.kept
        /\ Uncounted(d).reduced = d.reduced
    BY <2>3, UncountedFacts
  <2>5. \A c \in Bucket : c # b => t.bucket[c] = s.bucket[c]
    BY <1>1, <2>1
  <2>6. k = Triggered(j) \/ (b \notin Defers /\ k = Uncounted(d))
    BY <1>1, <2>1
  <2> HIDE DEF k
  <2> QED BY <1>3, <2>1, <2>2, <2>3, <2>4, <2>5, <2>6 DEF AfterTrigger, j, k
<1> QED BY <1>2, <1>3

\* The inputs' node keeps it: its bucket's grads arrive on the unsharded params with
\* the last event of the bucket, or wait for the kernel of a deferring bucket.
LEMMA ReachInputsKeepsGrads ==
  ASSUME Automatic, IInv, WeightsInv, OrderInv, HooksOK, GradsOK, ReachInputs,
         NEW b \in Bucket, b = todo[1].bucket, NEW flag \in BOOLEAN, flag = todo[1].flag
  PROVE  GradsOK'
<1> DEFINE e == todo[1]
           last == \A i \in 2 .. Len(todo) : todo[i].bucket # b
           s1 == IF last /\ b \notin Defers
                 THEN [rt EXCEPT !.bucket[b].kept = @ + due[b]] ELSE rt
<1>1. /\ Sound(rt) /\ rt \in Runtime /\ sync \in [Bucket -> BOOLEAN] /\ todo \in Seq(Event)
      /\ TodoOK(todo)
      /\ rt.bucket \in [Bucket -> BucketState] /\ due \in [Bucket -> Nat]
      /\ late \in [Bucket -> Nat] /\ owed \in [Bucket -> Nat]
  BY InvFacts DEF IInv, TypeOK, OrderInv
<1>2. /\ phase = "backward" /\ todo # <<>> /\ e.kind = "enter" /\ todo' = Tail(todo)
      /\ rt' = IF flag THEN OnInputGrads(s1, b) ELSE s1
      /\ due' = IF last THEN [due EXCEPT ![b] = 0] ELSE due
      /\ late' = IF last /\ b \in Defers THEN [late EXCEPT ![b] = @ + due[b]] ELSE late
      /\ UNCHANGED <<sync, phase, left, owed, ready>>
  BY DEF ReachInputs
<1>3. e.bucket = b /\ e.flag = flag /\ 1 \in Enters(todo) /\ 1 \in DOMAIN todo
  BY <1>1, <1>2, TailFacts DEF Enters
<1>4. b \in Defers => flag
  BY <1>3 DEF HooksOK, WiredEvents, Wired
<1>5. rt.bucket[b].is_unsharded
  <2>1. \A r \in Leaves(todo) : todo[r].id # e.id
    <3>1. \A r \in Leaves(todo) : r \in DOMAIN todo /\ ~(r < 1)
      BY <1>1, TailFacts, <1>2 DEF Leaves
    <3> QED BY <1>1, <1>3, <3>1 DEF TodoOK
  <2>2. b \in InUse
    BY <1>2, <1>3, <2>1 DEF InUse, Leaves
  <2> QED BY <2>2 DEF OrderInv, HeldOK
<1>6. /\ ~rt.manual_backward_finalization /\ ~ready /\ ~rt.pending_finalization /\ ~Stuck
      /\ Begun
  BY <1>2 DEF GradsOK, BackwardOK, InBackward, Stuck, Untouched
<1>7. last \/ \E p \in Enters(todo') : todo'[p].bucket = b
  <2>1. ASSUME NEW i \in 2 .. Len(todo), todo[i].bucket = b
        PROVE  \E p \in Enters(todo') : todo'[p].bucket = b
    <3>1. i \in DOMAIN todo /\ i # 1 /\ todo[i].kind \in {"enter", "exit"}
      <4>1. Len(todo) \in Nat /\ DOMAIN todo = 1 .. Len(todo)
        BY OpenAndTodoTypes
      <4>2. i \in DOMAIN todo /\ i # 1
        BY <4>1
      <4> QED BY <4>2, OpenAndTodoTypes
    <3>2. \/ i \in Enters(todo) /\ i # 1 /\ todo[i].bucket = b
          \/ i \in Leaves(todo) /\ todo[i].bucket = b
      BY <2>1, <3>1 DEF Enters, Leaves
    <3> QED BY <1>2, <1>3, <3>2, EntersAhead
  <2> QED BY <2>1
<1> HIDE DEF e, last
<1>8. /\ s1 \in Runtime /\ SameContext(rt, s1)
      /\ \A c \in Bucket : c # b => s1.bucket[c] = rt.bucket[c]
      /\ LET j == rt.bucket[b]
             k == s1.bucket[b]
         IN  /\ k.reduced = j.reduced /\ k.needs_sync = j.needs_sync
             /\ k.is_unsharded = j.is_unsharded
             /\ k.input_triggers_run = j.input_triggers_run
             /\ k.kept = IF last /\ b \notin Defers THEN j.kept + due[b] ELSE j.kept
  <2>1. due[b] \in Nat /\ rt.bucket[b] \in BucketState
    BY <1>1, <1>3
  <2>2. CASE last /\ b \notin Defers
    <3> DEFINE v == rt.bucket[b].kept + due[b]
               k == [rt.bucket[b] EXCEPT !.kept = v]
               f == [rt.bucket EXCEPT ![b] = k]
               t == [rt EXCEPT !.bucket = f]
    <3>1. v \in Nat
      BY <2>1 DEF BucketState
    <3>2. s1 = t
      BY <2>2
    <3>3. v = rt.bucket[b].kept + due[b]
      OBVIOUS
    <3> HIDE DEF v
    <3>4. /\ k \in BucketState /\ k.reduced = rt.bucket[b].reduced /\ k.kept = v
          /\ k.needs_sync = rt.bucket[b].needs_sync
          /\ k.is_unsharded = rt.bucket[b].is_unsharded
          /\ k.input_triggers_run = rt.bucket[b].input_triggers_run
      BY <2>1, <3>1 DEF BucketState
    <3> HIDE DEF k
    <3>5. f \in [Bucket -> BucketState] /\ f[b] = k /\ \A c \in Bucket : c # b => f[c] = rt.bucket[c]
      BY <1>1, <1>3, <3>4
    <3> HIDE DEF f
    <3>6. t \in Runtime /\ t.bucket = f /\ SameContext(rt, t)
      BY <1>1, <3>5 DEF Runtime, SameContext
    <3> HIDE DEF t, s1
    <3> QED BY <2>2, <3>2, <3>3, <3>4, <3>5, <3>6
  <2>3. CASE ~(last /\ b \notin Defers)
    BY <1>1, <2>3 DEF SameContext
  <2> QED BY <2>2, <2>3
<1> HIDE DEF s1
<1>9. AfterTrigger(s1, rt', b, flag)
  <2>1. rt' = IF flag THEN OnInputGrads(s1, b) ELSE s1
    BY <1>2
  <2> QED BY <1>1, <1>8, <2>1, TriggerGrads
<1>10. SameContext(rt, rt')
  BY <1>8, <1>9, SameContextAgain DEF AfterTrigger
<1>11. BackwardOK' /\ ReductionsWaited'
  BY <1>2, <1>6, <1>10 DEF BackwardOK, ReductionsWaited, Begun, Stuck, SameContext
<1>12. ASSUME NEW c \in Bucket
       PROVE  GradsKept(c) /\ ToFinish(c)' /\ ~Done(c)'
  BY <1>2, <1>6, <1>10 DEF GradsOK, ToFinish, Done, SameContext
<1>13. ASSUME NEW c \in Bucket, c # b
       PROVE  GradsKept(c)'
  <2>1. rt'.bucket[c] = rt.bucket[c] /\ due'[c] = due[c] /\ late'[c] = late[c]
    BY <1>1, <1>2, <1>3, <1>8, <1>9, <1>13 DEF AfterTrigger
  <2>2. due'[c] > 0 => \E p \in Enters(todo') : todo'[p].bucket = c
    <3>1. \A p \in Enters(todo) : todo[p].bucket = c => p # 1
      BY <1>3, <1>13 DEF e
    <3>2. due[c] > 0 => \E p \in Enters(todo) : todo[p].bucket = c
      BY <1>12 DEF GradsKept
    <3>3. due[c] > 0 => \E p \in Enters(todo) : p # 1 /\ todo[p].bucket = c
      BY <3>1, <3>2
    <3> QED BY <1>2, <2>1, <3>3, EntersAhead
  <2>3. /\ ~ready /\ ~ready' /\ ~rt'.pending_finalization
        /\ phase = "backward" /\ phase' = "backward" /\ owed' = owed
    BY <1>2, <1>6, <1>10 DEF SameContext
  <2> QED BY <1>12, <2>1, <2>2, <2>3 DEF GradsKept
<1>14. GradsKept(b)'
  <2> DEFINE j == rt.bucket[b]
             i == s1.bucket[b]
             k == rt'.bucket[b]
  <2>1. /\ j.reduced \in Nat /\ j.kept \in Nat /\ due[b] \in Nat /\ late[b] \in Nat
        /\ owed[b] = j.reduced + j.kept + due[b] + late[b]
    BY <1>1, <1>3, <1>12 DEF BucketState, GradsKept
  <2>2. b \notin Defers => late[b] = 0
    BY <1>3, <1>12, <2>1 DEF GradsKept
  <2>3. /\ due'[b] = IF last THEN 0 ELSE due[b]
        /\ late'[b] = IF last /\ b \in Defers THEN late[b] + due[b] ELSE late[b]
        /\ owed'[b] = owed[b]
    BY <1>1, <1>2, <1>3
  <2>4. i.reduced + i.kept + due'[b] + late'[b] = owed'[b]
    BY <1>8, <2>1, <2>3
  <2>5. k.reduced + k.kept = i.reduced + i.kept
    BY <1>9 DEF AfterTrigger
  <2>6. owed'[b] = k.reduced + k.kept + due'[b] + late'[b]
    <3>1. due'[b] \in Nat /\ late'[b] \in Nat /\ i.reduced \in Nat /\ i.kept \in Nat
      BY <1>8, <2>1, <2>3
    <3> QED BY <2>4, <2>5
  <2>7. due'[b] > 0 => \E p \in Enters(todo') : todo'[p].bucket = b
    BY <1>7, <2>3
  <2>8. k.kept > 0 => k.needs_sync \/ k.is_unsharded
    BY <1>5, <1>8, <1>9 DEF AfterTrigger
  <2>9. late'[b] > 0 => b \in Defers /\ k.is_unsharded /\ k.input_triggers_run > 0
    <3>1. CASE b \in Defers
      BY <1>4, <1>5, <1>8, <1>9, <3>1 DEF AfterTrigger
    <3>2. CASE b \notin Defers
      BY <2>2, <2>3, <3>2
    <3> QED BY <3>1, <3>2
  <2>10. ~ready' /\ phase' = "backward" /\ ~rt'.pending_finalization
    BY <1>2, <1>6, <1>10 DEF SameContext
  <2> HIDE DEF k
  <2> QED BY <1>3, <1>12, <2>6, <2>7, <2>8, <2>9, <2>10 DEF GradsKept, k
<1> QED BY <1>11, <1>13, <1>14 DEF GradsOK

\* finish_deferred_backward() keeps it: the late grads of a bucket that waits for them
\* are reduced with it, or it knows that they wait for a syncing backward.
LEMMA FinishDeferredBackwardKeepsGrads ==
  ASSUME IInv, WeightsInv, OrderInv, GradsOK, NEW b \in Bucket, FinishDeferredBackward(b)
  PROVE  GradsOK'
<1> DEFINE v == rt.bucket[b].kept + late[b]
           k == [rt.bucket[b] EXCEPT !.kept = v]
           f == [rt.bucket EXCEPT ![b] = k]
           s1 == [rt EXCEPT !.bucket = f]
           d == IF NeedsFinish(s1, b) THEN Finished(k, b, TRUE) ELSE k
<1>1. /\ rt \in Runtime /\ rt.bucket \in [Bucket -> BucketState] /\ sync \in [Bucket -> BOOLEAN]
      /\ due \in [Bucket -> Nat] /\ late \in [Bucket -> Nat] /\ owed \in [Bucket -> Nat]
      /\ rt.bucket[b] \in BucketState
  BY InvFacts
<1>2. /\ b \in Defers /\ late[b] > 0 /\ phase \in {"idle", "backward"}
      /\ phase = "idle" => ~rt.post_backward_callback_queued
      /\ \A i \in DOMAIN todo : todo[i].bucket # b
      /\ rt' = IF NeedsFinish(s1, b) THEN PostBackward(s1, b, TRUE) ELSE s1
      /\ late' = [late EXCEPT ![b] = 0]
      /\ UNCHANGED <<sync, phase, todo, left, due, owed, ready>>
  BY DEF FinishDeferredBackward, NoRaisedBackward
<1>3. ~Stuck /\ ~rt.manual_backward_finalization /\ \A c \in Bucket : GradsKept(c)
  BY <1>2 DEF GradsOK, BackwardOK, Stuck
<1>4. /\ ~ready /\ ~rt.pending_finalization
      /\ \/ phase = "backward" /\ rt.bucket[b].is_unsharded
         \/ phase = "idle" /\ rt.bucket[b].needs_sync
  BY <1>2, <1>3 DEF GradsKept, ToFinish
<1>5. phase = "backward" => Begun
  BY <1>2, <1>3 DEF GradsOK, BackwardOK, Untouched
<1>6. /\ v \in Nat /\ rt.bucket[b].reduced \in Nat /\ rt.bucket[b].kept \in Nat
      /\ late[b] \in Nat /\ due[b] \in Nat
  BY <1>1 DEF BucketState
<1>7. v = rt.bucket[b].kept + late[b]
  OBVIOUS
<1> HIDE DEF v
<1>8. /\ k \in BucketState /\ k.kept = v /\ k.reduced = rt.bucket[b].reduced
      /\ k.needs_sync = rt.bucket[b].needs_sync /\ k.is_unsharded = rt.bucket[b].is_unsharded
  BY <1>1, <1>6 DEF BucketState
<1> HIDE DEF k
<1>9. f \in [Bucket -> BucketState] /\ f[b] = k /\ \A c \in Bucket : c # b => f[c] = rt.bucket[c]
  BY <1>1, <1>8
<1> HIDE DEF f
<1>10. s1 \in Runtime /\ s1.bucket = f /\ SameContext(rt, s1)
  BY <1>1, <1>9 DEF Runtime, SameContext
<1> HIDE DEF s1
<1>11. SameContext(rt, rt') /\ rt'.bucket[b] = d /\ \A c \in Bucket : c # b => rt'.bucket[c] = rt.bucket[c]
  <2>1. CASE NeedsFinish(s1, b)
    <3>1. rt' = PostBackward(s1, b, TRUE) /\ d = Finished(k, b, TRUE)
      BY <1>2, <2>1
    <3>2. SameContext(s1, rt') /\ rt'.bucket = [s1.bucket EXCEPT ![b] = Finished(s1.bucket[b], b, TRUE)]
      BY <1>1, <1>10, <3>1, PostBackwardEffect
    <3>3. SameContext(rt, rt')
      BY <1>10, <3>2, SameContextAgain
    <3> HIDE DEF d
    <3> QED BY <1>9, <1>10, <3>1, <3>2, <3>3
  <2>2. CASE ~NeedsFinish(s1, b)
    BY <1>2, <1>9, <1>10, <2>2
  <2> QED BY <2>1, <2>2
<1>12. /\ d.reduced + d.kept = k.reduced + k.kept /\ (d.kept > 0 => d.needs_sync)
       /\ d.reduced \in Nat /\ d.kept \in Nat
  <2>1. CASE NeedsFinish(s1, b)
    <3>1. d = Finished(k, b, TRUE) /\ sync[b] \in BOOLEAN
      BY <1>1, <2>1
    <3>2. /\ d.needs_sync = ~sync[b] /\ (d.kept > 0 => ~sync[b])
          /\ d.reduced + d.kept = k.reduced + k.kept
      BY <1>8, <3>1, FinishedGrads
    <3>3. d \in BucketState
      BY <1>8, <3>1, FinishedFacts
    <3> HIDE DEF d
    <3> QED BY <3>2, <3>3 DEF BucketState
  <2>2. CASE ~NeedsFinish(s1, b)
    <3>1. d = k
      BY <2>2
    <3>2. k.needs_sync
      BY <1>4, <1>8, <1>9, <1>10, <2>2 DEF NeedsFinish
    <3> QED BY <1>8, <3>1, <3>2 DEF BucketState
  <2> QED BY <2>1, <2>2
<1> HIDE DEF d
<1>13. BackwardOK' /\ ReductionsWaited'
  BY <1>2, <1>3, <1>4, <1>5, <1>11
     DEF BackwardOK, ReductionsWaited, Begun, Stuck, InBackward, SameContext
<1>14. /\ ~ready' /\ ~rt'.pending_finalization
       /\ \A c \in Bucket : (ToFinish(c)' <=> ToFinish(c)) /\ ~Done(c)'
  BY <1>2, <1>4, <1>11 DEF ToFinish, Done, Visited, SameContext
<1>15. ASSUME NEW c \in Bucket, c # b
       PROVE  GradsKept(c)'
  <2>1. rt'.bucket[c] = rt.bucket[c] /\ late'[c] = late[c] /\ Enters(todo)' = Enters(todo)
    BY <1>1, <1>2, <1>11, <1>15 DEF Enters
  <2> QED BY <1>2, <1>3, <1>14, <2>1 DEF GradsKept
<1>16. GradsKept(b)'
  <2>1. due[b] = 0
    BY <1>2, <1>3, <1>6 DEF GradsKept, Enters
  <2>2. owed[b] = rt.bucket[b].reduced + rt.bucket[b].kept + due[b] + late[b]
    BY <1>3 DEF GradsKept
  <2>3. late'[b] = 0 /\ due'[b] = 0 /\ owed'[b] = owed[b]
    BY <1>1, <1>2, <2>1
  <2>4. owed'[b] = d.reduced + d.kept + due'[b] + late'[b]
    BY <1>6, <1>7, <1>8, <1>12, <2>1, <2>2, <2>3
  <2> QED BY <1>11, <1>12, <1>14, <2>3, <2>4 DEF GradsKept
<1>17. ASSUME NEW c \in Bucket
       PROVE  GradsKept(c)'
  BY <1>15, <1>16
<1> QED BY <1>13, <1>17 DEF GradsOK

\* finish_buckets keeps it: the bucket it visits has its grads reduced, with gradient
\* sync on, or else knows that they wait; one that needs no finish has none that could be.
LEMMA FinishBucketKeepsGrads ==
  ASSUME IInv, WeightsInv, GradsOK, FinishBucket, NEW b \in Bucket, b = left[1]
  PROVE  GradsOK'
<1> DEFINE k == rt.bucket[b]
           d == IF NeedsFinish(rt, b) THEN Finished(k, b, TRUE) ELSE k
           u == Uncounted(d)
<1>1. /\ rt \in Runtime /\ rt.bucket \in [Bucket -> BucketState] /\ sync \in [Bucket -> BOOLEAN]
      /\ k \in BucketState /\ k.kept \in Nat /\ k.reduced \in Nat /\ sync[b] \in BOOLEAN
  BY InvFacts DEF BucketState
<1>2. /\ phase \in {"callback", "finalize"} /\ ~DefersUnfinished(b)
      /\ rt' = ResetCounts(IF NeedsFinish(rt, b) THEN PostBackward(rt, b, TRUE) ELSE rt, b)
      /\ UNCHANGED <<sync, phase, todo, due, late, owed, ready>>
  BY DEF FinishBucket
<1>3. SameContext(rt, rt') /\ rt'.bucket = [rt.bucket EXCEPT ![b] = u]
  BY FinishBucketEffect
<1> HIDE DEF k
<1>4. /\ d \in BucketState /\ d.reduced + d.kept = k.reduced + k.kept
      /\ NeedsFinish(rt, b) => d.needs_sync = ~sync[b] /\ (d.kept > 0 => ~sync[b])
      /\ ~NeedsFinish(rt, b) => d = k
  <2>1. CASE NeedsFinish(rt, b)
    <3>1. d = Finished(k, b, TRUE)
      BY <2>1
    <3>2. d \in BucketState
      BY <1>1, <3>1, FinishedFacts
    <3>3. /\ d.needs_sync = ~sync[b] /\ (d.kept > 0 => ~sync[b])
          /\ d.reduced + d.kept = k.reduced + k.kept
      BY <1>1, <3>1, FinishedGrads
    <3> HIDE DEF d
    <3> QED BY <2>1, <3>2, <3>3
  <2>2. CASE ~NeedsFinish(rt, b)
    BY <1>1, <2>2
  <2> QED BY <2>1, <2>2
<1> HIDE DEF d
<1>5. u.needs_sync = d.needs_sync /\ u.kept = d.kept /\ u.reduced = d.reduced
  BY <1>4, UncountedFacts
<1> HIDE DEF u
<1>6. rt'.bucket[b] = u /\ \A c \in Bucket : c # b => rt'.bucket[c] = rt.bucket[c]
  BY <1>1, <1>3
<1>7. /\ ~Stuck /\ ~Stuck' /\ ~rt.manual_backward_finalization
      /\ (phase = "callback" => Begun) /\ \A c \in Bucket : GradsKept(c)
  BY <1>2 DEF GradsOK, BackwardOK, Stuck
<1>8. NeedsFinish(rt, b) <=> k.is_unsharded \/ (k.needs_sync /\ sync[b])
  BY DEF NeedsFinish, k
<1>9. ready => ~NeedsFinish(rt, b)
  <2>1. ready => ~k.is_unsharded /\ ~k.needs_sync
    BY <1>7 DEF WeightsInv, StepsSharded, GradsKept, k
  <2> QED BY <1>8, <2>1
<1>10. ReductionsWaited'
  <2>1. ASSUME ready
        PROVE  /\ rt'.reduce_grad_states = rt.reduce_grad_states
               /\ rt'.retired_reduce_grad_states = rt.retired_reduce_grad_states
    <3>1. rt' = ResetCounts(rt, b)
      BY <1>2, <1>9, <2>1
    <3> QED BY <1>1, <3>1 DEF ResetCounts, Runtime
  <2> QED BY <1>2, <2>1 DEF GradsOK, ReductionsWaited
<1>11. BackwardOK'
  BY <1>2, <1>3, <1>7 DEF GradsOK, BackwardOK, Begun, Stuck, InBackward, SameContext
<1>12. ASSUME NEW c \in Bucket, c # b
       PROVE  GradsKept(c)'
  <2>1. Visited(c)' => Visited(c)
    BY <1>12, VisitedBefore
  <2>2. /\ rt'.bucket[c] = rt.bucket[c] /\ Enters(todo)' = Enters(todo)
        /\ ToFinish(c) => ToFinish(c)'
        /\ Done(c)' => Done(c)
        /\ rt'.pending_finalization = rt.pending_finalization
    BY <1>2, <1>3, <1>6, <1>12, <2>1 DEF ToFinish, Done, Enters, SameContext
  <2>3. /\ sync'[c] = sync[c] /\ due'[c] = due[c] /\ late'[c] = late[c]
        /\ owed'[c] = owed[c] /\ todo' = todo /\ phase' = phase /\ ready' = ready
        /\ GradsKept(c)
    BY <1>2, <1>7
  <2> QED BY <2>2, <2>3 DEF GradsKept
<1>13. GradsKept(b)'
  <2>1. /\ owed[b] = k.reduced + k.kept + due[b] + late[b]
        /\ due[b] > 0 => \E p \in Enters(todo) : todo[p].bucket = b
        /\ k.kept > 0 => k.needs_sync \/ k.is_unsharded
        /\ late[b] > 0 =>
             /\ b \in Defers /\ ~ready /\ phase # "finalize" /\ ~rt.pending_finalization
             /\ \/ k.is_unsharded /\ k.input_triggers_run > 0
                \/ k.needs_sync /\ ~sync[b]
        /\ ready => ~k.needs_sync
    BY <1>2, <1>7 DEF GradsKept, k
  <2>2. Enters(todo)' = Enters(todo) /\ rt'.pending_finalization = rt.pending_finalization
    BY <1>2, <1>3 DEF Enters, SameContext
  <2>3. u.kept > 0 => u.needs_sync
    BY <1>4, <1>5, <1>8, <2>1
  <2>4. late[b] > 0 => u.needs_sync /\ ~sync[b]
    <3>1. late[b] > 0 /\ NeedsFinish(rt, b) => ~sync[b]
      BY <1>2, <1>8, <2>1 DEF DefersUnfinished, InBackward, k
    <3> QED BY <1>4, <1>5, <1>8, <2>1, <3>1
  <2>5. ready \/ sync[b] => ~u.needs_sync
    BY <1>4, <1>5, <1>8, <1>9, <2>1
  <2>6. owed'[b] = u.reduced + u.kept + due'[b] + late'[b]
    BY <1>2, <1>4, <1>5, <2>1
  <2> QED BY <1>2, <1>6, <2>1, <2>2, <2>3, <2>4, <2>5, <2>6 DEF GradsKept
<1>14. ASSUME NEW c \in Bucket
       PROVE  GradsKept(c)'
  BY <1>12, <1>13
<1> QED BY <1>10, <1>11, <1>14 DEF GradsOK

-----------------------------------------------------------------------------
(* The theorems *)

LEMMA InitGrads == Init => HooksOK /\ GradsOK
<1> SUFFICES ASSUME Init PROVE HooksOK /\ GradsOK
  OBVIOUS
<1>1. /\ phase = "idle" /\ todo = <<>> /\ graphs = <<>> /\ ~ready
      /\ ~rt.post_backward_callback_queued /\ ~rt.manual_backward_finalization
      /\ ~rt.pending_finalization
      /\ \A b \in Bucket : /\ due[b] = 0 /\ late[b] = 0 /\ owed[b] = 0
                           /\ rt.bucket[b].kept = 0 /\ rt.bucket[b].reduced = 0
  BY DEF Init, NewBucket
<1>2. HooksOK
  BY <1>1, EmptySeq DEF HooksOK, WiredEvents
<1>3. BackwardOK /\ ReductionsWaited /\ ~Stuck
  BY <1>1 DEF BackwardOK, ReductionsWaited, InBackward, Stuck
<1>4. ASSUME NEW b \in Bucket
      PROVE  GradsKept(b)
  BY <1>1 DEF GradsKept, Done
<1> QED BY <1>2, <1>3, <1>4 DEF GradsOK

LEMMA NextGrads ==
  ASSUME Automatic, IInv, WeightsInv, OrderInv, HooksOK, GradsOK, [Next]_vars
  PROVE  GradsOK'
<1>1. CASE ReachInputs
  <2>1. todo # <<>> /\ todo \in Seq(Event)
    BY <1>1 DEF ReachInputs, IInv, TypeOK
  <2>2. todo[1].bucket \in Bucket /\ todo[1].flag \in BOOLEAN
    BY <2>1, TodoFacts DEF Event
  <2> QED BY <1>1, <2>2, ReachInputsKeepsGrads
<1>2. CASE FinishBucket
  <2>1. left[1] \in Bucket
    BY <1>2, FinishBucketEffect
  <2> QED BY <1>2, <2>1, FinishBucketKeepsGrads
<1>3. CASE ReachOutputs
  BY <1>3, ReachOutputsKeepsGrads
<1>4. CASE EndBackward \/ BackwardRaises \/ FinishBucketRaises
  BY <1>4, BackwardEndsKeepGrads
<1>5. CASE EndCallback
  BY <1>5, EndCallbackKeepsGrads
<1>6. CASE \/ StartFinalizeBackward \/ EndFinalizeBackward \/ WaitFinalization
           \/ \E value \in BOOLEAN : SetRequiresGradientSync(value)
  BY <1>6, FinalizationKeepsGrads
<1>7. CASE \/ \E b \in Bucket : \/ Recompute(b) \/ UnshardBucket(b) \/ PrefetchBucket(b)
                                \/ ReshardBucket(b)
           \/ \E b \in Bucket, grad, fresh \in BOOLEAN : PreForward(b, grad, fresh)
           \/ ResetContext \/ StateDict \/ LoadStateDict
           \/ \E i \in DOMAIN graphs : DropGraph(i)
  BY <1>7, CallsKeepGrads
<1>8. CASE \E result \in ResultNames : PostForward(result)
  BY <1>8, PostForwardKeepsGrads
<1>9. CASE \E i \in DOMAIN graphs : \E used \in SUBSET Exits(graphs[i]) : StartBackward(i, used)
  BY <1>9, StartBackwardKeepsGrads
<1>10. CASE \E b \in Bucket : FinishDeferredBackward(b)
  BY <1>10, FinishDeferredBackwardKeepsGrads
<1>11. CASE OptimizerStep
  BY <1>11, OptimizerStepKeepsGrads
<1>12. ~\E value \in BOOLEAN : SetManualBackwardFinalization(value)
  BY DEF SetManualBackwardFinalization, Automatic
<1>13. CASE UNCHANGED vars
  BY <1>13, QuietKeepsGrads DEF vars, SameKept
<1> QED
  BY <1>1, <1>2, <1>3, <1>4, <1>5, <1>6, <1>7, <1>8, <1>9, <1>10, <1>11, <1>12, <1>13
     DEF Next, EngineStep

\* Every grad a backward computes is in one place until the optimizer steps: with
\* autograd, with a kernel, on the unsharded params or reduced into the local shards;
\* and a bucket that holds grads back knows it, or is still to be finished.
THEOREM GradsAccounted == Automatic => (Spec => [](HooksOK /\ GradsOK))
<1> SUFFICES ASSUME Automatic PROVE Spec => [](HooksOK /\ GradsOK)
  OBVIOUS
<1>1. Init => HooksOK /\ GradsOK
  BY InitGrads
<1>2. IInv /\ WeightsInv /\ OrderInv /\ HooksOK /\ GradsOK /\ [Next]_vars
        => (HooksOK /\ GradsOK)'
  BY NextWired, NextGrads
<1>3. Hooked
  BY DEF Automatic
<1>4. Spec => []OrderInv
  BY <1>3, EventsInOrder
<1> QED BY <1>1, <1>2, <1>4, Invariance, WeightsUpToDate, PTL DEF Spec

\* Once a syncing backward is finished the optimizer may step: the local shards are in
\* place, and every grad computed since the last zero_grad is reduced into them exactly
\* once, with nothing still in flight, when the runtime finishes each backward itself.
THEOREM ReducedBeforeStep == Automatic => (Spec => []ReadyForStep)
<1> SUFFICES ASSUME Automatic PROVE Spec => []ReadyForStep
  OBVIOUS
<1>1. IInv /\ WeightsInv /\ OrderInv /\ GradsOK => ReadyForStep
  <2> SUFFICES ASSUME IInv, WeightsInv, OrderInv, GradsOK, ready
               PROVE  ReadyForStep
    BY DEF ReadyForStep
  <2>1. /\ phase \in {"idle", "finalize"} /\ rt.pending_unshards = {}
        /\ \A b \in Bucket : ~rt.bucket[b].is_unsharded
    BY DEF WeightsInv, StepsSharded
  <2>2. ~Stuck /\ rt.reduce_grad_states = <<>> /\ rt.retired_reduce_grad_states = <<>>
    BY DEF GradsOK, BackwardOK, ReductionsWaited
  <2>3. ASSUME NEW b \in Bucket
        PROVE  rt.bucket[b].kept = 0 /\ rt.bucket[b].reduced = owed[b]
    <3>1. GradsKept(b) /\ ~ToFinish(b)
      BY <2>1, <2>2 DEF GradsOK, ToFinish
    <3>2. Enters(todo) = {}
      <4>1. todo = <<>>
        BY <2>1 DEF OrderInv, HeldOK
      <4> QED BY <4>1, EmptySeq DEF Enters
    <3>3. /\ due[b] \in Nat /\ late[b] \in Nat
          /\ rt.bucket[b].kept \in Nat /\ rt.bucket[b].reduced \in Nat
      BY InvFacts DEF BucketState
    <3>4. due[b] = 0 /\ late[b] = 0 /\ rt.bucket[b].kept = 0
      BY <2>1, <3>1, <3>2, <3>3 DEF GradsKept
    <3>5. owed[b] = rt.bucket[b].reduced + rt.bucket[b].kept + due[b] + late[b]
      BY <3>1 DEF GradsKept
    <3> QED BY <3>3, <3>4, <3>5
  <2> QED BY <2>1, <2>2, <2>3 DEF ReadyForStep
<1>2. Spec => []OrderInv
  BY EventsInOrder DEF Automatic
<1> QED BY <1>1, <1>2, GradsAccounted, Invariance, WeightsUpToDate, PTL

\* With gradient sync on, an explicit finalization leaves no grad on the unsharded
\* params, under the same condition.
THEOREM FinalizationLeavesNone == Automatic => (Spec => FinalizeReducesAll)
<1> SUFFICES ASSUME Automatic PROVE Spec => FinalizeReducesAll
  OBVIOUS
<1>1. IInv /\ WeightsInv /\ GradsOK /\ [Next]_vars
        => [WaitFinalization /\ AllSync => \A b \in Bucket : rt.bucket[b].kept = 0]_vars
  <2> SUFFICES ASSUME IInv, WeightsInv, GradsOK, WaitFinalization, AllSync, NEW b \in Bucket
               PROVE  rt.bucket[b].kept = 0
    OBVIOUS
  <2>1. phase = "idle" /\ rt.pending_finalization /\ left = <<>> /\ ~Stuck
    BY DEF WaitFinalization, GradsOK, BackwardOK, Stuck, WeightsInv, StepsSharded
  <2>2. GradsKept(b) /\ Done(b) /\ ~ToFinish(b) /\ sync[b]
    BY <2>1, EmptySeq DEF GradsOK, Done, Visited, ToFinish, AllSync
  <2>3. rt.bucket[b].kept \in Nat
    BY InvFacts DEF BucketState
  <2> QED BY <2>2, <2>3 DEF GradsKept
<1> QED BY <1>1, GradsAccounted, Invariance, WeightsUpToDate, PTL DEF Spec, FinalizeReducesAll

=============================================================================
