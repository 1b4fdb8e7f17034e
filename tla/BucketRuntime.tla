--------------------------- MODULE BucketRuntime ---------------------------
(***************************************************************************)
(* The eager bucket runtime of FlexShard on one rank: BucketCommContext    *)
(* and its BucketRuntimes (flex_shard/bucket_runtime.py), driven by        *)
(* forward hooks, by hooks on the autograd graph, by the end-of-backward   *)
(* callback and by the calls of FlexShardModule and ShardedBucketStorage.  *)
(*                                                                         *)
(* Each method of the source is an operator from runtime state to runtime  *)
(* state; each hook, callback or API call is an action that composes the   *)
(* methods it calls in their order.  What the program around the runtime   *)
(* does (which modules it calls, which outputs a loss uses, when it steps) *)
(* is nondeterministic.                                                    *)
(***************************************************************************)
EXTENDS Integers, Sequences, FiniteSets, SequencesExt

CONSTANTS
  Bucket,               \* the buckets of one root module on one device
  Registration,         \* the buckets in BucketSpec order
  ModuleOrder,          \* the buckets in the order of their modules
  ReshardAfterForward,  \* buckets freed after forward
  ReshardAfterBackward, \* buckets freed after a backward without sync
  RefillsInFinish,      \* buckets whose placement writes the storage in finish
  Defers,               \* buckets with defer_post_backward
  NoInputGrad,          \* buckets whose module's inputs need no grad
  Results,              \* how a forward call of a bucket may end
  ForwardPrefetch,      \* explicit forward lists: a function on a subset of Bucket
  BackwardPrefetch,     \* explicit backward lists: likewise
  MaxPendingReduceGrads,\* max_pending_reduce_grads; 0 keeps all
  Calls,                \* the optional calls the program makes, from CallNames
  MaxForwards,          \* bound: forward calls in a behaviour
  MaxGraphs,            \* bound: autograd graphs alive at once
  MaxWeights            \* bound: versions of the weights

CallNames == {"no_sync", "manual", "finalize", "unshard", "prefetch", "reshard",
              "reset", "state_dict", "load", "drop", "unused", "eval", "recompute",
              "raise", "unhooked"}

ResultNames == {"none", "grad", "view", "opaque"}

ASSUME ConstantsOK ==
  /\ Registration \in Seq(Bucket) /\ ModuleOrder \in Seq(Bucket)
  /\ ToSet(Registration) = Bucket /\ ToSet(ModuleOrder) = Bucket
  /\ Results \in [Bucket -> SUBSET ResultNames]
  /\ DOMAIN ForwardPrefetch \subseteq Bucket
  /\ \A b \in DOMAIN ForwardPrefetch : ForwardPrefetch[b] \subseteq Bucket
  /\ DOMAIN BackwardPrefetch \subseteq Bucket
  /\ \A b \in DOMAIN BackwardPrefetch : BackwardPrefetch[b] \subseteq Bucket
  /\ MaxPendingReduceGrads \in Nat
  /\ Calls \subseteq CallNames

VARIABLES
  rt,        \* BucketCommContext with its buckets (see Runtime)
  sync,      \* requires_gradient_sync of each bucket storage
  weights,   \* version of the local shards
  overtaken, \* history: gathers in flight over a load since the last optimizer step
  open,      \* forward calls between their pre- and post-forward hooks
  graphs,    \* autograd graphs not yet run backward, as sequences of events
  forwards,  \* forward calls so far, also the newest call's id
  phase,     \* what the calling thread is in
  todo,      \* events the running backward still has to reach, next first
  left,      \* buckets finish_buckets still has to visit
  due,       \* grads of this backward autograd has not accumulated yet
  late,      \* weight grads a kernel computes after its module's backward
  owed,      \* grads computed since the last zero_grad
  ready      \* a syncing backward was finished, and nothing used since

vars == <<rt, sync, weights, overtaken, open, graphs, forwards, phase, todo, left,
          due, late, owed, ready>>

-----------------------------------------------------------------------------
(* State of the runtime *)

\* One BucketRuntime.  created: unsharded_params exist.  alloc: their storage
\* has its bytes.  held: the version of the weights in it.  kept: grads on the
\* unsharded params.  reduced: grads reduced into the local shards' .grad.
BucketState ==
  [is_unsharded : BOOLEAN, created : BOOLEAN, alloc : BOOLEAN, held : Nat,
   backward_calls : Nat, input_triggers : Nat, input_triggers_run : Nat,
   needs_sync : BOOLEAN, kept : Nat, reduced : Nat]

NewBucket ==
  [is_unsharded |-> FALSE, created |-> FALSE, alloc |-> FALSE, held |-> 0,
   backward_calls |-> 0, input_triggers |-> 0, input_triggers_run |-> 0,
   needs_sync |-> FALSE, kept |-> 0, reduced |-> 0]

\* PendingUnshard: version is the one its all-gather read.
PendingUnshard == [bucket : Bucket, explicit : BOOLEAN, version : Nat]

Runtime ==
  [bucket : [Bucket -> BucketState],
   forward_order : Seq(Bucket), post_forward_order : Seq(Bucket),
   pending_unshards : SUBSET PendingUnshard,
   reduce_grad_states : Seq(Bucket), retired_reduce_grad_states : Seq(Bucket),
   post_backward_callback_queued : BOOLEAN, finish_at_backward_end : BOOLEAN,
   manual_backward_finalization : BOOLEAN, pending_finalization : BOOLEAN]

\* One forward call of a bucket's module leaves two events in the autograd
\* graph: "enter" on its inputs (flag: they carry the post-backward trigger)
\* and "exit" on its outputs (flag: they carry the pre-backward hook).
Event == [kind : {"enter", "exit"}, bucket : Bucket, id : Nat, flag : BOOLEAN]
OpenCall == [bucket : Bucket, id : Nat, grad : BOOLEAN, has_trigger : BOOLEAN]
Phase == {"idle", "backward", "callback", "finalize"}

InBackward == phase \in {"backward", "callback"}   \* _in_backward()

-----------------------------------------------------------------------------
(* BucketRuntime: unshard and reshard *)

\* A refill allocates its storage before the all-gather, unless the placement
\* writes it only when finished.
BeginUnshard(b, k) ==
  [k EXCEPT !.alloc = @ \/ (k.created /\ b \notin RefillsInFinish)]

FinishUnshard(b, k, version) ==
  [k EXCEPT !.alloc = @ \/ ~k.created \/ b \in RefillsInFinish,
            !.created = TRUE, !.held = version, !.is_unsharded = TRUE]

Free(k) == [k EXCEPT !.alloc = FALSE, !.held = 0]

Reshard(k) == [Free(k) EXCEPT !.is_unsharded = FALSE]

Pending(s, b) == {p \in s.pending_unshards : p.bucket = b}

Learned(s) == {p \in s.pending_unshards : ~p.explicit}

\* Mutant of ReleasePrefetches: a refill keeps the storage its begin allocated.
MutReleaseLeaks(s, P) == [s EXCEPT !.pending_unshards = @ \ P]

\* take_pending_unshard(None) and the releases of take_pending_unshard(b) and
\* release_pending_unshard(b): wait, drop the buffers, free the storage.
ReleasePrefetches(s, P) ==
  [s EXCEPT !.pending_unshards = @ \ P,
            !.bucket = [c \in Bucket |-> IF \E p \in P : p.bucket = c
                                         THEN Free(@[c]) ELSE @[c]]]

FinishOtherPrefetches(s, b) ==
  LET P == Learned(s) \ Pending(s, b)
  IN  [s EXCEPT !.pending_unshards = @ \ P,
                !.bucket = [c \in Bucket |->
                   IF \E p \in P : p.bucket = c
                   THEN FinishUnshard(c, @[c],
                          (CHOOSE p \in P : p.bucket = c).version)
                   ELSE @[c]]]

\* unshard() when not unsharded: take the bucket's prefetch, or gather now.
TakeOrGather(s, b) ==
  LET own == Pending(s, b)
      s1  == ReleasePrefetches(s, Learned(s) \ own)
  IN  [s1 EXCEPT !.pending_unshards = @ \ own,
                 !.bucket[b] = IF own = {}
                               THEN FinishUnshard(b, BeginUnshard(b, @), weights)
                               ELSE FinishUnshard(b, @, (CHOOSE p \in own : TRUE).version)]

Unshard(s, b) == IF s.bucket[b].is_unsharded THEN s ELSE TakeOrGather(s, b)

UnshardForRecompute(s, b) ==
  IF s.bucket[b].is_unsharded THEN s
  ELSE TakeOrGather(FinishOtherPrefetches(s, b), b)

\* Mutant of Prefetch: an unsharded bucket is gathered again.
MutPrefetchUnsharded(s, targets, explicit) ==
  LET new == {t \in targets : Pending(s, t) = {} /\ (explicit \/ Learned(s) = {})}
  IN  [s EXCEPT !.pending_unshards = @ \cup
                   [bucket : new, explicit : {explicit}, version : {weights}],
                !.bucket = [c \in Bucket |-> IF c \in new THEN BeginUnshard(c, @[c])
                                                          ELSE @[c]]]

\* Mutant of Prefetch: a bucket in flight is gathered again.
MutPrefetchTwice(s, targets, explicit) ==
  LET new == {t \in targets : ~s.bucket[t].is_unsharded /\ (explicit \/ Learned(s) = {})}
  IN  [s EXCEPT !.pending_unshards = @ \cup
                   [bucket : new, explicit : {explicit}, version : {weights}],
                !.bucket = [c \in Bucket |-> IF c \in new THEN BeginUnshard(c, @[c])
                                                          ELSE @[c]]]

\* prefetch() of each target: the learned order keeps one in flight.
Prefetch(s, targets, explicit) ==
  LET new == {t \in targets : /\ ~s.bucket[t].is_unsharded
                              /\ Pending(s, t) = {}
                              /\ explicit \/ Learned(s) = {}}
  IN  [s EXCEPT
         !.pending_unshards = @ \cup
            [bucket : new, explicit : {explicit}, version : {weights}],
         !.bucket = [c \in Bucket |-> IF c \in new THEN BeginUnshard(c, @[c])
                                                   ELSE @[c]]]

NextForwardBucket(s, b) ==
  {s.forward_order[i + 1] :
     i \in {j \in 1 .. Len(s.forward_order) - 1 : s.forward_order[j] = b}}

\* The latest bucket before b in post-forward order that needs a re-gather.
NextBackwardBucket(s, b) ==
  LET order == s.post_forward_order
      regather == {i \in DOMAIN order :
                     /\ \E j \in DOMAIN order : order[j] = b /\ i < j
                     /\ order[i] \in ReshardAfterForward
                     /\ ~s.bucket[order[i]].is_unsharded}
  IN  {order[i] : i \in {m \in regather : \A n \in regather : n <= m}}

PrefetchForward(s, b) ==
  IF b \in DOMAIN ForwardPrefetch
  THEN Prefetch(s, ForwardPrefetch[b], TRUE)
  ELSE Prefetch(s, NextForwardBucket(s, b), FALSE)

PrefetchBackward(s, b) ==
  IF b \in DOMAIN BackwardPrefetch
  THEN Prefetch(s, BackwardPrefetch[b], TRUE)
  ELSE Prefetch(s, NextBackwardBucket(s, b), FALSE)

Record(order, b) ==
  IF Contains(order, b) THEN order ELSE Append(order, b)

-----------------------------------------------------------------------------
(* BucketRuntime: post-backward *)

QueueCallback(s, finish) ==
  IF s.manual_backward_finalization \/ ~InBackward THEN s
  ELSE [s EXCEPT !.finish_at_backward_end = @ \/ finish,
                 !.post_backward_callback_queued = TRUE]

\* Mutant of Drained: leaves no room for the reduction about to start.
MutDrainedLate(s) ==
  LET n == Len(s.reduce_grad_states)
      drop == IF MaxPendingReduceGrads > 0 /\ n > MaxPendingReduceGrads
              THEN n - MaxPendingReduceGrads ELSE 0
  IN  [s EXCEPT !.reduce_grad_states = SubSeq(@, drop + 1, n),
                !.retired_reduce_grad_states =
                    @ \o SubSeq(s.reduce_grad_states, 1, drop)]

\* drain_reduce_grad_states_if_needed: retire the oldest until there is room.
Drained(s) ==
  LET n == Len(s.reduce_grad_states)
      drop == IF MaxPendingReduceGrads > 0 /\ n >= MaxPendingReduceGrads
              THEN n - MaxPendingReduceGrads + 1 ELSE 0
      kept == SubSeq(s.reduce_grad_states, drop + 1, n)
      retired == s.retired_reduce_grad_states \o SubSeq(s.reduce_grad_states, 1, drop)
  IN  [s EXCEPT !.reduce_grad_states = kept, !.retired_reduce_grad_states = retired]

\* The kept grads leave for the local shards' .grad.
Reduced(k) == [k EXCEPT !.reduced = @ + k.kept, !.kept = 0]

\* reduce_grads: every trainable param joins, with zeros for a missing grad.
ReduceGrads(s, b) ==
  LET s1 == Drained(s)
  IN  QueueCallback(
        [s1 EXCEPT !.reduce_grad_states = Append(@, b),
                   !.bucket[b] = Reduced(@)],
        FALSE)

\* Mutant of PostBackward: a syncing backward reshards as one without sync does.
MutPostBackwardKeeps(s, b, reshard) ==
  LET k    == [s.bucket[b] EXCEPT !.needs_sync = ~sync[b]]
      free == reshard /\ k.is_unsharded /\ b \in ReshardAfterBackward
      s1   == [s EXCEPT !.bucket[b] = IF free THEN Reshard(k) ELSE k]
  IN  IF sync[b] THEN ReduceGrads(s1, b) ELSE s1

\* post_backward().  needs_sync remembers a backward without sync.
PostBackward(s, b, reshard) ==
  LET k    == [s.bucket[b] EXCEPT !.needs_sync = ~sync[b]]
      free == reshard /\ k.is_unsharded /\ (sync[b] \/ b \in ReshardAfterBackward)
      s1   == [s EXCEPT !.bucket[b] = IF free THEN Reshard(k) ELSE k]
  IN  IF sync[b] THEN ReduceGrads(s1, b) ELSE s1

Uncounted(k) ==
  [k EXCEPT !.backward_calls = 0, !.input_triggers = 0, !.input_triggers_run = 0]

ResetCounts(s, b) == [s EXCEPT !.bucket[b] = Uncounted(@)]

\* Mutant of NeedsFinish: forgets grads kept by resharded buckets.
MutNeedsFinishUnsharded(s, b) == s.bucket[b].is_unsharded

NeedsFinish(s, b) ==
  s.bucket[b].is_unsharded \/ (s.bucket[b].needs_sync /\ sync[b])

\* The pre-backward hook of one of the bucket's forward calls.
PreBackwardHook(s, b) ==
  LET s1 == Unshard(QueueCallback(s, TRUE), b)
      k  == s1.bucket[b]
      s2 == IF k.backward_calls > 1 /\ k.needs_sync /\ sync[b] /\ b \notin Defers
            THEN PostBackward(s1, b, FALSE) ELSE s1
  IN  PrefetchBackward(s2, b)

\* Mutant of OnInputGrads: fires at each call's trigger.
MutOnInputGradsEager(s, b) ==
  IF b \notin Defers THEN ResetCounts(PostBackward(s, b, TRUE), b) ELSE s

\* Mutant of OnInputGrads: counts the calls still to come down.
MutOnInputGradsCountsDown(s, b) ==
  LET s1 == [s EXCEPT !.bucket[b].backward_calls = @ - 1]
  IN  IF b \notin Defers /\ s1.bucket[b].backward_calls = 0
      THEN ResetCounts(PostBackward(s1, b, TRUE), b)
      ELSE s1

\* The trigger fires post-backward once every call's trigger ran.
OnInputGrads(s, b) ==
  LET s1 == [s EXCEPT !.bucket[b].input_triggers_run = @ + 1]
      k  == s1.bucket[b]
  IN  IF /\ b \notin Defers
         /\ k.backward_calls = k.input_triggers
         /\ k.input_triggers = k.input_triggers_run
      THEN ResetCounts(PostBackward(s1, b, TRUE), b)
      ELSE s1

\* Mutant of WaitAndClear: forgets the retired reductions.
MutWaitAndClearPending(s) == [s EXCEPT !.reduce_grad_states = <<>>]

WaitAndClear(s) ==
  [s EXCEPT !.reduce_grad_states = <<>>, !.retired_reduce_grad_states = <<>>]

-----------------------------------------------------------------------------
(* Forward *)

\* Record an event in the graph under construction, the newest one.
Recorded(gs, e) == [gs EXCEPT ![Len(gs)] = Append(@, e)]

\* The program is outside forward and backward.
Between == phase = "idle" /\ open = <<>>

NoLateGrads == \A b \in Bucket : late[b] = 0

IsOpen(b) == \E i \in DOMAIN open : open[i].bucket = b

\* Buckets whose outputs hid their tensors, so that no hook re-gathers them for
\* the backward they await.  Without "unhooked" the program runs that backward
\* before it calls or reshards such a bucket, or runs another graph's backward.
Unhooked ==
  {b \in Bucket : \E i \in DOMAIN graphs : \E j \in DOMAIN graphs[i] :
     graphs[i][j].kind = "exit" /\ graphs[i][j].bucket = b /\ ~graphs[i][j].flag}

Spares(B) == "unhooked" \in Calls \/ Unhooked \cap B = {}

\* check_no_raised_backward: outside a backward, a queued callback was dropped.
NoRaisedBackward == ~rt.post_backward_callback_queued

CheckOutsideBackward ==
  ~InBackward /\ NoRaisedBackward /\ ~rt.pending_finalization

\* pre_forward_hook outside backward.  grad: autograd records the call; fresh:
\* the call starts a graph of its own (a microbatch).  A module does not call
\* itself.
PreForward(b, grad, fresh) ==
  LET gs == IF fresh THEN Append(graphs, <<>>) ELSE graphs
      has_trigger == grad /\ b \notin NoInputGrad
      s1 == Unshard([rt EXCEPT !.forward_order = Record(@, b)], b)
  IN  /\ phase = "idle" /\ NoRaisedBackward /\ ~rt.pending_finalization
      /\ forwards < MaxForwards
      /\ ~IsOpen(b) /\ Spares({b})
      /\ open # <<>> => grad = Last(open).grad /\ ~fresh
      /\ grad \/ ("eval" \in Calls /\ ~fresh)
      /\ grad => gs # <<>> /\ Len(gs) <= MaxGraphs
      /\ rt' = PrefetchForward(s1, b)
      /\ forwards' = forwards + 1
      /\ open' = Append(open, [bucket |-> b, id |-> forwards',
                               grad |-> grad, has_trigger |-> has_trigger])
      /\ graphs' = IF grad
                   THEN Recorded(gs, [kind |-> "enter", bucket |-> b,
                                      id |-> forwards', flag |-> has_trigger])
                   ELSE gs
      /\ ready' = FALSE
      /\ UNCHANGED <<sync, weights, overtaken, phase, todo, left, due, late,
                     owed>>

\* A forward call that needs a backward, counted for the post-backward trigger.
Called(k, has_trigger) ==
  [k EXCEPT !.backward_calls = @ + 1,
            !.input_triggers = IF has_trigger THEN @ + 1 ELSE @]

\* post_forward_hook outside backward.  result is what the call returned:
\* nothing that needs a backward (or it raised: the hook runs then too), a
\* tensor, a view of the bucket's storage, or tensors hidden in an object.
PostForward(result) ==
  LET call == Last(open)
      b  == call.bucket
      s1 == [rt EXCEPT !.post_forward_order = Record(@, b)]
  IN  /\ phase = "idle" /\ open # <<>>
      /\ result \in (IF call.grad THEN Results[b] ELSE {"none"})
      /\ open' = Front(open)
      /\ rt' =
           CASE result = "none" -> [s1 EXCEPT !.bucket[b] = Reshard(@)]
             [] result = "opaque" -> [s1 EXCEPT !.bucket[b] = Called(@, FALSE)]
             [] OTHER ->
                  [s1 EXCEPT !.bucket[b] =
                     IF b \in ReshardAfterForward /\ result # "view"
                     THEN Reshard(Called(@, call.has_trigger))
                     ELSE Called(@, call.has_trigger)]
      /\ graphs' = IF result = "none" THEN graphs
                   ELSE Recorded(graphs, [kind |-> "exit", bucket |-> b,
                                          id |-> call.id,
                                          flag |-> result # "opaque"])
      /\ UNCHANGED <<sync, weights, overtaken, forwards, phase, todo, left, due,
                     late, owed, ready>>

-----------------------------------------------------------------------------
(* Backward: autograd runs a graph's events in reverse *)

Exits(g) == {e.id : e \in {g[i] : i \in {j \in DOMAIN g : g[j].kind = "exit"}}}

\* The events of the calls a loss uses, last first.
Walk(g, used) ==
  LET chosen == {i \in DOMAIN g : g[i].id \in used}
      n == Cardinality(chosen)
  IN  [k \in 1 .. n |-> g[CHOOSE i \in chosen :
                            Cardinality({j \in chosen : j > i}) = k - 1]]

StartBackward(i, used) ==
  /\ Between /\ NoRaisedBackward /\ NoLateGrads
  /\ used # {} /\ used \subseteq Exits(graphs[i])
  /\ "unused" \in Calls \/ used = Exits(graphs[i])
  /\ Len(graphs) > 1 => Spares(Bucket)
  /\ phase' = "backward"
  /\ todo' = Walk(graphs[i], used)
  /\ graphs' = RemoveAt(graphs, i)
  /\ ready' = FALSE
  /\ UNCHANGED <<rt, sync, weights, overtaken, open, forwards, left, due, late,
                 owed>>

\* The call's outputs' node: its pre-backward hook, then the module's backward,
\* which computes a grad of its params.
ReachOutputs ==
  LET e == todo[1]
  IN  /\ phase = "backward" /\ todo # <<>> /\ e.kind = "exit"
      /\ rt' = IF e.flag THEN PreBackwardHook(rt, e.bucket) ELSE rt
      /\ due' = [due EXCEPT ![e.bucket] = @ + 1]
      /\ owed' = [owed EXCEPT ![e.bucket] = @ + 1]
      /\ todo' = Tail(todo)
      /\ UNCHANGED <<sync, weights, overtaken, open, graphs, forwards, phase,
                     left, late, ready>>

\* The call's inputs: autograd accumulates the params' grads once the last use
\* in this backward has run, then the trigger runs.  A deferring bucket's
\* weight grads do not exist yet.
ReachInputs ==
  LET e == todo[1]
      b == e.bucket
      last == \A i \in 2 .. Len(todo) : todo[i].bucket # b
      s1 == IF last /\ b \notin Defers
            THEN [rt EXCEPT !.bucket[b].kept = @ + due[b]] ELSE rt
  IN  /\ phase = "backward" /\ todo # <<>> /\ e.kind = "enter"
      /\ rt' = IF e.flag THEN OnInputGrads(s1, b) ELSE s1
      /\ due' = IF last THEN [due EXCEPT ![b] = 0] ELSE due
      /\ late' = IF last /\ b \in Defers
                 THEN [late EXCEPT ![b] = @ + due[b]] ELSE late
      /\ todo' = Tail(todo)
      /\ UNCHANGED <<sync, weights, overtaken, open, graphs, forwards, phase,
                     left, owed, ready>>

\* pre_forward_hook in backward: activation checkpointing replays a call whose
\* backward is still to finish; its post-forward hook then does nothing.
Recompute(b) ==
  /\ "recompute" \in Calls
  /\ phase = "backward" /\ \E i \in DOMAIN todo : todo[i].bucket = b
  /\ rt' = UnshardForRecompute(rt, b)
  /\ UNCHANGED <<sync, weights, overtaken, open, graphs, forwards, phase, todo,
                 left, due, late, owed, ready>>

\* A kernel's late weight grads, then finish_deferred_backward(param); not while
\* the bucket's module runs a forward, which nothing in the code checks, and
\* before the next backward (StartBackward).
FinishDeferredBackward(b) ==
  LET s1 == [rt EXCEPT !.bucket[b].kept = @ + late[b]]
  IN  /\ b \in Defers /\ late[b] > 0 /\ ~IsOpen(b)
      /\ phase \in {"idle", "backward"}
      /\ phase = "idle" => NoRaisedBackward
      /\ \A i \in DOMAIN todo : todo[i].bucket # b
      /\ rt' = IF NeedsFinish(s1, b) THEN PostBackward(s1, b, TRUE) ELSE s1
      /\ late' = [late EXCEPT ![b] = 0]
      /\ UNCHANGED <<sync, weights, overtaken, open, graphs, forwards, phase,
                     todo, left, due, owed, ready>>

\* Autograd ran every node; it then runs the queued callback, if any.
EndBackward ==
  /\ phase = "backward" /\ todo = <<>>
  /\ phase' = IF rt.post_backward_callback_queued THEN "callback" ELSE "idle"
  /\ left' = IF rt.post_backward_callback_queued /\ rt.finish_at_backward_end
             THEN Registration ELSE <<>>
  /\ UNCHANGED <<rt, sync, weights, overtaken, open, graphs, forwards, todo, due,
                 late, owed, ready>>

\* A node raises: autograd drops the graph, its grads and the queued callback.
BackwardRaises ==
  /\ "raise" \in Calls
  /\ phase = "backward"
  /\ phase' = "idle" /\ todo' = <<>>
  /\ due' = [b \in Bucket |-> 0]
  /\ UNCHANGED <<rt, sync, weights, overtaken, open, graphs, forwards, left, late,
                 owed, ready>>

\* Mutant of DefersUnfinished: a backward ends without its late grads.
MutDefersUnfinishedNever(b) == FALSE

\* The condition under which finish_buckets raises.
DefersUnfinished(b) ==
  /\ NeedsFinish(rt, b)
  /\ b \in Defers /\ sync[b] /\ rt.bucket[b].input_triggers_run > 0 /\ InBackward

\* One iteration of finish_buckets.
FinishBucket ==
  LET b == left[1]
  IN  /\ phase \in {"callback", "finalize"} /\ left # <<>>
      /\ ~DefersUnfinished(b)
      /\ rt' = ResetCounts(IF NeedsFinish(rt, b) THEN PostBackward(rt, b, TRUE)
                                                ELSE rt, b)
      /\ left' = Tail(left)
      /\ UNCHANGED <<sync, weights, overtaken, open, graphs, forwards, phase,
                     todo, due, late, owed, ready>>

\* finish_buckets raises out of the callback, so out of the backward.
FinishBucketRaises ==
  /\ phase = "callback" /\ left # <<>> /\ DefersUnfinished(left[1])
  /\ phase' = "idle" /\ left' = <<>>
  /\ UNCHANGED <<rt, sync, weights, overtaken, open, graphs, forwards, todo, due,
                 late, owed, ready>>

AllSync == \A b \in Bucket : sync[b]

\* The rest of the end-of-backward callback.
EndCallback ==
  LET finish == rt.finish_at_backward_end
      s1 == WaitAndClear(rt)
      s2 == IF finish THEN ReleasePrefetches(s1, s1.pending_unshards) ELSE s1
  IN  /\ phase = "callback" /\ left = <<>>
      /\ rt' = [s2 EXCEPT !.finish_at_backward_end = FALSE,
                          !.post_backward_callback_queued = FALSE]
      /\ phase' = "idle"
      /\ ready' = (finish /\ AllSync)
      /\ UNCHANGED <<sync, weights, overtaken, open, graphs, forwards, todo, left,
                     due, late, owed>>
-----------------------------------------------------------------------------
(* FlexShardModule and ShardedBucketStorage *)

\* finalize_backward: not between a forward and its backward.
StartFinalizeBackward ==
  /\ "finalize" \in Calls
  /\ Between /\ graphs = <<>>
  /\ CheckOutsideBackward
  /\ NoLateGrads
  /\ phase' = "finalize"
  /\ left' = Reverse(ModuleOrder)
  /\ UNCHANGED <<rt, sync, weights, overtaken, open, graphs, forwards, todo, due,
                 late, owed, ready>>

EndFinalizeBackward ==
  /\ phase = "finalize" /\ left = <<>>
  /\ rt' = [ReleasePrefetches(rt, rt.pending_unshards)
              EXCEPT !.pending_finalization = TRUE]
  /\ phase' = "idle"
  /\ UNCHANGED <<sync, weights, overtaken, open, graphs, forwards, todo, left,
                 due, late, owed, ready>>

\* GradientReductionHandle.wait(), at once for a synchronous finalize_backward.
WaitFinalization ==
  /\ phase = "idle" /\ rt.pending_finalization
  /\ rt' = [WaitAndClear(rt) EXCEPT !.pending_finalization = FALSE]
  /\ ready' = AllSync
  /\ UNCHANGED <<sync, weights, overtaken, open, graphs, forwards, phase, todo,
                 left, due, late, owed>>

\* unshard() of a bucket; of every bucket, FlexShardModule.unshard().  Also what
\* waiting on the handle of unshard(async_op=True) does for a pending bucket.
UnshardBucket(b) ==
  /\ "unshard" \in Calls /\ Between /\ CheckOutsideBackward
  /\ rt' = Unshard(rt, b)
  /\ ready' = FALSE
  /\ UNCHANGED <<sync, weights, overtaken, open, graphs, forwards, phase, todo,
                 left, due, late, owed>>

\* A bucket's part of FlexShardModule.unshard(async_op=True).
PrefetchBucket(b) ==
  /\ "prefetch" \in Calls /\ Between /\ CheckOutsideBackward
  /\ rt' = Prefetch(rt, {b}, TRUE)
  /\ ready' = FALSE
  /\ UNCHANGED <<sync, weights, overtaken, open, graphs, forwards, phase, todo,
                 left, due, late, owed>>

ReshardBucket(b) ==
  LET s1 == ReleasePrefetches(rt, Pending(rt, b))
  IN  /\ "reshard" \in Calls /\ Between /\ CheckOutsideBackward /\ Spares({b})
      /\ rt' = IF s1.bucket[b].is_unsharded
               THEN [s1 EXCEPT !.bucket[b] = Reshard(@)] ELSE s1
      /\ UNCHANGED <<sync, weights, overtaken, open, graphs, forwards, phase,
                     todo, left, due, late, owed, ready>>

ReshardUnsharded(s) ==
  [s EXCEPT !.bucket = [b \in Bucket |-> IF @[b].is_unsharded THEN Reshard(@[b])
                                                              ELSE @[b]]]

\* FlexShardModule.reshard(): reset() of the context, when the backwards of the
\* forwards so far will not run.
ResetContext ==
  LET s1 == ReshardUnsharded(WaitAndClear(ReleasePrefetches(rt, rt.pending_unshards)))
  IN  /\ "reset" \in Calls /\ Between /\ NoRaisedBackward
      /\ rt' = [s1 EXCEPT !.pending_finalization = FALSE,
                          !.bucket = [b \in Bucket |-> Uncounted(@[b])]]
      /\ graphs' = <<>>
      /\ UNCHANGED <<sync, weights, overtaken, open, forwards, phase, todo, left,
                     due, late, owed, ready>>

\* The state-dict pre-hook of every bucket's modules.
StateDict ==
  /\ "state_dict" \in Calls /\ Between /\ Spares(Bucket)
  /\ rt' = ReshardUnsharded(rt)
  /\ UNCHANGED <<sync, weights, overtaken, open, graphs, forwards, phase, todo,
                 left, due, late, owed, ready>>

\* load_state_dict, between steps: the same pre-hook, then new weights.  The
\* pre-hook drops no prefetch: one left in flight (by the forward lists or the
\* learned order of an eval or partial forward, or by unshard(async_op=True))
\* stays, and brings what it read before.
LoadStateDict ==
  /\ "load" \in Calls /\ Between /\ graphs = <<>>
  /\ weights < MaxWeights
  /\ rt' = ReshardUnsharded(rt)
  /\ weights' = weights + 1
  /\ overtaken' = overtaken \cup {<<p.bucket, p.version>> : p \in rt.pending_unshards}
  /\ UNCHANGED <<sync, open, graphs, forwards, phase, todo, left, due, late, owed,
                 ready>>

\* optimizer.step() and zero_grad(), right after a syncing backward.
OptimizerStep ==
  /\ Between /\ graphs = <<>> /\ ready /\ weights < MaxWeights
  /\ weights' = weights + 1 /\ overtaken' = {}
  /\ rt' = [rt EXCEPT !.bucket = [b \in Bucket |-> [@[b] EXCEPT !.reduced = 0]]]
  /\ owed' = [b \in Bucket |-> 0]
  /\ ready' = FALSE
  /\ UNCHANGED <<sync, open, graphs, forwards, phase, todo, left, due, late>>

SetRequiresGradientSync(value) ==
  /\ "no_sync" \in Calls /\ Between /\ ~rt.pending_finalization
  /\ sync' = [b \in Bucket |-> value]
  /\ UNCHANGED <<rt, weights, overtaken, open, graphs, forwards, phase, todo,
                 left, due, late, owed, ready>>

\* Switched between optimizer steps.
SetManualBackwardFinalization(value) ==
  /\ "manual" \in Calls /\ Between /\ graphs = <<>>
  /\ \A b \in Bucket : owed[b] = 0
  /\ rt' = [rt EXCEPT !.manual_backward_finalization = value]
  /\ UNCHANGED <<sync, weights, overtaken, open, graphs, forwards, phase, todo,
                 left, due, late, owed, ready>>

\* The program drops an output without running its backward.
DropGraph(i) ==
  /\ "drop" \in Calls /\ Between
  /\ graphs' = RemoveAt(graphs, i)
  /\ UNCHANGED <<rt, sync, weights, overtaken, open, forwards, phase, todo, left,
                 due, late, owed, ready>>

-----------------------------------------------------------------------------
Init ==
  /\ rt = [bucket |-> [b \in Bucket |-> NewBucket],
           forward_order |-> <<>>, post_forward_order |-> <<>>,
           pending_unshards |-> {},
           reduce_grad_states |-> <<>>, retired_reduce_grad_states |-> <<>>,
           post_backward_callback_queued |-> FALSE,
           finish_at_backward_end |-> FALSE,
           manual_backward_finalization |-> FALSE, pending_finalization |-> FALSE]
  /\ sync = [b \in Bucket |-> TRUE]
  /\ weights = 1 /\ overtaken = {}
  /\ open = <<>> /\ graphs = <<>> /\ forwards = 0
  /\ phase = "idle" /\ todo = <<>> /\ left = <<>>
  /\ due = [b \in Bucket |-> 0] /\ late = [b \in Bucket |-> 0]
  /\ owed = [b \in Bucket |-> 0]
  /\ ready = FALSE

\* What autograd and the callback do without the program.
EngineStep ==
  \/ ReachOutputs \/ ReachInputs \/ EndBackward
  \/ FinishBucket \/ FinishBucketRaises \/ EndCallback \/ EndFinalizeBackward

Next ==
  \/ EngineStep
  \/ \E b \in Bucket, grad, fresh \in BOOLEAN : PreForward(b, grad, fresh)
  \/ \E result \in ResultNames : PostForward(result)
  \/ \E i \in DOMAIN graphs : \E used \in SUBSET Exits(graphs[i]) : StartBackward(i, used)
  \/ \E b \in Bucket : Recompute(b)
  \/ \E b \in Bucket : FinishDeferredBackward(b)
  \/ BackwardRaises
  \/ StartFinalizeBackward
  \/ WaitFinalization
  \/ \E b \in Bucket : UnshardBucket(b)
  \/ \E b \in Bucket : PrefetchBucket(b)
  \/ \E b \in Bucket : ReshardBucket(b)
  \/ ResetContext
  \/ StateDict
  \/ LoadStateDict
  \/ OptimizerStep
  \/ \E value \in BOOLEAN : SetRequiresGradientSync(value)
  \/ \E value \in BOOLEAN : SetManualBackwardFinalization(value)
  \/ \E i \in DOMAIN graphs : DropGraph(i)

\* The calling thread does not stop inside a backward.
Spec == Init /\ [][Next]_vars /\ WF_vars(EngineStep)

-----------------------------------------------------------------------------
(* Properties *)

\* Types of every variable.
TypeOK ==
  /\ rt \in Runtime
  /\ sync \in [Bucket -> BOOLEAN]
  /\ weights \in Nat /\ overtaken \subseteq Bucket \X Nat
  /\ open \in Seq(OpenCall) /\ graphs \in Seq(Seq(Event)) /\ forwards \in Nat
  /\ phase \in Phase /\ todo \in Seq(Event) /\ left \in Seq(Bucket)
  /\ due \in [Bucket -> Nat] /\ late \in [Bucket -> Nat] /\ owed \in [Bucket -> Nat]
  /\ ready \in BOOLEAN

\* Buckets whose module is running: between its forward hooks, or between its
\* outputs and its inputs in the running backward.
InUse ==
  {open[i].bucket : i \in DOMAIN open}
  \cup {todo[i].bucket : i \in {j \in DOMAIN todo :
          /\ todo[j].kind = "enter"
          /\ \A n \in DOMAIN todo : todo[n].kind = "exit" => todo[n].id # todo[j].id}}

\* A running module's params have their storage: nothing (another bucket's
\* hook, another call's trigger, a callback, a prefetch released) frees what
\* its forward or its backward still reads.
NoFreedRead ==
  \A b \in InUse : rt.bucket[b].is_unsharded /\ rt.bucket[b].alloc

\* The current weights, or those of a gather that a load overtook since the last
\* optimizer step.
Current(b, version) == version = weights \/ <<b, version>> \in overtaken

\* A running module computes with the current weights, never with ones gathered
\* before an optimizer step; with ones older than a checkpoint load only if their
\* gather was in flight over the load, which nothing in the code prevents.
CurrentWeights == \A b \in InUse : Current(b, rt.bucket[b].held)

\* Storage is allocated exactly for the unsharded buckets and for the refills
\* in flight that write it: an all-gather never writes freed memory, and no
\* diverged or released prefetch leaks a full bucket.
StorageAccounted ==
  \A b \in Bucket :
    LET k == rt.bucket[b]
        refill == Pending(rt, b) # {} /\ k.created /\ b \notin RefillsInFinish
    IN  k.alloc <=> k.is_unsharded \/ refill

\* A bucket is gathered at most once at a time, and the learned order holds one
\* extra bucket of memory at most.
PrefetchesBounded ==
  /\ \A p \in rt.pending_unshards : ~rt.bucket[p.bucket].is_unsharded
  /\ \A p, q \in rt.pending_unshards : p.bucket = q.bucket => p = q
  /\ \A p, q \in Learned(rt) : p = q

\* Once a syncing backward is finished the optimizer may step: the local shards
\* are in place, and every grad computed since the last zero_grad is reduced
\* into them exactly once, with nothing still in flight.
ReadyForStep ==
  ready => /\ \A b \in Bucket : /\ ~rt.bucket[b].is_unsharded
                                /\ rt.bucket[b].kept = 0
                                /\ rt.bucket[b].reduced = owed[b]
           /\ rt.pending_unshards = {}
           /\ rt.reduce_grad_states = <<>>
           /\ rt.retired_reduce_grad_states = <<>>

\* With sync on, finalize_backward leaves no grad on the unsharded params.
FinalizeReducesAll ==
  [][WaitFinalization /\ AllSync => \A b \in Bucket : rt.bucket[b].kept = 0]_vars

\* At most max_pending_reduce_grads packed reduce-scatter inputs are alive.
ReduceBacklogBounded ==
  MaxPendingReduceGrads > 0 => Len(rt.reduce_grad_states) <= MaxPendingReduceGrads

\* A trigger that reshards its bucket is the last of the bucket's calls in that
\* backward: "no other call's backward still needs the params".  With two graphs
\* alive it may not be: the callback of one backward clears the counts of the other.
NoEarlyPostBackward ==
  [][\A b \in Bucket :
       ReachInputs /\ rt.bucket[b].is_unsharded /\ ~rt'.bucket[b].is_unsharded
       => \A i \in DOMAIN todo' : todo'[i].bucket # b]_vars

\* What a backward leaves once its callback ran.
Settled ==
  /\ phase = "idle" /\ NoRaisedBackward
  /\ rt.pending_unshards = {}
  /\ rt.reduce_grad_states = <<>> /\ rt.retired_reduce_grad_states = <<>>
  /\ \A b \in Bucket : rt.bucket[b].is_unsharded => ~sync[b] /\ b \notin ReshardAfterBackward

\* Every backward ends with its reductions waited on, its prefetches released
\* and its buckets resharded as the settings ask.
BackwardSettles == phase = "backward" ~> Settled
=============================================================================
