# FlexShard, specified in TLA+

TLA+ models of FlexShard (`src/flex_shard/`), checked with TLC on small
instances and, in part, proved with TLAPS for every value of the constants. Paths
below are relative to `src/flex_shard/` unless they start with `src/`.

| Module | What it is |
| --- | --- |
| `BucketRuntime` | the eager bucket runtime of one rank, driven by autograd and by the API |
| `BucketRuntimeProofs` | its inductive invariants and theorems: storage, what a running module reads, what becomes of every grad |
| `BucketStreams` | the device streams and events behind the runtime, and the allocator's pools |
| `BucketStreamsProofs` | its inductive invariant and theorems |
| `MuonStep` | what a DistMuon step promises the training loop |
| `MuonPipeline` | the two-stream pipeline that implements it |
| `MuonPipelineProofs` | its inductive invariants and theorems, and that it implements `MuonStep` |
| `TensorRegions` | rectangular regions, intersections, reads and writes of row-major buffers |
| `MuonSchedule` | storage domains, the three kinds of routes, their checks, packed schedules |
| `MuonLayout` | declared compute layouts, resolved against storage |
| `MuonExchange`, `MuonExchangeProofs` | one bucket planned, compared and exchanged by all ranks of a group, and theorems on where they agree |
| `OwnerChoice`, `OwnerChoiceProofs` | the choice of a host and rank for the next load; facts about it and about sums |
| `MuonOwners`, `MuonOwnersProofs` | DistMuon's owners, bucket after bucket, and theorems for any number of them |
| `MatrixAssignment`, `MatrixAssignmentProofs` | the bucket planner's assignment, group after group, and its theorems |
| `MuonState`, `MuonStateProofs` | steps, momentum and `load_state_dict` of one rank, with its theorems |
| `PlacementContract` | cells, storage infos, layouts and reduction factors that all placements share |
| `ShardPlacement`, `BlockShardPlacement`, `BucketedBlockPlacement`, `MixedBucket` | the placements' operators |
| `OwnedPlacement` | owner segments and what they are lowered to |
| `PlacementBuckets` | a bucket's life under its placement, on all ranks |
| `OwnedBuckets` | the same for buckets made from owner segments |
| `MC...` | instances for TLC |

Which uses which:

    BucketRuntime <- BucketRuntimeProofs
    BucketStreams <- BucketStreamsProofs
    MuonStep <- MuonPipeline <- MuonPipelineProofs
    MuonState <- MuonStateProofs
    TensorRegions <- MuonSchedule <- MuonLayout <- MuonExchange <- MuonExchangeProofs
    OwnerChoice <- MuonOwners, MatrixAssignment, OwnedPlacement
    OwnerChoice <- OwnerChoiceProofs <- MuonOwnersProofs, MatrixAssignmentProofs
    TensorRegions <- PlacementContract <- Shard-, BlockShard-, BucketedBlockPlacement
    ShardPlacement, BlockShardPlacement <- MixedBucket
    all of these <- PlacementBuckets;  PlacementBuckets, OwnedPlacement <- OwnedBuckets

## 1. Inventory

FlexShard keeps each parameter of a module as a shard per rank, groups shards
into *buckets*, gathers a bucket before its module needs it, and reduces its
gradients after. The parts, what each keeps, and what makes it correct:

**Eager bucket runtime** (`flex_shard/bucket_runtime.py`). One
`BucketCommContext` per root module and device, one `BucketRuntime` per bucket.
*State*: per bucket whether it is unsharded, its persistent unsharded params and
their storage, counts of forward calls and triggers awaiting backward, whether a
backward without sync left grads; per context the learned forward and
post-forward orders, the unshards in flight, the reductions in flight, whether
the end-of-backward callback is queued. *Operations*: pre- and post-forward
hooks, pre-backward hooks on outputs, the trigger on inputs, the callback,
prefetch, reset, finalization, the state-dict pre-hook. *Interaction*: hooks run
on the calling thread, interleaved with autograd's order and with API calls;
communication runs on side streams. *Hard*: triggers of several calls of one
module, losses that use part of the outputs, microbatches with and without sync,
a prefetch order that diverges from what was learned, activation-checkpoint
recomputation inside a backward, backwards that raise, weight grads computed
after their module's backward. *Correct when*: no module reads storage that was
freed or holds old weights; every gradient reaches the local shard exactly once
before the optimizer steps; storage does not leak; memory bounds hold.

**FlexShardModule** (`flex_shard/flex_shard.py`). `flex_shard()` wraps a module,
`to_empty` materializes it, `relayout_bucket` moves a bucket to another layout;
runtime methods forward to the context. *Hard*: which calls are legal in which
state. *Correct when*: illegal calls raise and legal ones keep the runtime's
invariants.

**Bucket storage** (`flex_shard/bucket_storage.py`). Assigns parameters to
buckets, lays them out in one byte buffer per rank, holds the per-bucket
settings (`reshard_after_*`, prefetch lists). *Correct when*: every parameter is
in exactly one bucket, and layouts of different parameters do not overlap.

**Bucket communication** (`flex_shard/bucket_comm.py`). Handles of asynchronous
unshards and reductions: streams, events, keep-alive of buffers
(`StreamHandoff`). *Hard*: memory freed on one stream while another still uses
it. *Correct when*: each buffer outlives its last use on every stream.

**Placements** (`custom_placements/`). `Shard`, `BlockShard`, `Owned`, the
quantized bucketed block shards, mixed buckets and the owner-row transport:
pure layout arithmetic, packing and collectives. *Correct when*: unsharding
inverts sharding, every element travels once, and ranks agree on each
collective. `_copy_kernels.py` moves data and keeps no control state. The
quantized placements cache one forward payload for the backward re-gather;
*correct when* the cached payload is never older than the weights.

**Checkpoint and layout adapters** (`flex_shard/checkpoint.py`,
`layout_adapters/`). Descriptions of shards for DTensor and SPMD types.
*Correct when*: the described offsets are the stored ones.

**DistMuon redistribution runtime**
(`dist_muon/_optimizer_reshard_runtime.py`). Runs the optimizer's bucket plans
over two streams and two rolling buffer slots. *State*: the slots' reserved
buffers, three events per slot, the locals of `run()`. *Hard*: the host runs
ahead of both streams; slots are reused; prefetching stops at local buckets; a
callback may raise with work queued. *Correct when*: no slot is overwritten
before its last reader ran, and the training loop sees every update.

**DistMuon schedules, planner, optimizer** (`dist_muon/`). Plan which rank
computes which matrix, and the packed all-to-all between the storage and compute
layouts. *Correct when*: send and receive lists of all ranks agree, and every
matrix is computed once.

**Compiled unshard** (`_BucketUnshard`, `_pre_forward_compile`): the form of the
hooks that torch.compile captures.

## 2. Plan

Done, in this order: `BucketRuntime` and `MuonPipeline` with their proofs (the
control that is hardest to test); the packed all-to-all of DistMuon, its owners,
planner and state; the streams of `bucket_comm.py`; the placements, mixed
buckets and owner segments.

Left, with what each would show:

1. Buckets that span several modules (group forward passes), and several ranks:
   all ranks issue the same collectives in the same order.
2. The transport of owner rows through symmetric memory, whose buffers two
   streams may share.
3. The lifecycle (`flex_shard`, `to_empty`, `relayout_bucket`) and the assignment
   of parameters to buckets.
4. The quantized-shard cache.

Proved so far: the invariants of the runtime, the streams, the pipeline, the
owners, the planner and the optimizer's state, and of the exchange that its ranks
agree. A proof of `AcceptedLayoutsPlan` would come next; it needs that regions cut
along two dimensions add up to the tensor.

## 3. BucketRuntime

### Correspondence

`rt` is `BucketCommContext` with its buckets. Each method of the source is an
operator from runtime state to runtime state (`Unshard`, `Prefetch`,
`PostBackward`, `ReduceGrads`, ...), in the order and with the conditions of the
code, so an action composes exactly the methods its hook calls.

- A bucket's params are abstracted to what the properties tell apart: whether
  they exist (`created`), whether their storage has its bytes (`alloc`), and
  which version of the weights it holds (`held`). `RefillsInFinish` are the
  buckets whose placement allocates and writes the storage only when a refill is
  finished.
- Grads are counted. `due` are grads autograd has computed in the running
  backward and not yet accumulated, `kept` are on the unsharded params, `reduced`
  are in the local shards' `.grad`; `owed` counts all computed since the last
  `zero_grad`.
- A forward call leaves two events in the autograd graph, on its inputs and on
  its outputs, with a flag for the trigger or the hook it carries. `Walk` is the
  order in which autograd reaches the events of the calls a loss uses.
- The thread is `"idle"`, in a `"backward"`, in its final `"callback"`
  (`finish_buckets` visits one bucket per step) or in `"finalize"`.
- `PostForward(result)` has one result per branch of `_post_forward`: nothing
  that needs a backward, a tensor, a view of the bucket's storage, or an object
  that hides its tensors.
- Recomputation in a backward is one action: the replayed forward's post-forward
  hook returns early.

What the program and autograd do (`PreForward`'s choice of module, `StartBackward`,
`OptimizerStep`, `DropGraph`, ...) is nondeterministic within these assumptions:

- a module does not call itself; a deferring bucket's late grads are finished
  before the next backward and not while its module runs a forward;
- the optimizer steps directly after a syncing backward or finalization, with no
  graph outstanding; manual finalization is switched between steps, and gradient
  sync not while a finalization is pending;
- `load_state_dict` is called between a step and the next graph; `reset` is called
  when outstanding graphs will not run;
- (`Spares`) unless `"unhooked"` is allowed, a bucket whose outputs hid their
  tensors is left alone until its backward: no hook can gather it again.

One step gathers completely (`FinishUnshard`) and one step is a whole reduction:
the streams inside a gather or a reduction are those of `BucketStreams`.

### Runs

The program calls that a run allows are its `Calls`. `CHECK_DEADLOCK FALSE`: a
training program may stop, and the bounds stop it.

| Run | Question | Instance |
| --- | --- | --- |
| `accumulate` | is every grad reduced once before a step, and does each backward settle? | 2 buckets, one resharded after forward and one not, one without trigger; 3 forwards, 2 graphs; no-sync, dropped graphs, partial losses, eval, state dict and load, prefetches and reshards by hand |
| `prefetch` | does any order of gathers and frees harm a reader or leak? | 3 buckets, an explicit list and learned orders, hidden and view outputs; 3 forwards; manual gathers, recompute, raise, reset, state dict |
| `deferred` | can a step miss late weight grads? | 2 buckets, one deferring; manual finalization, no-sync; 4 forwards |

- `TypeOK`, the type invariant.
- `NoFreedRead`, `CurrentWeights`: a module between its forward hooks, or between
  its outputs and its inputs in the backward, has its params, in the current
  version, but for what a load overtook (see below).
- `StorageAccounted`, `PrefetchesBounded`: storage is allocated exactly when a
  bucket is unsharded or a refill in flight writes it; a bucket is gathered once
  at a time, and the learned order holds one extra bucket.
- `ReadyForStep`: once a syncing backward is finished, each bucket is sharded and
  has reduced exactly the grads owed, and nothing is in flight; a backward is not
  finished while late grads of a deferring bucket are outstanding.
- `ReduceBacklogBounded`: at most `max_pending_reduce_grads` reductions.
- `NoEarlyPostBackward`: a trigger that reshards is the last of its bucket's
  calls in that backward. Checked with one graph alive at a time (see below).
- `BackwardSettles`: each backward leads to a settled runtime. This holds with
  weak fairness of `EngineStep` alone: autograd and its callback run on the
  calling thread, which does not stop inside a backward. `accumulate` has no
  backward that raises, and none has to be assumed to happen.

The bounds are enough for the hazards: two graphs are the least in which a
backward of one runs with the other outstanding, three forwards give two calls
of one bucket with another between, one weight update distinguishes old from
new, a backlog limit of one is reached by the second reduction, and three
buckets let the learned order diverge while a list holds prefetches in flight. A
load changes the runtime's state exactly as a state dict does, so `prefetch`, whose
properties do not speak of weights, has only the latter; a load and a step in one
behaviour, which `MaxWeights` leaves out, are covered by the proofs.

### A load with a prefetch in flight

The state-dict pre-hook reshards what is unsharded (bucket_runtime.py:1803-1809) and
leaves the prefetches alone. One is in flight whenever an eval or partial forward
ended before the bucket that its last hook prefetched, by list or by learned order,
or after `unshard(async_op=True)`. `load_state_dict` then replaces the weights
under it, and the next forward takes it with what it read: the old weights, or a mix,
as nothing orders the copy into the shards after the gather. No comment, doc or test
says what should happen, so this is no finding, and the model does as the code does:
`overtaken` records the gathers in flight over a load since the last optimizer step,
and `CurrentWeights` excepts those and nothing else (`Current`). Without the exception
TLC finds it violated in three steps: prefetch, load, forward. With it, it still says
that a load leaves no unsharded bucket behind, that everything gathered later is new,
and that nothing at all, overtaken or not, outlives an optimizer step.

### Where the code does not do what its text says

`finalize_lost` checks one sentence of the documentation (`FinalizeReducesAll`)
and finds it violated: with manual finalization, a syncing backward leaves a
bucket without trigger unsharded with grads on it; the next forward reshards it
(`reshard_after_forward`), the loss does not use that call, so no hook gathers it
again, and `needs_finish` (bucket_runtime.py:989-995) does not see it:
`finalize_backward` leaves its grads unreduced.

The settings of the other runs leave out five more cases in which the code and
its text differ, which were met while writing the model:

- `finish_buckets` raises for an unfinished deferring bucket only if one of its
  triggers ran (460); a module whose inputs need no grad has none, so a deferring
  bucket of the runs always has a trigger.
- Under manual finalization no callback is queued (420), so a backward that
  raised leaves nothing to notice; `deferred` has no backward that raises.
- A call whose outputs hide their tensors has no pre-backward hook (1491), so a
  bucket resharded by hand is not gathered again for it: the assumption `Spares`.
- A backward that reaches only hidden outputs runs no pre-backward hook, so no
  callback finishes its buckets (413-420), and its calls never match their
  triggers (1137): its grads stay on the unsharded params for a later backward,
  but once a later forward or `reshard()` reshards the bucket, `needs_finish`
  (989-995) does not see them, and the optimizer steps without them, against "It
  waits on all reduce-grad work. With ``finish``, [...] it also finishes the
  buckets the backward left" (411-413). No run that checks `ReadyForStep` has
  hidden outputs.
- A trigger may reshard while another call's backward is still to come, against
  1129-1131 ("fires only when every forward call since the last backward carried a
  trigger and all of them ran, so no other call's backward still needs the
  params"), when two graphs are alive: the callback of the first one's backward
  clears the counts of calls and triggers (472, 982-987), the next forward counts
  as one call, and the second backward takes its first trigger for the last. It
  takes three calls of a bucket, two of them in the second graph with the first
  backward between; the run that checks `NoEarlyPostBackward` has one graph at a
  time. It costs a gather and a
  reduction, not data: the other call's pre-backward hook gathers again, and the
  theorem `NothingReadIsFreed` covers it.

### Proofs (`BucketRuntimeProofs`)

For any buckets, orders, lists, settings and bounds satisfying `ConstantsOK`:

| Theorem | States |
| --- | --- |
| `Invariance` | `Spec => []IInv` |
| `TypeCorrect` | `Spec => []TypeOK` |
| `StorageIsAccounted` | `Spec => []StorageAccounted` |
| `PrefetchesAreBounded` | `Spec => []PrefetchesBounded` |
| `ReduceBacklogIsBounded` | `Spec => []ReduceBacklogBounded` |
| `ForwardNeverReadsFreed` | a bucket in an open forward call is unsharded, its storage allocated |

None of the three storage properties is inductive alone. `Free` keeps the
accounting only if the bucket has no refill in flight, which needs that an
unsharded bucket is not being gathered; that a new learned prefetch is the only
one needs that the learned order names a bucket once (`IsInjective`), so that it
has one successor. `IInv` is therefore

    IInv == TypeOK /\ Sound(rt) /\ OpenUnsharded

where `Sound(s)` says of a runtime state that it has its type, accounts for its
storage (`Accounted`), gathers each bucket at most once and never an unsharded
one (`Exclusive`), learned an order without repetition, and bounds its
reductions. Because every method is an operator from state to state, the proof
follows the code: one lemma per method shows it takes `Sound` states to `Sound`
states (with what callers need besides, such as that it frees no other bucket),
one lemma per action (`...Preserves`) composes those, and `NextIInv` splits on
the actions. `OpenUnsharded` needs that only idle actions can free a bucket's
storage, and that those require no open call or act on the innermost one. `IInv`
was checked by TLC on small instances before it was proved.

### Proofs of what is read (`BucketRuntimeProofs`)

| Theorem | States |
| --- | --- |
| `WeightsUpToDate` | every unsharded bucket and every prefetch in flight has the current weights, but for gathers that a load overtook since the last step |
| `EventsInOrder` | `Hooked => (Spec => []OrderInv)` |
| `NothingReadIsFreed` | `Hooked => (Spec => []NoFreedRead)` |
| `ReadsCurrentWeights` | `Hooked => (Spec => []CurrentWeights)` |

`Hooked` says that the program leaves a bucket alone that awaits the backward of
hidden outputs (`Spares`), and that a deferring bucket hides no outputs. It is a
condition on the program, met by every run, and both halves are needed; TLC finds
a freed read without either. A call whose outputs hide their tensors carries no
pre-backward hook, so nothing gathers its bucket again once `reshard()` freed it
by hand; and `finish_deferred_backward` of an earlier backward frees a deferring
bucket's params between such a call's forward and its backward.

`WeightsInv` needs that weights change only when nothing holds them. A load reshards
what is unsharded, and records what is in flight as overtaken. For a step,
`StepsSharded` says which phases have every bucket resharded and no prefetch in
flight, as `finish_buckets` visits the buckets one after another.

`NoFreedRead` in a forward is a matter of the open calls (`OpenOK`: numbered in
order, all recorded in the newest graph). In a backward it rests on the order of
what autograd has still to reach (`TodoOK`): a bucket's calls come one after the
other, each from its outputs to its inputs. Hence, when a trigger or an
accumulated grad reshards a bucket, each of its calls still to come has its
outputs still to come, whose hook gathers again; only hidden outputs have none,
and `HeldOK` says that their buckets stay unsharded until then. That order comes
from the forward: `GraphOK` says of a graph that its calls are numbered, nested
by module and end after they begin, that a bucket's hidden call is its last, and
`Walk` reverses it. `OrderInv` joins these; its lemmas follow the actions, most of
which record no event and reach none (`QuietKeepsOrder`). TLC checked `WeightsInv`
and `OrderInv` on the runs' instances before they were proved.

### Proofs of what becomes of the grads (`BucketRuntimeProofs`)

| Theorem | States |
| --- | --- |
| `GradsAccounted` | `Automatic => (Spec => [](HooksOK /\ GradsOK))` |
| `ReducedBeforeStep` | `Automatic => (Spec => []ReadyForStep)` |
| `FinalizationLeavesNone` | `Automatic => (Spec => FinalizeReducesAll)` |

`Automatic` says that the runtime finishes each backward by itself: finalization is
not manual, no outputs hide their tensors, the module of a deferring bucket has an
input that needs a grad, and `Hooked` as above. Every program that
`accumulate` runs is one; without gradient sync, unused
outputs, dropped graphs, several graphs at once, deferring buckets, backwards that
raise and an explicit `finalize_backward` are all allowed. Each part is needed: TLC
finds the optimizer stepping without a grad with manual finalization, with hidden
outputs, and with a deferring bucket that has no trigger, the cases named above.

`GradsKept(b)` says where a bucket's grads are. Each grad owed is in one place: with
autograd until the last use of its param is reached (`due`), with a kernel (`late`),
on the unsharded params (`kept`), or in the local shards (`reduced`). Counting them
is not enough, since grads are lost by being overlooked, not dropped. So a bucket
that keeps grads either knows that they wait (`needs_sync`), or is unsharded and has
still to be visited by the callback of this backward (`ToFinish`), which is when
`needs_finish` sees it; late grads belong to a bucket whose trigger ran, which is when
`finish_buckets` does not miss them; and after a visit with gradient sync on, no
bucket has grads waiting. `BackwardOK` says that a backward which computed a grad has
queued the callback that finishes the buckets (`Begun`), because each of its events
carries its hook (`HooksOK`, from the forward calls through `Walk` to the running
backward), and that no step is ready meanwhile. A backward that raised leaves the
runtime `Stuck`: its grads are not accounted for, but nothing runs again.

The lemmas follow the actions. Most neither move nor reduce a grad
(`QuietKeepsGrads`); `TriggerGrads` and `FinishedGrads` say what a trigger and
`post_backward` do. `WeightsInv` adds that every bucket is sharded when the optimizer
may step, and `OrderInv` that a bucket is unsharded when its inputs are reached. TLC
checked `GradsOK` on small instances before it was proved.

Model-checked only: `ReadyForStep` under manual finalization (`deferred`, where the
finalization is all by hand); `NoEarlyPostBackward`, which does not hold of every
instance (see above); and `BackwardSettles` (liveness, out of the prover's reach).

## 4. MuonPipeline

### Correspondence

The host, in `run()`, only queues: `host` holds its locals and where it is, and
each action is the part of an iteration up to the next helper. A helper queues
one operation (`storage_to_compute`: prepare and exchange; `compute`;
`compute_to_storage`: exchange and finalize; `release`) on the caller's or the
transfer stream. A stream runs its operations in order, at any time; a wait is
for the last record of its event *when the wait was queued*, as device events
are, so reusing a slot's three events in the next round is part of the model.

Of a slot's buffers only `compute_exchange` is used by both streams; `exchange`
says which operation wrote it last. The others are used in the order of a single
stream. Elements are counted for one (device, dtype) key, as each key is sized by
itself. `Plan` is construction and the replan after `load_state_dict`; memory of
a grown buffer is taken to be the old one, the worst case for early reuse. `Step`
queues the program's backward, which reads the weights and writes the grads, and
enters `run()`. `Raise` is an exception of a callback between two helpers.

`NumSlots` is 2 in the code; the arm of `StartRedistributedBucket` for a slot
shared with the previous bucket, also in the code, needs `NumSlots = 1`.

### Runs

| Run | Question | Instance |
| --- | --- | --- |
| `muon_step` | are slots safe, large enough and cleaned up, and does the training loop see whole steps? | two steps with a replan between, over 10 lists of up to 4 buckets, local or redistributed, of two sizes; a callback may raise anywhere |

- `ExchangeIntact`: the update reads what its own exchange brought, the exchange
  back what its own update left, and inputs are prepared from this step's grads.
- `PrefetchedInOrder`: the assertions of `run()`, and that a local bucket is a
  prefetch barrier in the order in which the callbacks are called. (On the
  device, a later prepare may well run beside a local bucket's update: the
  transfer stream does not wait for it, and they touch different parameters.)
- `SlotsSuffice`: `reserve_buffers` and `run()` agree on slots.
- `CleanedUp`: after an exception, whatever either stream runs next comes after
  all that was queued on both.
- `ImplementsMuonStep`: refinement of `MuonStep` with its fairness. `pending` is
  mapped to the buckets of the last step begun on the device without their
  update, `raised` to whether a callback raised: then the promise is safety only. Fairness: `run()` does not block, and a stream runs an operation that
  is ready.

Four buckets use each slot twice, with the middle ones prefetched and local
buckets at each place; two steps are what the waits between steps are for.

### Proofs (`MuonPipelineProofs`)

For any set of lists of plans, any number of slots and steps, with and without
exceptions (`PipelineConstantsOK`):

| Theorem | States |
| --- | --- |
| `Invariance` | `Spec => []IInv` |
| `TypeCorrect` | `Spec => []TypeOK` |
| `PrefetchesKeepOrder` | `Spec => []PrefetchedInOrder` |
| `SlotsAlwaysSuffice` | `Spec => []SlotsSuffice` |

`reserve_buffers` gives the n-th redistributed bucket of the list its slot;
`run()` never looks at that number but counts the redistributed buckets as it
takes them up, and adds the length of its prefetch window for the ones ahead. A
bucket is thus brought to the slot that was sized for it only if the two counts
agree, which no state of `run()` says directly. `IInv` says it: `Window(host)`
states that the prefetched buckets are the plans from the first one left up to
`next_plan_to_prefetch`, each in its own slot, and that the number of
redistributed plans before either end is what `run()` has counted. `PlansFit`
says that the current plans fit their slots, and `FitDevice` that everything
queued does, for its own step's plans, which may have been replaced since; a
replan keeps it as slots never shrink. `RedistributedFacts` (one more bucket,
one more slot) and `ReserveFacts` (every plan of a slot fits it) are the two
facts about the algorithm. The latter needs that finitely many numbers have a
maximum; induction being out of reach, `LeastNatural` gets it from the
well-foundedness of inclusion on finite sets. `IInv` was checked by TLC on small
instances before it was proved.

### Proofs of the order (`MuonPipelineProofs`)

Under the same assumptions, for every interleaving of the host and both streams:

| Theorem | States |
| --- | --- |
| `OrderInvariance` | `Spec => [](IInv /\ OInv)` |
| `SlotsHold` | `Spec => []ExchangeIntact` |
| `StreamsCleanedUp` | `Spec => []CleanedUp` |
| `StepsKeepPromise` | `Spec => Promise!Init /\ [][Promise!Next]_(Promise!vars)` |

`run()` never says that a slot's next exchange waits for its last reader. It
records three events for each slot, over and over, and waits for the records it
finds; and it lets a whole stream wait for the other at the first redistributed
bucket of a step. That this orders the right operations, across buckets, steps
and replans, is what `OInv` states. `After(r, q, x, y)` says of two operations
that `y` runs after `x`, in a form which both queueing and running keep: if the
device ran `y` it ran `x`, and if `y` is in its queue then `x` was run, is before
it, or is waited for by it or by one before it. `Ordered` lists the pairs:

- an exchange before its update before its exchange back, and a backward before
  every input that is prepared from its grads;
- of two buckets of one slot, the return of one before the exchange of the other
  (`SlotOrder`), even of different steps with different plans;
- the step's backward after every update of the step before.

To keep these, `Progress` says what `run()` has queued so far: every bucket that
was brought was also returned, and its update can be relied on by the caller
stream, but for those it has in hand (`SeenTo`, `OwnQueued`), whose events are
the last ones recorded for their slots (`InHand`). `Window` of `IInv` gives that
no two buckets in hand share a slot. The action that needs it all is
`StartRedistributedBucket`, in its six forms: with a prefetched bucket or a fresh
one, sharing the previous one's slot or not, first of its step or not. From
`Ordered` follows that a slot is for one bucket from its exchange to its return
(`AloneInSlot`, `ExchangeHeld`), hence `SlotsHold`. After an exception the last
operation of each queue waits for all that the other holds (`Closed`), hence
`StreamsCleanedUp`.

For the refinement, the backwards that ran are those of the first `Begun` steps
(`BegunFacts`), and the next one runs only when nothing is `Pending`
(`BackwardSeesUpdates`). `OInv` was checked by TLC with one, two and three slots
before it was proved.

Model-checked only: the fairness half of `ImplementsMuonStep`, that every update
happens, as liveness is out of the prover's reach.

## 5. The exchange of a DistMuon bucket

### Correspondence

`TensorRegions`, `MuonSchedule` and `MuonLayout` are pure: regions with their
checks, the storage domains of a mesh, the layouts a parameter may declare and
what they resolve to, the routes of a parameter kept local, gathered to one owner
or split into blocks, their inverses, and the packed schedule each rank derives.
They follow `_optimizer_reshard_schedule.py` and the layout half of
`optimizer.py`, function by function; recursion is a fold or a recursive function.

`MuonExchange` runs them on every rank of a group: `Init` binds the layouts (`bound`:
what they resolve to, who is redistributed, the axis and its group), `Plan` runs on each rank alone,
`ValidateAcrossRanks` once all have (an all-gather of digests), then per rank the
packing, and a collective once all ranks packed. An element is its position in
the whole parameter, so a buffer shows where each of its elements came from, and
`UpdateTag` tells an update from a gradient. Memory nobody wrote is `Untouched`.
`Compute` runs parameter by parameter and packs each update into the buffer that
still holds the fragments of the parameters after it, as the code does. The owner
a balancer picks is an input here; a rank of `divergent` picks another.

### Runs

| Run | Question | Instance |
| --- | --- | --- |
| `muon_exchange` | does every accepted layout move each element to where it is computed, and its update to all its holders? | one parameter with every storage and layout on five meshes (two axes, an axis of one rank, process groups that order ranks unlike the mesh); buckets of up to three parameters stored alike; a rank that plans otherwise |
| `muon_mixed` | the same, for a bucket with replicated and sharded parameters | every pair of parameters over two ranks |

- `AcceptedLayoutsPlan`: a layout that construction accepts has a plan, although
  two files decide on it.
- `MatricesWhole`: each matrix is computed whole by one rank, however storage
  split it.
- `UpdatesApplied`: at the end, each rank's storage holds the update of exactly
  the elements it stores, replicas included.
- `RanksAgree`: ranks that planned differently all raise and none waits; those
  that start expect the same number of elements at both ends of every pair.

Meshes of two and three ranks are the least with uneven, empty and reordered
chunks; two axes and one axis of size one are what layouts distinguish.

`muon_mixed` finds `UpdatesApplied` violated. With one parameter stored as
`Replicate` and one as `Shard`, updates are sent to more holders than gradients
came from, so packing the first parameter's updates overwrites fragments of the
second that are still to be computed (_optimizer_reshard_runtime.py:738).
optimizer_reshard.py:296-298 asks of a bucket only one transport group, and these
have one.

### Proofs (`MuonExchangeProofs`)

For any mesh, bucket, layouts that construction accepts, and whatever owners the
ranks pick. `WorldsAssumption` says that meshes number their ranks, shapes are
sizes, and the sizes of a `BlockShard` are positive and not empty, as
`_validate_block_sizes` requires (optimizer_reshard.py:21).

| Theorem | States |
| --- | --- |
| `PlansAgree` | `Spec => []AgreeInv` |
| `RanksAlwaysAgree` | `Spec => []RanksAgree` |
| `CollectivesJoined` | ranks that start agree on whether an exchange is a collective at all |

`RanksAgree` speaks of two schedules that two ranks derive on their own. `AgreeInv`
adds what relates them: past planning a rank has the schedules of the plans it made
itself and found valid (`PlannedInv`), and ranks that start have equal plans
(`TogetherInv`), because each compared its own with all others' and all did so
together. From there on the steps touch no plan.

That equal plans give matching schedules (`SchedulesMeet`) is about the operators.
What rank `r` sends `s` and what `s` expects of `r` are the same transfers
(`Between`), once counted by the region they leave and once by the region they
enter; both have as many elements as the route's region, since `ValidPlan` checked
each route, and inverting a route swaps the two. The rest of the proof shows that
there is nothing else in a plan: its routes are sequences of routes between ranks of
the group, whichever of the three kinds of plan made them (`PlanRoutable`, for the
layouts that `Resolve` accepts: `ResolvedPlannable`), and a plan's participants are
the group's. The flattened and filtered lists these are built from are
typed by induction on their length (`NaturalInduction`, `FlattenTyped`,
`KeptTyped`), and that the blocks of a rank are counted with integers needs that
a sum of positive numbers is positive (`SumPositive`). `Filter` and
`ByNumber` are written so that the provers can reason about them. TLC checked
`AgreeInv` on the instance of `muon_exchange` before it was proved.

`AcceptedLayoutsPlan`, `MatricesWhole` and `UpdatesApplied` are model-checked only:
they say what regions of several dimensions cover, sums of products of sizes, and
what folds write into buffers.

## 6. Owners

`OwnerChoice` is the choice that `utils.py`, `optimizer.py` and
`bucket_planner.py` share: the least loaded host, then its least loaded rank,
ties by what earlier calls left and then in the order 0, 2, 4, ..., 1, 3, ....
`MuonOwners` places one load a step, bucket after bucket, with owners the program
fixed first. `MatrixAssignment` fills slots with matrices, gives the slots to
ranks and deals blocks, group after group, each one an action.

| Run | Question | Instance |
| --- | --- | --- |
| `muon_owners` | is every prefix of every placement balanced, and the same on all ranks? | up to five ranks on hosts of even and uneven sizes; one to four buckets of up to four loads, some fixed |
| `matrix_assignment` | do several groups balance together? | three or four ranks, with and without hosts; two or three groups of up to five matrices, and blocks for all ranks or some |

- `TypeOK` of both says that the loads balanced by are the loads held.
- `HostsAndRanksBalanced`, `BucketsShareLoad`, `GroupsBalanced`, `BlocksLevel`: nobody is ahead by more than one load, within a bucket or group
  and over all of them; the reference definition of the balance that the
  docstrings promise.
- `Deterministic`: exactly one load and one rank are next.
- `HeavyHostsAlternate`, `OtherHostsNext`: what utils.py says of the tie order.

### Proofs (`OwnerChoiceProofs`, `MuonOwnersProofs`, `MatrixAssignmentProofs`)

For any hosts of any sizes, ranks, buckets, groups, loads and fixed owners. The two
`InputsAssumption`s are what the code checks before it starts: `_validate_inputs`
lets no empty list of eligible ranks and no matrix or block of size zero through,
and hosts are numbered from 0 on, as `mesh_rank_hosts` numbers them (`AreHosts`).

| Theorem | States |
| --- | --- |
| `TalliesCorrect` | `MuonOwners`: `Spec => []TypeOK` |
| `PlacementsAreBalanced` | `Spec => []HostsAndRanksBalanced` |
| `OwnersAreDetermined` | `Spec => []Deterministic` |
| `HeavyHostsApart` | `Spec => []HeavyHostsAlternate` |
| `BucketsBalanceTogether` | `Spec => []BucketsShareLoad` |
| `AssignmentInvariant` | `MatrixAssignment`: `Spec => []IInv` |
| `LoadsAreHeld` | `Spec => []TypeOK` |
| `GroupsStayBalanced` | `Spec => []GroupsBalanced` |
| `BlocksLevelRanks` | `Spec => []BlocksLevel` |
| `LaterGroupsSpread` | `Spec => []OtherHostsNext` |

*Sums.* All these properties add up loads. `SubsetInduction` is induction over a
finite set in a form the provers can use, with the subsets that have the property
given as a set; it follows from the well-foundedness of strict inclusion. From it
`OwnerChoiceProofs` proves that the fold behind a sum is defined, that one more
element adds its value, that a sum over ranks is one over hosts of sums over their
members, and that finite sets have least keys. `EvenFirst` gives different
positions to different hosts, hence one host, and then one rank, has the least key
(`Deterministic`), whatever the loads; a load is one of its bucket in order, so its
key is its own too.

*Owners.* `ChosenIsLeast` shows that the chosen rank's host is the least loaded and
the rank the least loaded there, whatever breaks ties, so the one host or rank that
a load puts ahead is ahead by that load at most; what is behind already was within
a load placed before, and `Placed` only grows. `IInv` adds to the properties that
buckets to come have no owners (`Later`), that hosts carry what their ranks carry
(`HostTallies`), and that whoever owns nothing has an empty tally (`Unused`). The
alternation of hosts then needs `EvenHostsFirst`: the positions of the even hosts
come first, and one of them still has the least key there is as long as there are
more of them than loads. With one load a bucket each choice finds an empty tally
and goes by the carried loads, which makes the buckets one (`BucketsShareLoad`).

*Planner.* `IInv` follows a group through its phases. Filling keeps the slots within
one matrix of each other (`SlotsLevel`). They are then given heaviest first to the
ranks that carry least (`SlotsSorted`): of two ranks the one that was ahead gets the
lighter slot, so a difference of before and one of the slots, each at most a matrix or a
block, cancel instead of adding up. That is what `Level` keeps from group to group,
and what dealing a block to the least loaded rank keeps too. `LastLevel` says of the
block group begun last that who took one of its blocks is ahead by one at most, which
needs that block groups are begun in their order (`BlocksInOrder`). `Counted` says
that the totals are what the ranks hold; it needs that what comes later is still
empty (`Progress`) and that no rank gets two slots (`SlotsTallied`).
`OtherHostsNext` has an invariant of its own, `HInv`: with hosts and without blocks, a
host that holds nothing carries nothing and so comes before all that do
(`HostsTallied`), hence the slots with a matrix, which go first, go to such hosts while there are
enough (`SlotsOnFresh`). TLC checked `IInv` and `HInv` on the instance of
`matrix_assignment` before they were proved.

## 7. MuonState

One rank between the calls of its program: `grad`, storage and momentum may each
be missing or laid out otherwise when `step()` is called. A step validates
(`Preflight`) and then prepares and updates one parameter at a time, raising where
the code raises; `state_dict` and `load_state_dict` (whose hook checks the loaded
group and plans again, or raises, and makes the next step check again) come between
steps. `muon_state` checks two parameters, one of them stored as it is computed, and
two steps:

- `RaisedStepChangedNothing`: a step that raised left momentum and weights as
  they were.
- `ParamsInStep`: outside a step all parameters have the same number of updates
  as their momentum.

The plan is not in the model: a load that returns has replaced the group, the plan,
the owners and the buffers together, and one that raises in its hook has replaced the
group alone (optimizer.py:2154-2166), with nothing in `step()` to compare them. A
program that goes on after such a raise steps on the old plan; the models take one
that does not.

The instance has the program stop when `load_state_dict` raises (`GoesOn =
FALSE`). With `GoesOn = TRUE` TLC finds `RaisedStepChangedNothing` violated: the
hook clears `_first_step_validated` in its last line (optimizer.py:2166), after
the checks that raise, so the next step skips its preflight.

### Proofs (`MuonStateProofs`)

For any parameters and bounds (`ParamsAssumption`, `ReadyAssumption`):

| Theorem | States |
| --- | --- |
| `StepsStayTogether` | `Spec => []ParamsInStep` |
| `RaisedStepsAreClean` | `GoesOn = FALSE` gives `Spec => []RaisedStepChangedNothing` |

`ParamsInStep` says nothing of a running step, so `IInv` counts what that step has
folded or applied already (`StepsAgree`), and says the same of the saved state,
since a load may bring it back, and that absent momentum has averaged nothing,
since a first step creates it. The other property holds only if nothing raised between
a load and its last line: `Checked` says that once a first step was checked every
momentum is laid out as stored, which is why `_prepare_local` cannot raise after
`_preflight_step` passed. The hypothesis
`GoesOn = FALSE` is needed: without it TLC refutes `RaisedStepChangedNothing`, as
said above.

## 8. BucketStreams

The host queues everything at once, so only the order between streams is left to
check. `device.behind[s]` are the uses (a buffer on a stream) that work queued
next on `s` is not ordered after; waiting for an event or a stream takes uses
away, using a buffer adds one everywhere else. `raced` collects buffers used
while another stream may be using them, `stolen` those whose memory the allocator
gave to another buffer of its pool too early. `live` says which buffers Python
still refers to; a buffer without references may be reused by any allocation of
its pool's stream.

The actions are the calls of the runtime: `BeginUnshard`,
`BeginExplicitUnshard`, `FinishUnshard`, `ReleasePrefetch`, `Reshard`,
`ReduceGrads` (with the drain before it and the accumulation after), and
`WaitAndClear`; `Run` and `OptimizerStep` are what the program queues between.
Any number of gathers may be in flight at once, on the unshard stream and on the
current one: explicit lists keep "as many as the lists name"
(bucket_runtime.py:307-320, 391-392, 1059-1060), and each is finished, released or
resharded in any order.
`streams` checks five setups, each with its bound on reductions (`setup.reductions`):

| Setup | Buckets | Reductions |
| --- | --- | --- |
| several shared gathers | three, by hooks; one refills in `finish` | none |
| both kinds of gather | two, one of them also by the program on the current stream | none |
| gathers and a reduction | two, by hooks; one refills in `finish` | one at a time |
| accumulation, drained | one, either way | two numbers, one kept in flight |
| one rank | one, either way, reducing on the current stream | two |

- `NoRace`, `NoEarlyReuse`: nothing is used or reused too early.

The optimizer step and the backwards use the grads and params themselves, so an
accumulation that a later step is not ordered after is a race, and a handoff that
left out a stream shows when a later allocation of its pool gets the memory.

Three buckets are enough for the memory of one gather, released, to be given to
another while a third still runs; two reduction numbers for one to be accumulated into
another while in flight. The proofs are for any number of both at once.

The optimizer steps with no hook's gather in flight: it comes right after a backward,
which released them all (`ReadyForStep` in section 3). Weights written by anything
else while a gather reads them are not part of this module: for a load the code does
not order the two (section 3).

The code waits for the reductions of `WaitAndClear` one by one and releases each;
nothing is queued between, so the model intersects what is left after all of them
(`WaitEvents`).

### Proofs (`BucketStreamsProofs`)

For any buckets, any way to shard them, any bound on the reductions in flight,
one rank or several (`StreamsAssumption`):

| Theorem | States |
| --- | --- |
| `StreamInvariance` | `Spec => []SInv` |
| `StreamsNeverRace` | `Spec => []NoRace` |
| `MemoryNeverReusedEarly` | `Spec => []NoEarlyReuse` |

The argument rests on one stream. Every other stream waits for the caller's
before it starts anything, so it can overtake only what the caller's stream may
overtake; and all memory but that of the shared gathers and of the results comes
from the caller's pool. `Awaited` says what that is, by kind of buffer:

- a bucket's params, shard and gathered buffers only while its unshard is in
  flight, and then the unshard's event comes after those uses (`BucketAwaited`),
  so a finish or a release that waits for it leaves them clean, and leaves the other
  gathers in flight to their own events; the params' storage is
  written that early only if it was created and is not refilled in `finish`;
- the copies of a reduction only while it runs, and its event comes after them
  (`CopyAwaited`), so the drain may free them; the event of the newest reduction
  comes after everything that reductions queued (`ReductionsAwaited`), so the
  optimizer may read the results;
- a stored result is used on the stream of the reductions alone (`ResultAlone`),
  which is why it can be accumulated into without waiting.

`Users` says which streams use a buffer at all, and that no stream overtakes
itself: it is what keeps the pools of the gathers and of the results safe. It
follows that what is not live may be taken (`FreeClean`). `Adds(d, e, A, R)`
summarizes what a sequence of uses, waits, records and allocations did: only the
uses `A` were added and the events `R` recorded anew, and nothing raced or was
reused too early. Each operation has its lemma (`UseFacts`, `WaitFacts`,
`AllocateFacts`, ...), `AddsTwice` composes them along the code, and the lemmas
of an action are about `A` and `R` alone. `SInv` was checked by TLC on the
instances above before it was proved.

## 9. Placements

### Correspondence

A cell of a buffer is the set of what was added to it: a weight (parameter,
element, version), gradients of several ranks, nothing, or `Junk`, memory that
nobody wrote. Copies move cells, a reduce-scatter unites them (adding a
contribution twice would not show in a set, so `PackedBy` writes each position
once and `GradsReduced` compares all contributions). Each placement module has
the same operators, one for each method of the contract: `BucketStorage` and
`Stored` (layout and fill of `byte_storage`), `Sent`, `CopiedOut`, `FullParams`
(the unshard), `Packed`, `Unpacked` (the reduction), `Layout` (checkpoints).
`PlacementBuckets` picks among them by the placement of the bucket and follows one
bucket on all ranks: `Gather`, `Finish`, `Reshard`, `Backward`, `ReduceGrads`,
`OptimizerStep`, and `Restart`, which loads what the ranks saved by another
placement or world size. What a placement derives from a bucket alone (storage
layout, checkpoint layout, buffer sizes) is in tables over `Buckets`, as the code
keeps it in the bucket's layout. A collective is one step for all ranks. `Backward` packs
by one of the code's forms: as they are, from bucket storage, or strided.

`MixedBucket` groups parameters of equal placement, with groups of one owner in
shared columns and rows of unequal length; `OwnedBuckets` makes such buckets from
owner segments (`OwnedPlacement`).

### Run

`placements` checks 33 buckets over one to three ranks: 18 of `Shard`, `BlockShard`
and `BucketedBlockShard`, 7 mixed by placement, and 8 from owner segments (by
load, by host, of whole parameters, rows and experts). Shapes are
uneven, smaller than the mesh or blockwise; outer layouts have one or two chunks.
One optimizer step with two unshards (the second is a refill) and one restart
are the least that shows a stale, freed or misplaced element.

- `FullParamsExact`: what modules compute with is the weights, whole, at the last
  step's version.
- `GradsReduced`: each element of a shard gets every rank's gradient of it.
- `NothingUnwrittenReduced`: no memory that nobody wrote enters a reduction.
- `AveragedOnce`: divided by the factor once, also for fp16 where it is split.
- `SegmentsHeld`: a rank stores exactly the segments declared its own.
- `CheckpointExact`: the declared layouts cover the global tensors once, with the
  right elements.

The model-checked instances are the evidence here, and no theorem is stated. What
these operators compute for every shape is sums and products over sequences of
sizes and folds over buffers; induction over each of them can be proved (as sums and
flattened lists are in sections 5 and 6), but these properties need the exact
contents of every buffer under four placements. `AveragedOnce` rests on a power of
two, of which the provers know nothing.

## 10. Not modelled

- **The transport of owner rows** (`owner_rows_transport.py`). One symmetric
  buffer per mesh and dtype is used by gathers on the unshard stream and, for
  `unshard()`, on the current stream; its barriers order ranks, not streams. It
  is listed as a hazard without a property.
- **Group forward passes** of a bucket over several modules, and **several
  ranks** of the runtime: the order of collectives is autograd's on each rank.
- **Lifecycle** (`flex_shard`, `to_empty`, `relayout_bucket`) and the assignment
  of parameters to buckets: set up once, mostly checks that raise.
- **Quantized placements** and their payload cache; **copy kernels**, numerics,
  dtypes, formatting and logging.
- **torch.compile**: `_BucketUnshard`, `_pre_forward_compile` and the Sync
  results of `bucket_comm.py` are ordered by the compiler.
- **Layout adapters**, `storage_layout.py`, `comm_free_adapter.py`: conversions
  without state. The optimizer's checkpoint hook, which declares the same layouts
  on states.
- `fsdp2_compatible` reductions and user hooks, which change values and not
  control.
