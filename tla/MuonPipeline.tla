---------------------------- MODULE MuonPipeline ----------------------------
(***************************************************************************)
(* The redistribution runtime of DistMuon on one rank                      *)
(* (dist_muon/_optimizer_reshard_runtime.py): run() queues each bucket's   *)
(* exchange to its compute layout, its Muon update and the exchange back   *)
(* on two streams that share a few rolling buffer slots.                   *)
(*                                                                         *)
(* The host only queues operations; each stream runs its own in order, at  *)
(* any time.  An operation here is all that one helper queues: a slot's    *)
(* storage buffers are used by the transfer stream alone and its compute   *)
(* scratch by the caller's alone, so only its compute_exchange is shared.  *)
(* One (device, dtype) key stands for all: each is sized by itself.        *)
(***************************************************************************)
EXTENDS Integers, Sequences, FiniteSets, SequencesExt

CONSTANTS
  Plans,     \* the lists of bucket plans the optimizer may have
  NumSlots,  \* _NUM_PIPELINE_SLOTS
  MaxSteps,  \* bound: optimizer steps
  MayRaise   \* whether a callback may raise

\* _LocalBucketPlan or _RedistributionBucketPlan, with the elements it needs.
BucketPlan == [local : BOOLEAN, numel : Nat]

ASSUME PipelineConstantsOK ==
  /\ Plans \subseteq Seq(BucketPlan)
  /\ NumSlots \in Nat \ {0}
  /\ MaxSteps \in Nat /\ MayRaise \in BOOLEAN

VARIABLES
  plans,     \* _bucket_plans
  reserved,  \* elements reserved in each slot
  steps,     \* the plans of each step so far
  host,      \* run()'s locals, and where it is
  device,    \* queued operations, and each slot's last recorded events
  ran,       \* operations the device has run
  exchange   \* the operation that last wrote each slot's compute_exchange

vars == <<plans, reserved, steps, host, device, ran, exchange>>

-----------------------------------------------------------------------------
(* State *)

Slot == 0 .. NumSlots - 1
LocalSlot == NumSlots      \* _local_slot

\* _BucketWork: plan is an index into plans.
Work == [plan : Nat, slot : Slot]

Kinds == {"none", "backward", "local", "wait", "storage_to_compute", "compute",
          "compute_to_storage", "release"}

\* An operation queued for a plan of a step; it runs after those it waits for.
OpId == Kinds \X Nat \X Nat
Op == [kind : Kinds, step : Nat, plan : Nat, slot : Slot \cup {LocalSlot},
       waits : SUBSET OpId]

Id(op) == <<op.kind, op.step, op.plan>>
Nothing == <<"none", 0, 0>>

Events == [compute_input_ready : OpId, compute_done : OpId, done : OpId]

Device == [caller : Seq(Op), transfer : Seq(Op), recorded : [Slot -> Events]]

Host == [at : {"idle", "bucket", "compute", "prefetch", "raised"},
         plan_index : Nat, next_plan_to_prefetch : Nat,
         redistributed_index : Nat, transferring : BOOLEAN,
         previous : Seq(Work), work : Seq(Work), prefetched : Seq(Work)]

-----------------------------------------------------------------------------
(* reserve_buffers *)

RedistributedBefore(list, i) ==
  Cardinality({j \in 1 .. i - 1 : ~list[j].local})

\* Mutant of SlotOf: counts the local buckets too.
MutSlotOfEvery(list, i) ==
  IF list[i].local THEN LocalSlot ELSE (i - 1) % NumSlots

\* Redistributed buckets take the slots in turn.
SlotOf(list, i) ==
  IF list[i].local THEN LocalSlot ELSE RedistributedBefore(list, i) % NumSlots

\* Buffers grow to the largest plan of their slot, and never shrink.
Reserve(list) ==
  [s \in Slot \cup {LocalSlot} |->
     Max({reserved[s]} \cup {list[i].numel : i \in {j \in DOMAIN list : SlotOf(list, j) = s}})]

-----------------------------------------------------------------------------
(* The helpers of run() *)

\* Mutant of SlotAt: the index does not wrap.
MutSlotAtUnwrapped(n) == n

\* The slot of the n-th redistributed bucket, counted from 0.
SlotAt(n) == n % NumSlots

NewOp(kind, w, waits) ==
  [kind |-> kind, step |-> Len(steps), plan |-> w.plan, slot |-> w.slot,
   waits |-> waits]

\* stream.wait_stream: everything queued so far on the other stream.
Queued(queue) == {Id(queue[i]) : i \in DOMAIN queue}

TransferWaitsCaller(d) ==
  [d EXCEPT !.transfer = Append(@,
     NewOp("wait", [plan |-> 0, slot |-> LocalSlot], Queued(d.caller)))]

CallerWaitsTransfer(d) ==
  [d EXCEPT !.caller = Append(@,
     NewOp("wait", [plan |-> 0, slot |-> LocalSlot], Queued(d.transfer)))]

EnqueueStorageToCompute(d, w) ==
  LET op == NewOp("storage_to_compute", w, {})
  IN  [d EXCEPT !.transfer = Append(@, op),
                !.recorded[w.slot].compute_input_ready = Id(op)]

ComputeBucket(d, w) ==
  LET op == NewOp("compute", w, {d.recorded[w.slot].compute_input_ready})
  IN  [d EXCEPT !.caller = Append(@, op),
                !.recorded[w.slot].compute_done = Id(op)]

\* Mutant of EnqueueComputeToStorage: waits for the inputs, not for the update.
MutComputeToStorageEarly(d, w) ==
  LET op == NewOp("compute_to_storage", w, {d.recorded[w.slot].compute_input_ready})
  IN  [d EXCEPT !.transfer = Append(@, op), !.recorded[w.slot].done = Id(op)]

EnqueueComputeToStorage(d, w) ==
  LET op == NewOp("compute_to_storage", w, {d.recorded[w.slot].compute_done})
  IN  [d EXCEPT !.transfer = Append(@, op), !.recorded[w.slot].done = Id(op)]

\* Mutant of Release: waits for the wrong event.
MutReleaseComputed(d, w) ==
  [d EXCEPT !.caller = Append(@,
     NewOp("release", w, {d.recorded[w.slot].compute_done}))]

Release(d, w) ==
  [d EXCEPT !.caller = Append(@, NewOp("release", w, {d.recorded[w.slot].done}))]

LocalBucket(d, i) ==
  [d EXCEPT !.caller = Append(@, NewOp("local", [plan |-> i, slot |-> LocalSlot], {}))]

-----------------------------------------------------------------------------
(* The optimizer: plan, then step() after each backward *)

\* Construction, and load_state_dict, which may change the plans.
Plan(list) ==
  /\ host.at = "idle" /\ Len(steps) < MaxSteps
  /\ plans' = list
  /\ reserved' = Reserve(list)
  /\ UNCHANGED <<steps, host, device, ran, exchange>>

\* The program queues a backward, which reads the weights and writes the grads,
\* and calls step().
Step ==
  /\ host.at = "idle" /\ plans # <<>> /\ Len(steps) < MaxSteps
  /\ steps' = Append(steps, plans)
  /\ device' = [device EXCEPT !.caller = Append(@,
       [kind |-> "backward", step |-> Len(steps) + 1, plan |-> 0,
        slot |-> LocalSlot, waits |-> {}])]
  /\ host' = [at |-> "bucket", plan_index |-> 1, next_plan_to_prefetch |-> 1,
              redistributed_index |-> 0, transferring |-> FALSE,
              previous |-> <<>>, work |-> <<>>, prefetched |-> <<>>]
  /\ UNCHANGED <<plans, reserved, ran, exchange>>

AtBucket == host.at = "bucket" /\ host.plan_index <= Len(plans)

RunLocalBucket ==
  /\ AtBucket /\ plans[host.plan_index].local
  /\ device' = LocalBucket(device, host.plan_index)
  /\ host' = [host EXCEPT !.plan_index = @ + 1,
                          !.next_plan_to_prefetch = host.plan_index + 1]
  /\ UNCHANGED <<plans, reserved, steps, ran, exchange>>

\* ComputeToStorage of the previous bucket, if there is one.
ReturnPrevious(d) ==
  IF host.previous = <<>> THEN d ELSE EnqueueComputeToStorage(d, host.previous[1])

\* A redistributed bucket, up to its compute: its exchange was prefetched, or is
\* queued now, before the previous bucket's return unless they share a slot.
StartRedistributedBucket ==
  LET fresh == [plan |-> host.plan_index,
                slot |-> SlotAt(host.redistributed_index)]
      w  == IF host.prefetched # <<>> THEN Head(host.prefetched) ELSE fresh
      d1 == IF host.transferring THEN device ELSE TransferWaitsCaller(device)
      shares == host.previous # <<>> /\ host.previous[1].slot = fresh.slot
  IN  /\ AtBucket /\ ~plans[host.plan_index].local
      /\ device' = CASE host.prefetched # <<>> -> ReturnPrevious(d1)
                     [] host.prefetched = <<>> /\ shares ->
                          EnqueueStorageToCompute(ReturnPrevious(d1), fresh)
                     [] OTHER ->
                          ReturnPrevious(EnqueueStorageToCompute(d1, fresh))
      /\ host' = [host EXCEPT
           !.at = "compute", !.transferring = TRUE, !.work = <<w>>,
           !.prefetched = IF @ = <<>> THEN @ ELSE Tail(@),
           !.next_plan_to_prefetch = IF host.prefetched = <<>>
                                     THEN host.plan_index + 1 ELSE @]
      /\ UNCHANGED <<plans, reserved, steps, ran, exchange>>

\* The bucket's update, then the wait that releases the previous bucket.
ComputeRedistributedBucket ==
  LET d1 == ComputeBucket(device, host.work[1])
  IN  /\ host.at = "compute"
      /\ device' = IF host.previous = <<>> THEN d1 ELSE Release(d1, host.previous[1])
      /\ host' = [host EXCEPT !.at = "prefetch", !.previous = host.work,
                              !.work = <<>>, !.redistributed_index = @ + 1]
      /\ UNCHANGED <<plans, reserved, steps, ran, exchange>>

\* Mutant of CanPrefetch: prefetches past a local bucket.
MutCanPrefetchAny ==
  /\ Len(host.prefetched) < NumSlots - 1
  /\ host.next_plan_to_prefetch <= Len(plans)

CanPrefetch ==
  /\ Len(host.prefetched) < NumSlots - 1
  /\ host.next_plan_to_prefetch <= Len(plans)
  /\ ~plans[host.next_plan_to_prefetch].local

PrefetchNext ==
  LET w == [plan |-> host.next_plan_to_prefetch,
            slot |-> SlotAt(host.redistributed_index + Len(host.prefetched))]
  IN  /\ host.at = "prefetch" /\ CanPrefetch
      /\ device' = EnqueueStorageToCompute(device, w)
      /\ host' = [host EXCEPT !.prefetched = Append(@, w),
                              !.next_plan_to_prefetch = @ + 1]
      /\ UNCHANGED <<plans, reserved, steps, ran, exchange>>

EndBucket ==
  /\ host.at = "prefetch" /\ ~CanPrefetch
  /\ host' = [host EXCEPT !.at = "bucket", !.plan_index = @ + 1]
  /\ UNCHANGED <<plans, reserved, steps, device, ran, exchange>>

\* After the loop: the last redistributed bucket returns.
EndStep ==
  /\ host.at = "bucket" /\ host.plan_index > Len(plans)
  /\ device' = IF host.previous = <<>> THEN device
               ELSE Release(ReturnPrevious(device), host.previous[1])
  /\ host' = [host EXCEPT !.at = "idle"]
  /\ UNCHANGED <<plans, reserved, steps, ran, exchange>>

\* Mutant of CleanUp: the caller does not wait for the transfers.
MutCleanUpTransferOnly(d) == TransferWaitsCaller(d)

CleanUp(d) == CallerWaitsTransfer(TransferWaitsCaller(d))

\* A callback raises, between two helpers: the finally clause orders the streams,
\* and the job ends.
Raise ==
  /\ MayRaise /\ host.at \in {"bucket", "compute", "prefetch"}
  /\ device' = IF host.transferring THEN CleanUp(device) ELSE device
  /\ host' = [host EXCEPT !.at = "raised"]
  /\ UNCHANGED <<plans, reserved, steps, ran, exchange>>

-----------------------------------------------------------------------------
(* The streams *)

Runnable(queue) == queue # <<>> /\ Head(queue).waits \subseteq ran

Ran(op) ==
  /\ ran' = ran \cup {Id(op)}
  /\ exchange' = IF op.kind \in {"storage_to_compute", "compute"}
                 THEN [exchange EXCEPT ![op.slot] = Id(op)] ELSE exchange
  /\ UNCHANGED <<plans, reserved, steps, host>>

CallerRuns ==
  /\ Runnable(device.caller)
  /\ device' = [device EXCEPT !.caller = Tail(@)]
  /\ Ran(Head(device.caller))

TransferRuns ==
  /\ Runnable(device.transfer)
  /\ device' = [device EXCEPT !.transfer = Tail(@)]
  /\ Ran(Head(device.transfer))

-----------------------------------------------------------------------------
Init ==
  /\ plans = <<>> /\ steps = <<>>
  /\ reserved = [s \in Slot \cup {LocalSlot} |-> 0]
  /\ host = [at |-> "idle", plan_index |-> 1, next_plan_to_prefetch |-> 1,
             redistributed_index |-> 0, transferring |-> FALSE,
             previous |-> <<>>, work |-> <<>>, prefetched |-> <<>>]
  /\ device = [caller |-> <<>>, transfer |-> <<>>,
               recorded |-> [s \in Slot |->
                 [compute_input_ready |-> Nothing, compute_done |-> Nothing,
                  done |-> Nothing]]]
  /\ ran = {Nothing}
  /\ exchange = [s \in Slot |-> Nothing]

\* run() itself, once called.
RunStep ==
  \/ RunLocalBucket \/ StartRedistributedBucket \/ ComputeRedistributedBucket
  \/ PrefetchNext \/ EndBucket \/ EndStep

Next ==
  \/ \E list \in Plans : Plan(list)
  \/ Step \/ RunStep \/ Raise
  \/ CallerRuns \/ TransferRuns

\* run() does not block, and a stream runs an operation that is ready.
Spec == /\ Init /\ [][Next]_vars
        /\ WF_vars(RunStep) /\ WF_vars(CallerRuns) /\ WF_vars(TransferRuns)

-----------------------------------------------------------------------------
(* Properties *)

\* Types of every variable.
TypeOK ==
  /\ plans \in Plans \cup {<<>>}
  /\ reserved \in [Slot \cup {LocalSlot} -> Nat]
  /\ steps \in Seq(Plans)
  /\ host \in Host /\ Len(host.previous) <= 1 /\ Len(host.work) <= 1
  /\ device \in Device
  /\ ran \in SUBSET OpId
  /\ exchange \in [Slot -> OpId]

\* The operations a stream may run now.
Ready == {Head(q) : q \in {r \in {device.caller, device.transfer} : Runnable(r)}}

\* A slot is not overwritten before its last reader ran, on either stream: the
\* update reads what its own exchange brought, the exchange back what its own
\* update left.  And no input is prepared from grads the backward has yet to write.
ExchangeIntact ==
  \A op \in Ready :
    /\ op.kind \in {"storage_to_compute", "local"} => <<"backward", op.step, 0>> \in ran
    /\ op.kind = "compute" =>
         exchange[op.slot] = <<"storage_to_compute", op.step, op.plan>>
    /\ op.kind = "compute_to_storage" =>
         exchange[op.slot] = <<"compute", op.step, op.plan>>

\* The assertions of run(), and "no later redistributed prepare runs before an
\* intervening local bucket": the prefetched buckets are the next ones, in order,
\* with no local bucket among them.
PrefetchedInOrder ==
  \A i \in DOMAIN host.prefetched :
    LET first == IF host.at = "bucket" THEN host.plan_index ELSE host.plan_index + 1
        w == host.prefetched[i]
    IN  host.at # "raised" => w.plan = first + i - 1 /\ ~plans[w.plan].local

\* The slot a bucket runs in was sized for it: reserve_buffers and the rolling
\* window of run() agree, across replans too.
SlotsSuffice ==
  \A q \in {device.caller, device.transfer} : \A i \in DOMAIN q :
    q[i].kind \in {"local", "storage_to_compute", "compute"} =>
      steps[q[i].step][q[i].plan].numel <= reserved[q[i].slot]

\* After an exception, what either stream runs next comes after all that was
\* queued on both, so the buffers' memory may be reused.
CleanedUp ==
  host.at = "raised" /\ host.transferring =>
    \/ device.caller # <<>> /\ device.transfer # <<>>
    \/ \A q \in {device.caller, device.transfer} : \A i \in DOMAIN q : q[i].kind = "wait"

\* The steps the device has begun, and the buckets of the last one not updated.
Begun == Cardinality({n \in DOMAIN steps : <<"backward", n, 0>> \in ran})
Pending ==
  IF Begun = 0 THEN {}
  ELSE {p \in DOMAIN steps[Begun] :
          {<<"local", Begun, p>>, <<"compute_to_storage", Begun, p>>} \cap ran = {}}

Promise == INSTANCE MuonStep WITH step <- Begun, pending <- Pending, raised <- host.at = "raised"

\* The pipeline implements the step: the next backward sees every update of this
\* one, and every bucket is updated once, unless a callback raises.
ImplementsMuonStep == Promise!Spec
=============================================================================
