------------------------- MODULE MuonPipelineProofs -------------------------
(***************************************************************************)
(* Safety of MuonPipeline for every list of bucket plans, any number of    *)
(* slots and of steps: types, the order of the prefetches, and that what   *)
(* is queued for a slot fits the buffers reserved for it.                  *)
(*                                                                         *)
(* reserve_buffers numbers the redistributed buckets over the whole list,  *)
(* run() counts them as it takes them up; the invariant's Window says that *)
(* the two agree at both ends of the prefetched buckets.                   *)
(***************************************************************************)
EXTENDS MuonPipeline, FiniteSetTheorems, SequenceTheorems, WellFoundedInduction, TLAPS

-----------------------------------------------------------------------------
(* Slots and the buffers reserved in them *)

\* A non-empty set of naturals has a least element.  (The sets 1 .. u are finite,
\* and strict inclusion is well-founded on finite sets.)
LEMMA LeastNatural ==
  ASSUME NEW U \in SUBSET Nat, U # {}
  PROVE  \E u \in U : \A v \in U : u <= v
<1> DEFINE R == StrictSubsetOrdering(Nat)
           T == {1 .. u : u \in U}
<1>1. T \subseteq FiniteSubsetsOf(Nat) /\ T # {}
  <2>1. \A u \in U : 1 .. u \subseteq Nat /\ IsFiniteSet(1 .. u)
    BY FS_Interval
  <2> QED BY <2>1 DEF FiniteSubsetsOf
<1>2. IsWellFoundedOn(R, FiniteSubsetsOf(Nat))
  BY FS_StrictSubsetOrderingWellFounded
<1>3. PICK x \in T : \A y \in T : <<y, x>> \notin R
  <2> HIDE DEF R, T
  <2> QED BY <1>1, <1>2, WFMin
<1>4. PICK u \in U : x = 1 .. u
  OBVIOUS
<1>5. ASSUME NEW v \in U PROVE u <= v
  <2> SUFFICES ASSUME v < u PROVE FALSE OBVIOUS
  <2>1. 1 .. v \in SUBSET Nat /\ 1 .. u \in SUBSET Nat
    OBVIOUS
  <2>2. 1 .. v \subseteq 1 .. u /\ 1 .. v # 1 .. u
    <3>1. u \in 1 .. u /\ u \notin 1 .. v OBVIOUS
    <3> QED BY <3>1
  <2>3. <<1 .. v, 1 .. u>> \in R
    BY <2>1, <2>2 DEF StrictSubsetOrdering
  <2> QED BY <1>3, <1>4, <2>3
<1> QED BY <1>5

\* A non-empty set of naturals with an upper bound has a maximum.
LEMMA MaxOfBounded ==
  ASSUME NEW S \in SUBSET Nat, S # {}, NEW n \in Nat, \A x \in S : x <= n
  PROVE  Max(S) \in S /\ \A x \in S : Max(S) >= x
<1> DEFINE U == {u \in Nat : \A x \in S : x <= u}
<1>1. U \in SUBSET Nat /\ U # {} OBVIOUS
<1>2. PICK u \in U : \A v \in U : u <= v
  <2> HIDE DEF U
  <2> QED BY <1>1, LeastNatural
<1>3. u \in S
  <2> SUFFICES ASSUME u \notin S PROVE FALSE OBVIOUS
  <2>1. u \in Nat /\ \A y \in S : y \in Nat /\ y <= u /\ y # u OBVIOUS
  <2>2. \A y \in S : y <= u - 1 BY <2>1
  <2>3. PICK x \in S : TRUE OBVIOUS
  <2>4. u - 1 \in Nat BY <2>1, <2>3
  <2>5. u - 1 \in U BY <2>2, <2>4
  <2> QED BY <1>2, <2>1, <2>5
<1>4. \E x \in S : \A y \in S : x >= y
  BY <1>3
<1> QED BY <1>4 DEF Max

\* Finitely many naturals have an upper bound.
LEMMA BoundedAbove ==
  ASSUME NEW n \in Nat, NEW f, \A i \in 1 .. n : f[i] \in Nat
  PROVE  \E m \in Nat : \A i \in 1 .. n : f[i] <= m
<1> DEFINE Bad == {k \in 0 .. n : \A m \in Nat : \E i \in 1 .. k : ~(f[i] <= m)}
<1>1. ASSUME Bad # {} PROVE FALSE
  <2>1. PICK k \in Bad : \A j \in Bad : k <= j
    <3>1. Bad \in SUBSET Nat OBVIOUS
    <3> HIDE DEF Bad
    <3> QED BY <1>1, <3>1, LeastNatural
  <2>2. k \in 1 .. n
    <3>1. k \in 0 .. n /\ \A m \in Nat : \E i \in 1 .. k : ~(f[i] <= m)
      BY <2>1
    <3>2. PICK i \in 1 .. k : ~(f[i] <= 0) BY <3>1
    <3>3. k \in Int /\ k <= n /\ i \in Int /\ 1 <= i /\ i <= k
      <4> HIDE DEF Bad
      <4> QED BY <3>1, <3>2
    <3> HIDE DEF Bad
    <3> QED BY <3>3
  <2>3. k - 1 \in 0 .. n /\ k - 1 \notin Bad
    <3>1. k - 1 \in 0 .. n /\ k - 1 < k BY <2>2
    <3> HIDE DEF Bad
    <3> QED BY <2>1, <2>2, <3>1
  <2>4. PICK m \in Nat : \A i \in 1 .. k - 1 : f[i] <= m
    BY <2>3
  <2>5. PICK b \in Nat : m <= b /\ f[k] <= b
    <3> HIDE DEF Bad
    <3>1. f[k] \in Nat BY <2>2
    <3>2. CASE m <= f[k] BY <3>1, <3>2
    <3>3. CASE f[k] < m BY <3>1, <3>3
    <3> QED BY <3>1, <3>2, <3>3
  <2>6. \A i \in 1 .. k : f[i] <= b
    <3> SUFFICES ASSUME NEW i \in 1 .. k PROVE f[i] <= b OBVIOUS
    <3>1. f[i] \in Nat BY <2>2
    <3>2. CASE i = k BY <2>5, <3>2
    <3>3. CASE i # k
      <4>1. i \in 1 .. k - 1 BY <2>2, <3>3
      <4> QED BY <2>4, <2>5, <3>1, <4>1
    <3> QED BY <3>2, <3>3
  <2> QED BY <2>1, <2>6
<1>2. n \notin Bad
  BY <1>1
<1> QED BY <1>2

\* The elements of a list of plans.
LEMMA PlanFacts ==
  ASSUME NEW list \in Seq(BucketPlan)
  PROVE  /\ Len(list) \in Nat /\ DOMAIN list = 1 .. Len(list)
         /\ \A i \in DOMAIN list : list[i].numel \in Nat
<1>1. Len(list) \in Nat /\ DOMAIN list = 1 .. Len(list)
  BY LenProperties
<1>2. \A i \in DOMAIN list : list[i] \in BucketPlan
  BY <1>1, ElementOfSeq
<1> QED BY <1>1, <1>2 DEF BucketPlan

\* reserve_buffers grows every slot to the plans that use it.
LEMMA ReserveFacts ==
  ASSUME PipelineConstantsOK,
         reserved \in [Slot \cup {LocalSlot} -> Nat],
         NEW list \in Seq(BucketPlan)
  PROVE  /\ Reserve(list) \in [Slot \cup {LocalSlot} -> Nat]
         /\ \A s \in Slot \cup {LocalSlot} :
              /\ Reserve(list)[s] >= reserved[s]
              /\ \A i \in DOMAIN list : SlotOf(list, i) = s => Reserve(list)[s] >= list[i].numel
<1> SUFFICES ASSUME NEW s \in Slot \cup {LocalSlot}
             PROVE  /\ Reserve(list)[s] \in Nat
                    /\ Reserve(list)[s] >= reserved[s]
                    /\ \A i \in DOMAIN list :
                         SlotOf(list, i) = s => Reserve(list)[s] >= list[i].numel
  BY DEF Reserve
<1> DEFINE S == {reserved[s]} \cup {list[i].numel : i \in {j \in DOMAIN list : SlotOf(list, j) = s}}
<1>1. Reserve(list)[s] = Max(S)
  BY DEF Reserve
<1>2. reserved[s] \in Nat /\ Len(list) \in Nat /\ DOMAIN list = 1 .. Len(list)
      /\ \A i \in DOMAIN list : list[i].numel \in Nat
  BY PlanFacts
<1>3. S \in SUBSET Nat /\ S # {}
  BY <1>2
<1> DEFINE f == [i \in 1 .. Len(list) |-> list[i].numel]
<1>4. PICK n \in Nat : \A i \in 1 .. Len(list) : f[i] <= n
  <2>1. \A i \in 1 .. Len(list) : f[i] \in Nat BY <1>2
  <2> HIDE DEF f
  <2> QED BY <1>2, <2>1, BoundedAbove
<1>5. PICK m \in Nat : n <= m /\ reserved[s] <= m
  BY <1>2
<1>6. \A x \in S : x <= m
  <2>1. \A i \in DOMAIN list : list[i].numel <= m
    BY <1>2, <1>4, <1>5
  <2> QED BY <1>5, <2>1
<1>7. Max(S) \in S /\ \A x \in S : Max(S) >= x
  <2> HIDE DEF S
  <2> QED BY <1>3, <1>6, MaxOfBounded
<1> QED BY <1>1, <1>3, <1>7

\* One more bucket before i.
LEMMA RedistributedFacts ==
  ASSUME NEW list \in Seq(BucketPlan)
  PROVE  /\ RedistributedBefore(list, 1) = 0
         /\ \A i \in 1 .. Len(list) :
              /\ RedistributedBefore(list, i) \in Nat
              /\ RedistributedBefore(list, i + 1) =
                   RedistributedBefore(list, i) + (IF list[i].local THEN 0 ELSE 1)
<1> DEFINE B(i) == {j \in 1 .. i - 1 : ~list[j].local}
<1>1. RedistributedBefore(list, 1) = 0
  <2>1. B(1) = {} OBVIOUS
  <2> QED BY <2>1, FS_EmptySet DEF RedistributedBefore
<1>2. ASSUME NEW i \in 1 .. Len(list)
      PROVE  /\ RedistributedBefore(list, i) \in Nat
             /\ RedistributedBefore(list, i + 1) =
                  RedistributedBefore(list, i) + (IF list[i].local THEN 0 ELSE 1)
  <2>1. i \in Nat /\ i >= 1 BY PlanFacts
  <2>2. IsFiniteSet(B(i))
    <3>1. IsFiniteSet(1 .. i - 1) BY <2>1, FS_Interval
    <3>2. B(i) \subseteq 1 .. i - 1 OBVIOUS
    <3> QED BY <3>1, <3>2, FS_Subset
  <2>3. i \notin B(i) BY <2>1
  <2>4. (i + 1) - 1 = i BY <2>1
  <2>5. 1 .. i = (1 .. i - 1) \cup {i} BY <2>1
  <2>6. /\ RedistributedBefore(list, i) = Cardinality(B(i))
        /\ RedistributedBefore(list, i + 1) = Cardinality(B(i + 1))
    BY DEF RedistributedBefore
  <2>7. list[i].local => B(i + 1) = B(i)
    BY <2>4, <2>5
  <2>8. ~list[i].local => B(i + 1) = B(i) \cup {i}
    BY <2>4, <2>5
  <2> HIDE DEF B
  <2>9. Cardinality(B(i)) \in Nat /\ Cardinality(B(i) \cup {i}) = Cardinality(B(i)) + 1
    BY <2>2, <2>3, FS_CardinalityType, FS_AddElement
  <2>10. CASE list[i].local BY <2>6, <2>7, <2>9, <2>10
  <2>11. CASE ~list[i].local BY <2>6, <2>8, <2>9, <2>11
  <2> QED BY <2>10, <2>11
<1> QED BY <1>1, <1>2

\* Slots are slots.
LEMMA SlotAtFacts ==
  ASSUME PipelineConstantsOK, NEW n \in Nat
  PROVE  SlotAt(n) \in Slot
BY DEF PipelineConstantsOK, SlotAt, Slot

-----------------------------------------------------------------------------
(* What the helpers queue fits the slots *)

\* SlotsSuffice of one operation.
Fits(op) ==
  op.kind \in {"local", "storage_to_compute", "compute"} =>
    /\ op.step \in DOMAIN steps /\ op.plan \in DOMAIN steps[op.step]
    /\ steps[op.step][op.plan].numel <= reserved[op.slot]

FitOp == {op \in Op : Fits(op)}

\* A device all of whose queued operations fit.
FitDevice == [caller : Seq(FitOp), transfer : Seq(FitOp), recorded : [Slot -> Events]]

\* A bucket of this step, in a slot that is large enough.
FitWork ==
  {w \in Work : /\ w.plan \in DOMAIN steps[Len(steps)]
                /\ steps[Len(steps)][w.plan].numel <= reserved[w.slot]}

\* Queueing an operation that fits, and recording it.
LEMMA QueueFacts ==
  ASSUME NEW d \in FitDevice, NEW op \in FitOp, NEW s \in Slot, NEW id \in OpId
  PROVE  /\ [d EXCEPT !.caller = Append(@, op)] \in FitDevice
         /\ [d EXCEPT !.transfer = Append(@, op)] \in FitDevice
         /\ [d EXCEPT !.transfer = Append(@, op),
                      !.recorded[s].compute_input_ready = id] \in FitDevice
         /\ [d EXCEPT !.caller = Append(@, op),
                      !.recorded[s].compute_done = id] \in FitDevice
         /\ [d EXCEPT !.transfer = Append(@, op),
                      !.recorded[s].done = id] \in FitDevice
<1>1. /\ d.caller \in Seq(FitOp) /\ d.transfer \in Seq(FitOp)
      /\ d.recorded \in [Slot -> Events]
  BY DEF FitDevice
<1>2. Append(d.caller, op) \in Seq(FitOp) /\ Append(d.transfer, op) \in Seq(FitOp)
  BY <1>1
<1>3. /\ [d.recorded EXCEPT ![s].compute_input_ready = id] \in [Slot -> Events]
      /\ [d.recorded EXCEPT ![s].compute_done = id] \in [Slot -> Events]
      /\ [d.recorded EXCEPT ![s].done = id] \in [Slot -> Events]
  BY <1>1 DEF Events
<1> QED BY <1>1, <1>2, <1>3 DEF FitDevice

\* Queueing an operation that fits, and recording nothing.
LEMMA QueueOneFacts ==
  ASSUME NEW d \in FitDevice, NEW op \in FitOp
  PROVE  /\ [d EXCEPT !.caller = Append(@, op)] \in FitDevice
         /\ [d EXCEPT !.transfer = Append(@, op)] \in FitDevice
<1>1. 0 \in Slot /\ Nothing \in OpId
  BY PipelineConstantsOK DEF PipelineConstantsOK, Slot, Nothing, OpId, Kinds
<1> QED BY <1>1, QueueFacts, Zenon

LEMMA NewOpFacts ==
  ASSUME NEW kind \in Kinds, NEW w \in [plan : Nat, slot : Slot \cup {LocalSlot}],
         NEW waits \in SUBSET OpId, Len(steps) \in Nat
  PROVE  /\ NewOp(kind, w, waits) \in Op
         /\ Id(NewOp(kind, w, waits)) \in OpId
         /\ kind \notin {"local", "storage_to_compute", "compute"} =>
              NewOp(kind, w, waits) \in FitOp
BY DEF NewOp, Op, Id, OpId, FitOp, Fits

\* The operations of a fitting bucket fit.
LEMMA FitOpFacts ==
  ASSUME NEW kind \in Kinds, NEW w \in FitWork, NEW waits \in SUBSET OpId,
         Len(steps) \in Nat \ {0}, DOMAIN steps = 1 .. Len(steps)
  PROVE  NewOp(kind, w, waits) \in FitOp
<1>1. w \in [plan : Nat, slot : Slot \cup {LocalSlot}]
  BY DEF FitWork, Work
<1>2. NewOp(kind, w, waits) \in Op
  BY <1>1, NewOpFacts
<1> QED BY <1>2 DEF FitOp, Fits, FitWork, NewOp

LEMMA EventFacts ==
  ASSUME NEW d \in FitDevice, NEW s \in Slot
  PROVE  {d.recorded[s].compute_input_ready} \in SUBSET OpId
         /\ {d.recorded[s].compute_done} \in SUBSET OpId
         /\ {d.recorded[s].done} \in SUBSET OpId
BY DEF FitDevice, Events

LEMMA QueuedFacts ==
  ASSUME NEW queue \in Seq(FitOp)
  PROVE  Queued(queue) \in SUBSET OpId
<1>1. \A i \in DOMAIN queue : queue[i] \in Op
  BY LenProperties, ElementOfSeq DEF FitOp
<1> QED BY <1>1 DEF Queued, Id, Op, OpId

\* The streams' waits for each other.
LEMMA WaitFacts ==
  ASSUME NEW d \in FitDevice, Len(steps) \in Nat
  PROVE  /\ TransferWaitsCaller(d) \in FitDevice
         /\ CallerWaitsTransfer(d) \in FitDevice
<1> DEFINE w == [plan |-> 0, slot |-> LocalSlot]
<1>1. w \in [plan : Nat, slot : Slot \cup {LocalSlot}]
  OBVIOUS
<1>2. Queued(d.caller) \in SUBSET OpId /\ Queued(d.transfer) \in SUBSET OpId
  BY QueuedFacts DEF FitDevice
<1>3. NewOp("wait", w, Queued(d.caller)) \in FitOp /\ NewOp("wait", w, Queued(d.transfer)) \in FitOp
  <2> HIDE DEF w
  <2> QED BY <1>1, <1>2, NewOpFacts DEF Kinds
<1>4. /\ TransferWaitsCaller(d) =
           [d EXCEPT !.transfer = Append(@, NewOp("wait", w, Queued(d.caller)))]
      /\ CallerWaitsTransfer(d) =
           [d EXCEPT !.caller = Append(@, NewOp("wait", w, Queued(d.transfer)))]
  BY DEF TransferWaitsCaller, CallerWaitsTransfer
<1> HIDE DEF w
<1>5. /\ [d EXCEPT !.transfer = Append(@, NewOp("wait", w, Queued(d.caller)))] \in FitDevice
      /\ [d EXCEPT !.caller = Append(@, NewOp("wait", w, Queued(d.transfer)))] \in FitDevice
  BY <1>3, QueueOneFacts
<1> QED BY <1>4, <1>5

\* The helpers that return a bucket, which use no buffer sized for the compute.
LEMMA ReturnFacts ==
  ASSUME NEW d \in FitDevice, NEW w \in Work, Len(steps) \in Nat
  PROVE  /\ EnqueueComputeToStorage(d, w) \in FitDevice
         /\ Release(d, w) \in FitDevice
<1>1. w \in [plan : Nat, slot : Slot \cup {LocalSlot}] /\ w.slot \in Slot
  BY DEF Work
<1> DEFINE o1 == NewOp("compute_to_storage", w, {d.recorded[w.slot].compute_done})
           o2 == NewOp("release", w, {d.recorded[w.slot].done})
<1>2. o1 \in FitOp /\ Id(o1) \in OpId /\ o2 \in FitOp
  BY <1>1, EventFacts, NewOpFacts DEF Kinds
<1>3. EnqueueComputeToStorage(d, w) =
        [d EXCEPT !.transfer = Append(@, o1), !.recorded[w.slot].done = Id(o1)]
  BY DEF EnqueueComputeToStorage
<1>4. Release(d, w) = [d EXCEPT !.caller = Append(@, o2)]
  BY DEF Release
<1> HIDE DEF o1, o2
<1>5. EnqueueComputeToStorage(d, w) \in FitDevice
  <2>1. [d EXCEPT !.transfer = Append(@, o1), !.recorded[w.slot].done = Id(o1)] \in FitDevice
    BY <1>1, <1>2, QueueFacts, Zenon
  <2> QED BY <2>1, <1>3, Zenon
<1>6. Release(d, w) \in FitDevice
  BY <1>1, <1>2, <1>4, QueueFacts
<1> QED BY <1>5, <1>6

\* The helpers that bring and update a bucket.
LEMMA BringFacts ==
  ASSUME NEW d \in FitDevice, NEW w \in FitWork,
         Len(steps) \in Nat \ {0}, DOMAIN steps = 1 .. Len(steps)
  PROVE  /\ EnqueueStorageToCompute(d, w) \in FitDevice
         /\ ComputeBucket(d, w) \in FitDevice
<1>1. w.slot \in Slot /\ w \in Work /\ w \in [plan : Nat, slot : Slot \cup {LocalSlot}]
  BY DEF FitWork, Work
<1> DEFINE o1 == NewOp("storage_to_compute", w, {})
           o2 == NewOp("compute", w, {d.recorded[w.slot].compute_input_ready})
<1>2. o1 \in FitOp /\ o2 \in FitOp
  BY <1>1, EventFacts, FitOpFacts DEF Kinds
<1>3. Id(o1) \in OpId /\ Id(o2) \in OpId
  BY <1>1, EventFacts, NewOpFacts DEF Kinds
<1>4. EnqueueStorageToCompute(d, w) =
        [d EXCEPT !.transfer = Append(@, o1),
                  !.recorded[w.slot].compute_input_ready = Id(o1)]
  BY DEF EnqueueStorageToCompute
<1>5. ComputeBucket(d, w) =
        [d EXCEPT !.caller = Append(@, o2), !.recorded[w.slot].compute_done = Id(o2)]
  BY DEF ComputeBucket
<1> HIDE DEF o1, o2
<1>6. EnqueueStorageToCompute(d, w) \in FitDevice
  <2>1. [d EXCEPT !.transfer = Append(@, o1),
                   !.recorded[w.slot].compute_input_ready = Id(o1)] \in FitDevice
    BY <1>1, <1>2, <1>3, QueueFacts, Zenon
  <2> QED BY <2>1, <1>4, Zenon
<1>7. ComputeBucket(d, w) \in FitDevice
  <2>1. [d EXCEPT !.caller = Append(@, o2), !.recorded[w.slot].compute_done = Id(o2)] \in FitDevice
    BY <1>1, <1>2, <1>3, QueueFacts, Zenon
  <2> QED BY <2>1, <1>5, Zenon
<1> QED BY <1>6, <1>7

\* A local bucket that fits the local slot.
LEMMA LocalFacts ==
  ASSUME NEW d \in FitDevice, NEW i \in Nat,
         Len(steps) \in Nat \ {0}, DOMAIN steps = 1 .. Len(steps),
         i \in DOMAIN steps[Len(steps)],
         steps[Len(steps)][i].numel <= reserved[LocalSlot]
  PROVE  LocalBucket(d, i) \in FitDevice
<1> DEFINE w == [plan |-> i, slot |-> LocalSlot]
           op == NewOp("local", w, {})
<1>1. w \in [plan : Nat, slot : Slot \cup {LocalSlot}] /\ w.plan = i /\ w.slot = LocalSlot
  OBVIOUS
<1>2. LocalBucket(d, i) = [d EXCEPT !.caller = Append(@, op)]
  BY DEF LocalBucket
<1> HIDE DEF w
<1>3. op \in Op
  BY <1>1, NewOpFacts DEF Kinds
<1>4. op \in FitOp
  BY <1>1, <1>3 DEF FitOp, Fits, NewOp
<1> HIDE DEF op
<1>5. [d EXCEPT !.caller = Append(@, op)] \in FitDevice
  BY <1>4, QueueOneFacts
<1> QED BY <1>2, <1>5

-----------------------------------------------------------------------------
(* The inductive invariant *)

\* run() is under way.
Running(h) == h.at \in {"bucket", "compute", "prefetch"}

\* The first plan that run() has not taken up.
FirstLeft(h) == IF h.at = "bucket" THEN h.plan_index ELSE h.plan_index + 1

\* The redistributed buckets that run() has taken up.
Taken(h) == h.redistributed_index + (IF h.at = "compute" THEN 1 ELSE 0)

\* A redistributed bucket of the plans, in the slot reserved for it.
InItsSlot(w) ==
  w.plan \in DOMAIN plans /\ ~plans[w.plan].local /\ w.slot = SlotOf(plans, w.plan)

\* The prefetched buckets are those from FirstLeft up to next_plan_to_prefetch,
\* and the count of the redistributed ones agrees with reserve_buffers at both ends.
Window(h) ==
  /\ h.plan_index >= 1
  /\ h.next_plan_to_prefetch = FirstLeft(h) + Len(h.prefetched)
  /\ h.next_plan_to_prefetch <= Len(plans) + 1
  /\ RedistributedBefore(plans, FirstLeft(h)) = Taken(h)
  /\ RedistributedBefore(plans, h.next_plan_to_prefetch) = Taken(h) + Len(h.prefetched)
  /\ \A i \in DOMAIN h.prefetched :
       h.prefetched[i].plan = FirstLeft(h) + i - 1 /\ InItsSlot(h.prefetched[i])
  /\ h.at = "compute" => Len(h.work) = 1 /\ InItsSlot(h.work[1])

\* Every plan fits its slot.
PlansFit == \A i \in DOMAIN plans : plans[i].numel <= reserved[SlotOf(plans, i)]

IInv ==
  /\ TypeOK /\ device \in FitDevice /\ PlansFit
  /\ Running(host) => steps # <<>> /\ plans = steps[Len(steps)] /\ Window(host)
  /\ host.at = "idle" => host.prefetched = <<>>

\* Types of a state of run().
HostOK(h) == h \in Host /\ Len(h.previous) <= 1 /\ Len(h.work) <= 1

LEMMA HostFacts ==
  ASSUME NEW h \in Host
  PROVE  /\ h.prefetched \in Seq(Work) /\ Len(h.prefetched) \in Nat
         /\ DOMAIN h.prefetched = 1 .. Len(h.prefetched)
         /\ h.prefetched # <<>> => Len(h.prefetched) >= 1
         /\ h.prefetched = <<>> => Len(h.prefetched) = 0
         /\ h.plan_index \in Nat /\ h.redistributed_index \in Nat
         /\ h.next_plan_to_prefetch \in Nat
         /\ h.previous \in Seq(Work) /\ h.work \in Seq(Work)
         /\ h.previous # <<>> => h.previous[1] \in Work
         /\ Len(h.work) = 1 => h.work[1] \in Work
<1>1. /\ h.prefetched \in Seq(Work) /\ h.previous \in Seq(Work) /\ h.work \in Seq(Work)
      /\ h.plan_index \in Nat /\ h.redistributed_index \in Nat
      /\ h.next_plan_to_prefetch \in Nat
  BY DEF Host
<1>2. h.previous # <<>> => h.previous[1] \in Work
  BY <1>1, EmptySeq, ElementOfSeq
<1>3. Len(h.work) = 1 => h.work[1] \in Work
  BY <1>1, ElementOfSeq
<1> QED BY <1>1, <1>2, <1>3, LenProperties, EmptySeq

\* What follows of the types.
LEMMA TypeFacts ==
  ASSUME TypeOK
  PROVE  /\ plans \in Seq(BucketPlan) /\ Len(plans) \in Nat /\ DOMAIN plans = 1 .. Len(plans)
         /\ Len(steps) \in Nat /\ DOMAIN steps = 1 .. Len(steps)
         /\ steps # <<>> => Len(steps) \in Nat \ {0}
         /\ \A n \in DOMAIN steps : steps[n] \in Seq(BucketPlan)
         /\ HostOK(host)
<1>1. plans \in Seq(BucketPlan)
  BY PipelineConstantsOK, EmptySeq DEF TypeOK, PipelineConstantsOK
<1>2. steps \in Seq(Plans)
  BY DEF TypeOK
<1>3. \A n \in DOMAIN steps : steps[n] \in Seq(BucketPlan)
  BY <1>2, LenProperties, ElementOfSeq, PipelineConstantsOK DEF PipelineConstantsOK
<1>4. HostOK(host)
  BY DEF TypeOK, HostOK
<1> QED BY <1>1, <1>2, <1>3, <1>4, LenProperties, EmptySeq

\* A device that fits is a device.
LEMMA FitDeviceIsDevice == FitDevice \subseteq Device
<1> SUFFICES ASSUME NEW d \in FitDevice PROVE d \in Device OBVIOUS
<1>1. d.caller \in Seq(Op) /\ d.transfer \in Seq(Op)
  BY SeqMonotonic DEF FitDevice, FitOp
<1> QED BY <1>1 DEF FitDevice, Device

\* While run() is under way.
LEMMA RunningFacts ==
  ASSUME IInv, Running(host)
  PROVE  /\ plans \in Seq(BucketPlan) /\ Len(plans) \in Nat /\ DOMAIN plans = 1 .. Len(plans)
         /\ Len(steps) \in Nat \ {0} /\ DOMAIN steps = 1 .. Len(steps)
         /\ plans = steps[Len(steps)]
         /\ HostOK(host) /\ host \in Host /\ Window(host) /\ device \in FitDevice
         /\ \A w \in Work : InItsSlot(w) => w \in FitWork
<1>1. /\ plans = steps[Len(steps)] /\ steps # <<>> /\ Window(host) /\ TypeOK
      /\ device \in FitDevice /\ PlansFit
  BY DEF IInv
<1>2. HostOK(host) /\ host \in Host
  BY <1>1, TypeFacts DEF HostOK
<1>3. \A w \in Work : InItsSlot(w) => w \in FitWork
  BY <1>1 DEF PlansFit, InItsSlot, FitWork
<1>4. /\ plans \in Seq(BucketPlan) /\ Len(plans) \in Nat /\ DOMAIN plans = 1 .. Len(plans)
      /\ Len(steps) \in Nat \ {0} /\ DOMAIN steps = 1 .. Len(steps)
  BY <1>1, TypeFacts
<1> QED BY <1>1, <1>2, <1>3, <1>4

\* The window of run() on the next plan.
LEMMA NextPlanFacts ==
  ASSUME IInv, Running(host), NEW n \in DOMAIN plans,
         NEW k \in Nat, RedistributedBefore(plans, n) = k
  PROVE  /\ n \in Nat /\ n >= 1 /\ n <= Len(plans)
         /\ RedistributedBefore(plans, n + 1) = k + (IF plans[n].local THEN 0 ELSE 1)
         /\ ~plans[n].local => SlotOf(plans, n) = SlotAt(k) /\ SlotAt(k) \in Slot
<1>1. plans \in Seq(BucketPlan) /\ DOMAIN plans = 1 .. Len(plans) /\ Len(plans) \in Nat
  BY RunningFacts
<1>2. n \in Nat /\ n >= 1 /\ n <= Len(plans)
  BY <1>1
<1>3. RedistributedBefore(plans, n + 1) =
        RedistributedBefore(plans, n) + (IF plans[n].local THEN 0 ELSE 1)
  BY <1>1, RedistributedFacts
<1>4. ~plans[n].local => SlotOf(plans, n) = SlotAt(k)
  BY DEF SlotOf, SlotAt
<1>5. SlotAt(k) \in Slot
  BY SlotAtFacts, PipelineConstantsOK
<1> QED BY <1>2, <1>3, <1>4, <1>5

\* A step of run() that keeps the types and the window keeps the invariant.
LEMMA HostStep ==
  ASSUME IInv, Running(host), UNCHANGED <<plans, reserved, steps, ran, exchange>>,
         device' \in FitDevice, HostOK(host'),
         Running(host') => Window(host'), host'.at = "idle" => host'.prefetched = <<>>
  PROVE  IInv'
<1>1. FitDevice' = FitDevice
  BY DEF FitDevice, FitOp, Fits
<1>2. TypeOK'
  BY FitDeviceIsDevice DEF IInv, TypeOK, HostOK
<1>3. PlansFit'
  BY DEF IInv, PlansFit, SlotOf, RedistributedBefore
<1>4. Window(host)' <=> Window(host')
  BY DEF Window, FirstLeft, Taken, InItsSlot, SlotOf, RedistributedBefore
<1>5. Running(host)' <=> Running(host')
  BY DEF Running
<1> QED BY <1>1, <1>2, <1>3, <1>4, <1>5 DEF IInv

-----------------------------------------------------------------------------
(* Each action preserves the invariant *)

LEMMA RunLocalBucketPreserves == IInv /\ RunLocalBucket => IInv'
<1> SUFFICES ASSUME IInv, RunLocalBucket PROVE IInv'
  OBVIOUS
<1> DEFINE i == host.plan_index
<1>1. /\ Running(host) /\ FirstLeft(host) = i /\ Taken(host) = host.redistributed_index + 0
      /\ i <= Len(plans) /\ plans[i].local
      /\ UNCHANGED <<plans, reserved, steps, ran, exchange>>
      /\ device' = LocalBucket(device, i)
      /\ host' = [host EXCEPT !.plan_index = @ + 1, !.next_plan_to_prefetch = i + 1]
      /\ host.at = "bucket"
  BY DEF RunLocalBucket, AtBucket, Running, FirstLeft, Taken
<1>2. i \in DOMAIN plans /\ i \in Nat /\ i + 1 \in Nat /\ i + 1 <= Len(plans) + 1
      /\ host.redistributed_index \in Nat
  BY <1>1, RunningFacts, HostFacts DEF Window
<1>3. host.prefetched = <<>>
  <2> SUFFICES ASSUME host.prefetched # <<>> PROVE FALSE
    OBVIOUS
  <2>1. 1 \in DOMAIN host.prefetched
    BY <1>1, RunningFacts, HostFacts
  <2>2. host.prefetched[1].plan = i + 1 - 1 /\ InItsSlot(host.prefetched[1])
    BY <1>1, <2>1, RunningFacts DEF Window
  <2> QED BY <1>1, <1>2, <2>2 DEF InItsSlot
<1>4. device' \in FitDevice
  <2>1. SlotOf(plans, i) = LocalSlot
    BY <1>1 DEF SlotOf
  <2>2. plans[i].numel <= reserved[LocalSlot]
    BY <1>2, <2>1 DEF IInv, PlansFit
  <2> QED BY <1>1, <1>2, <2>2, RunningFacts, LocalFacts
<1>5. HostOK(host')
  BY <1>1, <1>2, RunningFacts DEF HostOK, Host
<1>6. /\ host'.at = "bucket" /\ host'.plan_index = i + 1
      /\ host'.next_plan_to_prefetch = i + 1 /\ host'.prefetched = <<>>
      /\ host'.redistributed_index = host.redistributed_index
  BY <1>1, <1>3, RunningFacts DEF Host
<1>7. RedistributedBefore(plans, i + 1) = host.redistributed_index
  <2>1. RedistributedBefore(plans, i) = host.redistributed_index
    BY <1>1, <1>2, RunningFacts DEF Window
  <2> QED BY <1>1, <1>2, <2>1, NextPlanFacts
<1>8. Window(host')
  <2>1. FirstLeft(host') = i + 1 /\ Taken(host') = host.redistributed_index
    BY <1>2, <1>6 DEF FirstLeft, Taken
  <2>2. Len(host'.prefetched) = 0 /\ DOMAIN host'.prefetched = {}
    BY <1>5, <1>6, HostFacts DEF HostOK
  <2> QED BY <1>2, <1>6, <1>7, <2>1, <2>2 DEF Window
<1> QED BY <1>1, <1>4, <1>5, <1>6, <1>8, HostStep

LEMMA EndBucketPreserves == IInv /\ EndBucket => IInv'
<1> SUFFICES ASSUME IInv, EndBucket PROVE IInv'
  OBVIOUS
<1>1. /\ Running(host) /\ host.at = "prefetch"
      /\ UNCHANGED <<plans, reserved, steps, ran, exchange, device>>
      /\ host' = [host EXCEPT !.at = "bucket", !.plan_index = @ + 1]
  BY DEF EndBucket, Running
<1>2. host.plan_index \in Nat /\ host.plan_index + 1 \in Nat
  BY <1>1, RunningFacts, HostFacts
<1>3. HostOK(host')
  BY <1>1, <1>2, RunningFacts DEF HostOK, Host
<1>4. /\ host'.at = "bucket" /\ host'.plan_index = host.plan_index + 1
      /\ host'.prefetched = host.prefetched
      /\ host'.next_plan_to_prefetch = host.next_plan_to_prefetch
      /\ host'.redistributed_index = host.redistributed_index
  BY <1>1, RunningFacts DEF Host
<1>5. FirstLeft(host') = FirstLeft(host) /\ Taken(host') = Taken(host)
  BY <1>1, <1>4 DEF FirstLeft, Taken
<1>6. Window(host')
  BY <1>1, <1>2, <1>4, <1>5, RunningFacts DEF Window
<1>7. device' \in FitDevice
  BY <1>1, RunningFacts
<1> QED BY <1>1, <1>3, <1>4, <1>6, <1>7, HostStep

LEMMA PrefetchNextPreserves == IInv /\ PrefetchNext => IInv'
<1> SUFFICES ASSUME IInv, PrefetchNext PROVE IInv'
  OBVIOUS
<1> DEFINE n == host.next_plan_to_prefetch
           k == host.redistributed_index + Len(host.prefetched)
           w == [plan |-> n, slot |-> SlotAt(k)]
<1>1. /\ Running(host) /\ host.at = "prefetch" /\ n <= Len(plans) /\ ~plans[n].local
      /\ UNCHANGED <<plans, reserved, steps, ran, exchange>>
      /\ device' = EnqueueStorageToCompute(device, w)
      /\ host' = [host EXCEPT !.prefetched = Append(@, w), !.next_plan_to_prefetch = @ + 1]
  BY DEF PrefetchNext, CanPrefetch, Running
<1>2. /\ host.plan_index \in Nat /\ host.plan_index >= 1 /\ n \in Nat /\ n + 1 \in Nat
      /\ Len(host.prefetched) \in Nat /\ host.redistributed_index \in Nat /\ k \in Nat
      /\ n = host.plan_index + 1 + Len(host.prefetched)
      /\ FirstLeft(host) = host.plan_index + 1 /\ Taken(host) = host.redistributed_index
      /\ RedistributedBefore(plans, n) = k
  <2>1. /\ Window(host) /\ host.plan_index \in Nat /\ host.redistributed_index \in Nat
        /\ host.next_plan_to_prefetch \in Nat /\ Len(host.prefetched) \in Nat
    BY <1>1, RunningFacts, HostFacts
  <2>2. FirstLeft(host) = host.plan_index + 1 /\ Taken(host) = host.redistributed_index
    BY <1>1, <2>1 DEF FirstLeft, Taken
  <2>3. /\ n = FirstLeft(host) + Len(host.prefetched) /\ host.plan_index >= 1
        /\ RedistributedBefore(plans, n) = Taken(host) + Len(host.prefetched)
    BY <2>1 DEF Window
  <2> QED BY <2>1, <2>2, <2>3
<1>3. n \in DOMAIN plans
  BY <1>1, <1>2, RunningFacts
<1>4. /\ RedistributedBefore(plans, n + 1) = k + 1
      /\ SlotOf(plans, n) = SlotAt(k) /\ SlotAt(k) \in Slot
  BY <1>1, <1>2, <1>3, NextPlanFacts
<1>5. w \in Work /\ InItsSlot(w) /\ w.plan = n
  BY <1>1, <1>2, <1>3, <1>4 DEF Work, InItsSlot
<1> HIDE DEF w, k
<1>6. device' \in FitDevice
  BY <1>1, <1>5, RunningFacts, BringFacts
<1>7. Append(host.prefetched, w) \in Seq(Work)
  BY <1>1, <1>5, RunningFacts, HostFacts, AppendProperties
<1>8. /\ HostOK(host')
      /\ host'.at = "prefetch" /\ host'.plan_index = host.plan_index
      /\ host'.prefetched = Append(host.prefetched, w)
      /\ host'.next_plan_to_prefetch = n + 1
      /\ host'.redistributed_index = host.redistributed_index
  BY <1>1, <1>2, <1>7, RunningFacts DEF HostOK, Host
<1>9. Window(host')
  <2>1. /\ Len(host'.prefetched) = Len(host.prefetched) + 1
        /\ DOMAIN host'.prefetched = 1 .. Len(host.prefetched) + 1
        /\ \A i \in 1 .. Len(host.prefetched) : host'.prefetched[i] = host.prefetched[i]
        /\ host'.prefetched[Len(host.prefetched) + 1] = w
    BY <1>1, <1>5, <1>8, RunningFacts, HostFacts, AppendProperties, LenProperties
  <2>2. FirstLeft(host') = host.plan_index + 1 /\ Taken(host') = host.redistributed_index
    BY <1>2, <1>8 DEF FirstLeft, Taken
  <2>3. \A i \in 1 .. Len(host.prefetched) :
          host.prefetched[i].plan = FirstLeft(host) + i - 1 /\ InItsSlot(host.prefetched[i])
    BY <1>1, RunningFacts, HostFacts DEF Window
  <2>4. ASSUME NEW i \in 1 .. Len(host.prefetched) + 1
        PROVE  /\ host'.prefetched[i].plan = host.plan_index + 1 + i - 1
               /\ InItsSlot(host'.prefetched[i])
    <3>1. CASE i = Len(host.prefetched) + 1
      BY <1>2, <1>5, <2>1, <3>1
    <3>2. CASE i # Len(host.prefetched) + 1
      <4>1. i \in 1 .. Len(host.prefetched) BY <1>2, <3>2
      <4>2. host'.prefetched[i] = host.prefetched[i] BY <2>1, <4>1
      <4>3. FirstLeft(host) = host.plan_index + 1 BY <1>2
      <4> HIDE DEF FirstLeft
      <4>4. /\ host.prefetched[i].plan = FirstLeft(host) + i - 1
            /\ InItsSlot(host.prefetched[i])
        BY <2>3, <4>1
      <4> QED BY <4>2, <4>3, <4>4
    <3> QED BY <3>1, <3>2
  <2>5. RedistributedBefore(plans, FirstLeft(host')) = Taken(host')
    <3>1. RedistributedBefore(plans, FirstLeft(host)) = Taken(host) /\ plans' = plans
      BY <1>1, RunningFacts DEF Window
    <3>2. FirstLeft(host') = FirstLeft(host) /\ Taken(host') = Taken(host)
      BY <1>2, <2>2
    <3> QED BY <3>1, <3>2
  <2>6. k + 1 = Taken(host') + Len(host'.prefetched)
    BY <1>2, <2>1, <2>2 DEF k
  <2> HIDE DEF n
  <2>7. /\ host'.next_plan_to_prefetch = FirstLeft(host') + Len(host'.prefetched)
        /\ host'.next_plan_to_prefetch <= Len(plans) + 1
    <3>1. n <= Len(plans) /\ Len(plans) \in Nat
      BY <1>1, RunningFacts
    <3>2. host'.next_plan_to_prefetch = n + 1
      BY <1>8
    <3> QED BY <1>2, <2>1, <2>2, <3>1, <3>2
  <2> QED BY <1>2, <1>4, <1>8, <2>1, <2>2, <2>4, <2>5, <2>6, <2>7 DEF Window
<1> QED BY <1>1, <1>6, <1>8, <1>9, HostStep

LEMMA ComputeRedistributedBucketPreserves == IInv /\ ComputeRedistributedBucket => IInv'
<1> SUFFICES ASSUME IInv, ComputeRedistributedBucket PROVE IInv'
  OBVIOUS
<1> DEFINE d1 == ComputeBucket(device, host.work[1])
<1>1. /\ Running(host) /\ host.at = "compute"
      /\ UNCHANGED <<plans, reserved, steps, ran, exchange>>
      /\ device' = IF host.previous = <<>> THEN d1 ELSE Release(d1, host.previous[1])
      /\ host' = [host EXCEPT !.at = "prefetch", !.previous = host.work,
                              !.work = <<>>, !.redistributed_index = @ + 1]
  BY DEF ComputeRedistributedBucket, Running
<1>2. device' \in FitDevice
  <2>1. Len(host.work) = 1 /\ InItsSlot(host.work[1])
    BY <1>1, RunningFacts DEF Window
  <2>2. host.work[1] \in FitWork
    BY <1>1, <2>1, RunningFacts, HostFacts
  <2>3. d1 \in FitDevice
    BY <1>1, <2>2, RunningFacts, BringFacts
  <2>4. host.previous # <<>> => host.previous[1] \in Work
    BY <1>1, RunningFacts, HostFacts
  <2>5. Len(steps) \in Nat
    BY <1>1, RunningFacts
  <2> HIDE DEF d1
  <2>6. CASE host.previous = <<>> BY <1>1, <2>3, <2>6
  <2>7. CASE host.previous # <<>> BY <1>1, <2>3, <2>4, <2>5, <2>7, ReturnFacts
  <2> QED BY <2>6, <2>7
<1>3. host.redistributed_index \in Nat /\ host.redistributed_index + 1 \in Nat
      /\ host.work \in Seq(Work) /\ <<>> \in Seq(Work) /\ Len(<<>>) = 0
  BY <1>1, RunningFacts, HostFacts, EmptySeq
<1>4. HostOK(host')
  <2> DEFINE none == <<>>
             next == host.redistributed_index + 1
  <2>1. host' = [host EXCEPT !.at = "prefetch", !.previous = host.work,
                             !.work = none, !.redistributed_index = next]
    BY <1>1
  <2>2. none \in Seq(Work) /\ Len(none) <= 1 /\ next \in Nat
    BY <1>3
  <2> HIDE DEF none, next
  <2> QED BY <1>1, <1>3, <2>1, <2>2, RunningFacts DEF HostOK, Host
<1>5. /\ host'.at = "prefetch" /\ host'.plan_index = host.plan_index
      /\ host'.prefetched = host.prefetched
      /\ host'.next_plan_to_prefetch = host.next_plan_to_prefetch
      /\ host'.redistributed_index = host.redistributed_index + 1
  BY <1>1, RunningFacts DEF Host
<1>6. FirstLeft(host') = FirstLeft(host) /\ Taken(host') = Taken(host)
  BY <1>1, <1>3, <1>5 DEF FirstLeft, Taken
<1>7. Window(host')
  BY <1>1, <1>5, <1>6, RunningFacts DEF Window
<1> QED BY <1>1, <1>2, <1>4, <1>5, <1>7, HostStep

\* ReturnPrevious queues what fits.
LEMMA ReturnPreviousFacts ==
  ASSUME IInv, Running(host), NEW d \in FitDevice
  PROVE  ReturnPrevious(d) \in FitDevice
<1>1. host.previous # <<>> => host.previous[1] \in Work
  BY RunningFacts, HostFacts
<1>2. Len(steps) \in Nat
  BY RunningFacts
<1> QED BY <1>1, <1>2, ReturnFacts DEF ReturnPrevious

LEMMA EndStepPreserves == IInv /\ EndStep => IInv'
<1> SUFFICES ASSUME IInv, EndStep PROVE IInv'
  OBVIOUS
<1>1. /\ Running(host) /\ host.at = "bucket" /\ host.plan_index > Len(plans)
      /\ UNCHANGED <<plans, reserved, steps, ran, exchange>>
      /\ device' = IF host.previous = <<>> THEN device
                   ELSE Release(ReturnPrevious(device), host.previous[1])
      /\ host' = [host EXCEPT !.at = "idle"]
  BY DEF EndStep, Running
<1>2. device' \in FitDevice
  <2>1. ReturnPrevious(device) \in FitDevice /\ device \in FitDevice /\ Len(steps) \in Nat
    BY <1>1, RunningFacts, ReturnPreviousFacts
  <2>2. host.previous # <<>> => host.previous[1] \in Work
    BY <1>1, RunningFacts, HostFacts
  <2>3. CASE host.previous = <<>> BY <1>1, <2>1, <2>3
  <2>4. CASE host.previous # <<>> BY <1>1, <2>1, <2>2, <2>4, ReturnFacts
  <2> QED BY <2>3, <2>4
<1>3. HostOK(host') /\ host'.at = "idle" /\ host'.prefetched = host.prefetched
  BY <1>1, RunningFacts DEF HostOK, Host
<1>4. host.prefetched = <<>>
  <2>1. host.plan_index + Len(host.prefetched) <= Len(plans) + 1
    BY <1>1, RunningFacts DEF Window, FirstLeft
  <2>2. host.plan_index \in Nat /\ Len(plans) \in Nat /\ Len(host.prefetched) \in Nat
        /\ (host.prefetched # <<>> => Len(host.prefetched) >= 1)
    BY <1>1, RunningFacts, HostFacts
  <2> QED BY <1>1, <2>1, <2>2
<1>5. ~Running(host')
  BY <1>3 DEF Running
<1> QED BY <1>1, <1>2, <1>3, <1>4, <1>5, HostStep

LEMMA RaisePreserves == IInv /\ Raise => IInv'
<1> SUFFICES ASSUME IInv, Raise PROVE IInv'
  OBVIOUS
<1>1. /\ Running(host) /\ UNCHANGED <<plans, reserved, steps, ran, exchange>>
      /\ device' = IF host.transferring THEN CleanUp(device) ELSE device
      /\ host' = [host EXCEPT !.at = "raised"]
  BY DEF Raise, Running
<1>2. device' \in FitDevice
  <2>1. device \in FitDevice /\ Len(steps) \in Nat
    BY <1>1, RunningFacts
  <2>2. CleanUp(device) \in FitDevice
    BY <2>1, WaitFacts DEF CleanUp
  <2> QED BY <1>1, <2>1, <2>2
<1>3. HostOK(host') /\ host'.at = "raised"
  BY <1>1, RunningFacts DEF HostOK, Host
<1> QED BY <1>1, <1>2, <1>3, HostStep DEF Running

LEMMA StartRedistributedBucketPreserves == IInv /\ StartRedistributedBucket => IInv'
<1> SUFFICES ASSUME IInv, StartRedistributedBucket PROVE IInv'
  OBVIOUS
<1> DEFINE n == host.plan_index
           k == host.redistributed_index
           fresh == [plan |-> n, slot |-> SlotAt(k)]
           w == IF host.prefetched # <<>> THEN Head(host.prefetched) ELSE fresh
           d1 == IF host.transferring THEN device ELSE TransferWaitsCaller(device)
<1>1. /\ Running(host) /\ host.at = "bucket" /\ n <= Len(plans) /\ ~plans[n].local
      /\ UNCHANGED <<plans, reserved, steps, ran, exchange>>
      /\ \/ device' = ReturnPrevious(d1)
         \/ device' = EnqueueStorageToCompute(ReturnPrevious(d1), fresh)
         \/ device' = ReturnPrevious(EnqueueStorageToCompute(d1, fresh))
      /\ host' = [host EXCEPT
           !.at = "compute", !.transferring = TRUE, !.work = <<w>>,
           !.prefetched = IF @ = <<>> THEN @ ELSE Tail(@),
           !.next_plan_to_prefetch = IF host.prefetched = <<>> THEN n + 1 ELSE @]
  BY DEF StartRedistributedBucket, AtBucket, Running
<1>2. /\ n \in Nat /\ n >= 1 /\ n + 1 \in Nat /\ k \in Nat
      /\ host.next_plan_to_prefetch \in Nat
      /\ FirstLeft(host) = n /\ Taken(host) = k
      /\ RedistributedBefore(plans, n) = k
  <2>1. /\ Window(host) /\ host.plan_index \in Nat /\ host.redistributed_index \in Nat
        /\ host.next_plan_to_prefetch \in Nat /\ Len(host.prefetched) \in Nat
    BY <1>1, RunningFacts, HostFacts
  <2>2. FirstLeft(host) = n /\ Taken(host) = k
    BY <1>1, <2>1 DEF FirstLeft, Taken
  <2>3. host.plan_index >= 1 /\ RedistributedBefore(plans, FirstLeft(host)) = Taken(host)
    BY <2>1 DEF Window
  <2> QED BY <2>1, <2>2, <2>3
<1>3. n \in DOMAIN plans
  BY <1>1, <1>2, RunningFacts
<1>4. /\ RedistributedBefore(plans, n + 1) = k + 1
      /\ SlotOf(plans, n) = SlotAt(k) /\ SlotAt(k) \in Slot
  BY <1>1, <1>2, <1>3, NextPlanFacts
<1>5. fresh \in Work /\ InItsSlot(fresh)
  BY <1>1, <1>2, <1>3, <1>4 DEF Work, InItsSlot
<1>6. device' \in FitDevice
  <2> HIDE DEF fresh
  <2>1. d1 \in FitDevice
    BY <1>1, RunningFacts, WaitFacts
  <2>2. fresh \in FitWork
    BY <1>1, <1>5, RunningFacts
  <2> HIDE DEF d1
  <2>3. /\ ReturnPrevious(d1) \in FitDevice
        /\ EnqueueStorageToCompute(d1, fresh) \in FitDevice
    BY <1>1, <2>1, <2>2, RunningFacts, ReturnPreviousFacts, BringFacts
  <2>4. /\ EnqueueStorageToCompute(ReturnPrevious(d1), fresh) \in FitDevice
        /\ ReturnPrevious(EnqueueStorageToCompute(d1, fresh)) \in FitDevice
    BY <1>1, <2>2, <2>3, RunningFacts, ReturnPreviousFacts, BringFacts
  <2> QED BY <1>1, <2>3, <2>4
<1>7. /\ host.prefetched # <<>> =>
           /\ Head(host.prefetched) \in Work /\ Head(host.prefetched) = host.prefetched[1]
           /\ Tail(host.prefetched) \in Seq(Work)
           /\ Len(Tail(host.prefetched)) = Len(host.prefetched) - 1
           /\ \A i \in 1 .. Len(host.prefetched) - 1 :
                Tail(host.prefetched)[i] = host.prefetched[i + 1]
  BY <1>1, RunningFacts, HostFacts, HeadTailProperties
<1>8. \A i \in 1 .. Len(host.prefetched) :
        host.prefetched[i].plan = n + i - 1 /\ InItsSlot(host.prefetched[i])
  BY <1>1, <1>2, RunningFacts, HostFacts DEF Window
<1>9. w \in Work /\ InItsSlot(w)
  <2> HIDE DEF fresh
  <2>1. CASE host.prefetched = <<>> BY <1>5, <2>1
  <2>2. CASE host.prefetched # <<>>
    <3>1. 1 \in 1 .. Len(host.prefetched) BY <1>1, <2>2, RunningFacts, HostFacts
    <3> QED BY <1>7, <1>8, <2>2, <3>1
  <2> QED BY <2>1, <2>2
<1> HIDE DEF w
<1>10. <<w>> \in Seq(Work) /\ Len(<<w>>) = 1 /\ <<w>>[1] = w
  BY <1>9
<1> DEFINE rest == IF host.prefetched = <<>> THEN host.prefetched ELSE Tail(host.prefetched)
           next == IF host.prefetched = <<>> THEN n + 1 ELSE host.next_plan_to_prefetch
<1>11. /\ rest \in Seq(Work) /\ Len(rest) \in Nat /\ DOMAIN rest = 1 .. Len(rest)
       /\ next \in Nat
  BY <1>1, <1>2, <1>7, EmptySeq, LenProperties
<1>12. host' = [host EXCEPT !.at = "compute", !.transferring = TRUE, !.work = <<w>>,
                            !.prefetched = rest, !.next_plan_to_prefetch = next]
  BY <1>1
<1>13. /\ HostOK(host') /\ host'.at = "compute" /\ host'.plan_index = n
       /\ host'.prefetched = rest /\ host'.next_plan_to_prefetch = next
       /\ host'.redistributed_index = k /\ host'.work = <<w>>
  <2>1. HostOK(host)
    BY <1>1, RunningFacts
  <2> DEFINE one == <<w>>
  <2>2. one \in Seq(Work) /\ Len(one) <= 1
    BY <1>10
  <2>3. host' = [host EXCEPT !.at = "compute", !.transferring = TRUE, !.work = one,
                             !.prefetched = rest, !.next_plan_to_prefetch = next]
    BY <1>12
  <2> HIDE DEF rest, next, one
  <2>4. HostOK(host')
    BY <1>11, <2>1, <2>2, <2>3 DEF HostOK, Host
  <2>5. /\ host'.at = "compute" /\ host'.plan_index = n /\ host'.prefetched = rest
        /\ host'.next_plan_to_prefetch = next /\ host'.redistributed_index = k
        /\ host'.work = one
    BY <2>1, <2>3 DEF HostOK, Host
  <2> QED BY <2>4, <2>5 DEF one
<1>14. FirstLeft(host') = n + 1 /\ Taken(host') = k + 1
  BY <1>13 DEF FirstLeft, Taken
<1>15. /\ next = n + 1 + Len(rest) /\ next <= Len(plans) + 1
       /\ RedistributedBefore(plans, next) = k + 1 + Len(rest)
  <2>1. CASE host.prefetched = <<>>
    <3>1. Len(rest) = 0 /\ next = n + 1 BY <2>1, EmptySeq
    <3> HIDE DEF rest, next
    <3> QED BY <1>1, <1>2, <1>4, <3>1, RunningFacts
  <2>2. CASE host.prefetched # <<>>
    <3>1. Len(rest) = Len(host.prefetched) - 1 /\ next = host.next_plan_to_prefetch
      BY <1>7, <2>2
    <3>2. /\ host.next_plan_to_prefetch = n + Len(host.prefetched)
          /\ host.next_plan_to_prefetch <= Len(plans) + 1
          /\ RedistributedBefore(plans, host.next_plan_to_prefetch) =
               k + Len(host.prefetched)
          /\ Len(host.prefetched) \in Nat
      BY <1>1, <1>2, RunningFacts, HostFacts DEF Window
    <3>3. n + Len(host.prefetched) = n + 1 + Len(rest) /\ k + Len(host.prefetched) = k + 1 + Len(rest)
      <4> DEFINE length == Len(host.prefetched)
                 left == Len(rest)
      <4>1. n \in Nat /\ k \in Nat /\ length \in Nat /\ left = length - 1
        BY <1>2, <3>1, <3>2
      <4> HIDE DEF n, k, length, left
      <4>2. n + length = n + 1 + left /\ k + length = k + 1 + left
        BY <4>1
      <4> QED BY <4>2 DEF length, left
    <3> HIDE DEF rest, next, n, k
    <3> QED BY <3>1, <3>2, <3>3
  <2> QED BY <2>1, <2>2
<1>16. ASSUME NEW i \in 1 .. Len(rest)
       PROVE  rest[i].plan = n + 1 + i - 1 /\ InItsSlot(rest[i])
  <2>1. host.prefetched # <<>>
    BY EmptySeq
  <2>2. /\ Len(rest) = Len(host.prefetched) - 1 /\ Len(host.prefetched) \in Nat
        /\ rest[i] = host.prefetched[i + 1]
    BY <1>1, <1>7, <2>1, RunningFacts, HostFacts
  <2> HIDE DEF rest
  <2>3. i + 1 \in 1 .. Len(host.prefetched) /\ i \in Int
    BY <2>2
  <2>4. host.prefetched[i + 1].plan = n + (i + 1) - 1 /\ InItsSlot(host.prefetched[i + 1])
    BY <1>8, <2>3
  <2>5. n + (i + 1) - 1 = n + 1 + i - 1
    BY <1>2, <2>3
  <2> QED BY <2>2, <2>4, <2>5
<1>17. Window(host')
  <2> HIDE DEF rest, next, n, k
  <2> QED BY <1>2, <1>4, <1>9, <1>10, <1>11, <1>13, <1>14, <1>15, <1>16 DEF Window
<1> QED BY <1>1, <1>6, <1>13, <1>17, HostStep

\* What is queued still fits once more steps are known or slots have grown.
LEMMA FitsKept ==
  ASSUME NEW Old, NEW New, Old \subseteq New,
         NEW d \in [caller : Seq(Old), transfer : Seq(Old), recorded : [Slot -> Events]]
  PROVE  d \in [caller : Seq(New), transfer : Seq(New), recorded : [Slot -> Events]]
<1>1. d.caller \in Seq(New) /\ d.transfer \in Seq(New)
  BY SeqMonotonic
<1> QED BY <1>1

LEMMA StepPreserves == IInv /\ Step => IInv'
<1> SUFFICES ASSUME IInv, Step PROVE IInv'
  OBVIOUS
<1> DEFINE op == [kind |-> "backward", step |-> Len(steps) + 1, plan |-> 0,
                  slot |-> LocalSlot, waits |-> {}]
           start == [at |-> "bucket", plan_index |-> 1, next_plan_to_prefetch |-> 1,
                     redistributed_index |-> 0, transferring |-> FALSE,
                     previous |-> <<>>, work |-> <<>>, prefetched |-> <<>>]
<1>1. /\ plans # <<>> /\ UNCHANGED <<plans, reserved, ran, exchange>>
      /\ steps' = Append(steps, plans)
      /\ device' = [device EXCEPT !.caller = Append(@, op)]
      /\ host' = start
  BY DEF Step
<1>2. /\ TypeOK /\ plans \in Plans /\ plans \in Seq(BucketPlan) /\ Len(plans) \in Nat
      /\ steps \in Seq(Plans) /\ Len(steps) \in Nat /\ DOMAIN steps = 1 .. Len(steps)
  BY <1>1, TypeFacts DEF IInv, TypeOK
<1>3. /\ steps' \in Seq(Plans) /\ steps' # <<>> /\ Len(steps') = Len(steps) + 1
      /\ DOMAIN steps' = 1 .. Len(steps) + 1
      /\ \A n \in 1 .. Len(steps) : steps'[n] = steps[n]
      /\ steps'[Len(steps')] = plans
  BY <1>1, <1>2, AppendProperties, LenProperties
<1>4. FitOp \subseteq FitOp'
  <2> SUFFICES ASSUME NEW o \in FitOp PROVE o \in FitOp'
    OBVIOUS
  <2>1. o.step \in DOMAIN steps => o.step \in DOMAIN steps' /\ steps'[o.step] = steps[o.step]
    BY <1>2, <1>3
  <2> QED BY <1>1, <2>1 DEF FitOp, Fits
<1>5. op \in FitOp'
  BY <1>2 DEF FitOp, Fits, Op, Kinds
<1>6. device' \in FitDevice'
  <2>1. device \in FitDevice'
    BY <1>4, FitsKept DEF IInv, FitDevice
  <2> HIDE DEF op
  <2>2. Append(device.caller, op) \in Seq(FitOp')
    BY <1>5, <2>1, AppendProperties DEF FitDevice
  <2> QED BY <1>1, <2>1, <2>2 DEF FitDevice
<1>7. device' \in Device
  <2>1. FitOp' \subseteq Op
    BY DEF FitOp
  <2> QED BY <1>6, <2>1, FitsKept DEF FitDevice, Device
<1>8. /\ <<>> \in Seq(Work) /\ Len(<<>>) = 0 /\ DOMAIN <<>> = {}
  BY EmptySeq, LenProperties
<1>9. HostOK(start)
  BY <1>8 DEF HostOK, Host
<1>10. TypeOK'
  BY <1>1, <1>2, <1>3, <1>7, <1>9 DEF TypeOK, HostOK
<1>11. Window(start)
  <2>1. FirstLeft(start) = 1 /\ Taken(start) = 0
    BY DEF FirstLeft, Taken
  <2>2. RedistributedBefore(plans, 1) = 0
    BY <1>2, RedistributedFacts
  <2>3. 1 <= Len(plans) + 1
    BY <1>2
  <2> QED BY <1>8, <2>1, <2>2, <2>3 DEF Window
<1>12. Window(host)'
  <2>1. Window(host)' <=> Window(host')
    BY <1>1 DEF Window, FirstLeft, Taken, InItsSlot, SlotOf, RedistributedBefore
  <2> QED BY <1>1, <1>11, <2>1
<1>13. PlansFit'
  BY <1>1 DEF IInv, PlansFit, SlotOf, RedistributedBefore
<1>14. host'.at = "bucket"
  BY <1>1
<1> QED BY <1>1, <1>3, <1>6, <1>10, <1>12, <1>13, <1>14 DEF IInv

LEMMA PlanPreserves ==
  ASSUME IInv, NEW list \in Plans, Plan(list)
  PROVE  IInv'
<1>1. /\ host.at = "idle" /\ plans' = list /\ reserved' = Reserve(list)
      /\ UNCHANGED <<steps, host, device, ran, exchange>>
  BY DEF Plan
<1>2. TypeOK /\ reserved \in [Slot \cup {LocalSlot} -> Nat] /\ list \in Seq(BucketPlan)
  BY PipelineConstantsOK DEF IInv, TypeOK, PipelineConstantsOK
<1>3. /\ reserved' \in [Slot \cup {LocalSlot} -> Nat]
      /\ \A s \in Slot \cup {LocalSlot} :
           /\ reserved'[s] >= reserved[s]
           /\ \A i \in DOMAIN list : SlotOf(list, i) = s => reserved'[s] >= list[i].numel
  BY <1>1, <1>2, ReserveFacts, PipelineConstantsOK
<1>4. PlansFit'
  <2> SUFFICES ASSUME NEW i \in DOMAIN list
               PROVE  list[i].numel <= reserved'[SlotOf(list, i)]
    BY <1>1 DEF PlansFit, SlotOf, RedistributedBefore
  <2>1. i \in 1 .. Len(list) /\ list[i].numel \in Nat
    BY <1>2, PlanFacts
  <2>2. SlotOf(list, i) \in Slot \cup {LocalSlot}
    <3>1. RedistributedBefore(list, i) \in Nat
      BY <1>2, <2>1, RedistributedFacts
    <3>2. RedistributedBefore(list, i) % NumSlots \in Slot
      BY <3>1, SlotAtFacts, PipelineConstantsOK DEF SlotAt
    <3> QED BY <3>2 DEF SlotOf
  <2>3. reserved'[SlotOf(list, i)] >= list[i].numel
    BY <1>3, <2>2
  <2>4. reserved'[SlotOf(list, i)] \in Nat
    BY <1>3, <2>2
  <2> QED BY <2>1, <2>3, <2>4
<1>5. FitOp \subseteq FitOp'
  <2> SUFFICES ASSUME NEW o \in FitOp PROVE o \in FitOp'
    OBVIOUS
  <2>1. o \in Op /\ o.slot \in Slot \cup {LocalSlot}
    BY DEF FitOp, Op
  <2>2. /\ reserved[o.slot] \in Nat /\ reserved'[o.slot] \in Nat
        /\ reserved[o.slot] <= reserved'[o.slot]
    BY <1>2, <1>3, <2>1
  <2>3. ASSUME o.step \in DOMAIN steps, o.plan \in DOMAIN steps[o.step]
        PROVE  steps[o.step][o.plan].numel \in Nat
    BY <1>2, <2>3, TypeFacts, PlanFacts
  <2>4. Fits(o)
    BY DEF FitOp
  <2>5. Fits(o)'
    BY <1>1, <2>2, <2>3, <2>4 DEF Fits
  <2> QED BY <2>1, <2>5 DEF FitOp
<1>6. device' \in FitDevice'
  BY <1>1, <1>5, FitsKept DEF IInv, FitDevice
<1>7. TypeOK'
  BY <1>1, <1>2, <1>3 DEF TypeOK
<1>8. ~Running(host)' /\ (host.at = "idle" => host.prefetched = <<>>)'
  BY <1>1 DEF IInv, Running
<1> QED BY <1>4, <1>6, <1>7, <1>8 DEF IInv

\* A stream runs its next operation.
LEMMA StreamFacts ==
  ASSUME IInv, NEW op \in FitOp, Ran(op), device' \in FitDevice
  PROVE  IInv'
<1>1. /\ UNCHANGED <<plans, reserved, steps, host>> /\ ran' = ran \cup {Id(op)}
      /\ exchange' = IF op.kind \in {"storage_to_compute", "compute"}
                     THEN [exchange EXCEPT ![op.slot] = Id(op)] ELSE exchange
  BY DEF Ran
<1>2. Id(op) \in OpId
  BY DEF FitOp, Op, Id, OpId
<1>3. ran' \in SUBSET OpId /\ exchange' \in [Slot -> OpId]
  BY <1>1, <1>2 DEF IInv, TypeOK
<1>4. FitDevice' = FitDevice
  BY <1>1 DEF FitDevice, FitOp, Fits
<1>5. TypeOK'
  BY <1>1, <1>3, FitDeviceIsDevice DEF IInv, TypeOK
<1>6. PlansFit'
  BY <1>1 DEF IInv, PlansFit, SlotOf, RedistributedBefore
<1>7. Window(host)' <=> Window(host)
  BY <1>1 DEF Window, FirstLeft, Taken, InItsSlot, SlotOf, RedistributedBefore
<1>8. Running(host)' <=> Running(host)
  BY <1>1 DEF Running
<1> QED BY <1>1, <1>4, <1>5, <1>6, <1>7, <1>8 DEF IInv

LEMMA CallerRunsPreserves == IInv /\ CallerRuns => IInv'
<1> SUFFICES ASSUME IInv, CallerRuns PROVE IInv'
  OBVIOUS
<1>1. /\ device.caller # <<>> /\ device' = [device EXCEPT !.caller = Tail(@)]
      /\ Ran(Head(device.caller))
  BY DEF CallerRuns, Runnable
<1>2. Head(device.caller) \in FitOp /\ Tail(device.caller) \in Seq(FitOp)
  BY <1>1, HeadTailProperties DEF IInv, FitDevice
<1>3. device' \in FitDevice
  BY <1>1, <1>2 DEF IInv, FitDevice
<1> QED BY <1>1, <1>2, <1>3, StreamFacts

LEMMA TransferRunsPreserves == IInv /\ TransferRuns => IInv'
<1> SUFFICES ASSUME IInv, TransferRuns PROVE IInv'
  OBVIOUS
<1>1. /\ device.transfer # <<>> /\ device' = [device EXCEPT !.transfer = Tail(@)]
      /\ Ran(Head(device.transfer))
  BY DEF TransferRuns, Runnable
<1>2. Head(device.transfer) \in FitOp /\ Tail(device.transfer) \in Seq(FitOp)
  BY <1>1, HeadTailProperties DEF IInv, FitDevice
<1>3. device' \in FitDevice
  BY <1>1, <1>2 DEF IInv, FitDevice
<1> QED BY <1>1, <1>2, <1>3, StreamFacts

-----------------------------------------------------------------------------
LEMMA InitIInv == Init => IInv
<1> SUFFICES ASSUME Init PROVE IInv
  OBVIOUS
<1>1. <<>> \in Seq(Plans) /\ <<>> \in Seq(Work) /\ <<>> \in Seq(FitOp)
      /\ Len(<<>>) = 0 /\ DOMAIN <<>> = {}
  BY EmptySeq, LenProperties
<1>2. Nothing \in OpId
  BY DEF Nothing, OpId, Kinds
<1>3. device \in FitDevice
  BY <1>1, <1>2 DEF Init, FitDevice, Events
<1>4. host \in Host /\ Len(host.previous) <= 1 /\ Len(host.work) <= 1
      /\ host.at = "idle" /\ host.prefetched = <<>>
  BY <1>1 DEF Init, Host
<1>5. TypeOK
  BY <1>1, <1>2, <1>3, <1>4, FitDeviceIsDevice DEF Init, TypeOK
<1>6. PlansFit
  BY <1>1 DEF Init, PlansFit
<1> QED BY <1>3, <1>4, <1>5, <1>6 DEF IInv, Running

LEMMA NextIInv == IInv /\ [Next]_vars => IInv'
<1> SUFFICES ASSUME IInv, [Next]_vars PROVE IInv'
  OBVIOUS
<1>1. ASSUME NEW list \in Plans, Plan(list) PROVE IInv'
  BY <1>1, PlanPreserves
<1>2. CASE Step BY <1>2, StepPreserves
<1>3. CASE RunStep
  BY <1>3, RunLocalBucketPreserves, StartRedistributedBucketPreserves,
     ComputeRedistributedBucketPreserves, PrefetchNextPreserves, EndBucketPreserves,
     EndStepPreserves DEF RunStep
<1>4. CASE Raise BY <1>4, RaisePreserves
<1>5. CASE CallerRuns BY <1>5, CallerRunsPreserves
<1>6. CASE TransferRuns BY <1>6, TransferRunsPreserves
<1>7. CASE UNCHANGED vars
  <2>1. /\ plans' = plans /\ reserved' = reserved /\ steps' = steps /\ host' = host
        /\ device' = device /\ ran' = ran /\ exchange' = exchange
    BY <1>7 DEF vars
  <2>2. FitDevice' = FitDevice
    BY <2>1 DEF FitDevice, FitOp, Fits
  <2>3. TypeOK'
    BY <2>1 DEF IInv, TypeOK
  <2>4. PlansFit'
    BY <2>1 DEF IInv, PlansFit, SlotOf, RedistributedBefore
  <2>5. (Window(host)' <=> Window(host)) /\ (Running(host)' <=> Running(host))
    BY <2>1 DEF Window, FirstLeft, Taken, InItsSlot, SlotOf, RedistributedBefore, Running
  <2> QED BY <2>1, <2>2, <2>3, <2>4, <2>5 DEF IInv
<1> QED BY <1>1, <1>2, <1>3, <1>4, <1>5, <1>6, <1>7 DEF Next

\* The inductive invariant holds in every reachable state.
THEOREM Invariance == Spec => []IInv
<1> QED BY InitIInv, NextIInv, PTL DEF Spec

\* Every variable keeps its type.
THEOREM TypeCorrect == Spec => []TypeOK
<1>1. IInv => TypeOK
  BY DEF IInv
<1> QED BY <1>1, Invariance, PTL

\* The prefetched buckets are the next ones, in order, with no local bucket among
\* them: run() never prefetches past a local bucket.
THEOREM PrefetchesKeepOrder == Spec => []PrefetchedInOrder
<1>1. IInv => PrefetchedInOrder
  <2> SUFFICES ASSUME IInv, NEW i \in DOMAIN host.prefetched, host.at # "raised"
               PROVE  /\ host.prefetched[i].plan = FirstLeft(host) + i - 1
                      /\ ~plans[host.prefetched[i].plan].local
    BY DEF PrefetchedInOrder, FirstLeft
  <2>1. host \in Host
    BY DEF IInv, TypeOK
  <2>2. host.at # "idle"
    BY <2>1, HostFacts, EmptySeq DEF IInv
  <2>3. Running(host)
    BY <2>1, <2>2 DEF Host, Running
  <2> QED BY <2>3, RunningFacts DEF Window, InItsSlot
<1> QED BY <1>1, Invariance, PTL

\* What the streams have queued for a slot fits what reserve_buffers gave it.
THEOREM SlotsAlwaysSuffice == Spec => []SlotsSuffice
<1>1. IInv => SlotsSuffice
  <2> SUFFICES ASSUME IInv, NEW q \in {device.caller, device.transfer},
                      NEW i \in DOMAIN q,
                      q[i].kind \in {"local", "storage_to_compute", "compute"}
               PROVE  steps[q[i].step][q[i].plan].numel <= reserved[q[i].slot]
    BY DEF SlotsSuffice
  <2>1. q \in Seq(FitOp)
    BY DEF IInv, FitDevice
  <2>2. q[i] \in FitOp
    BY <2>1, LenProperties, ElementOfSeq
  <2> QED BY <2>2 DEF FitOp, Fits
<1> QED BY <1>1, Invariance, PTL

(***************************************************************************)
(* What MuonPipeline's streams run before what, for every list of bucket   *)
(* plans, any number of slots and of steps: no slot is overwritten before  *)
(* its last reader ran, an exception leaves the streams ordered, and the   *)
(* pipeline's steps are steps of MuonStep.                                 *)
(*                                                                         *)
(* run() orders two streams by events that it records again and again and  *)
(* by waits that name no bucket.  The invariant is about what these say:   *)
(* for two operations, that the second runs after the first (After), as    *)
(* both queues and what the device ran show at any time.                   *)
(***************************************************************************)

-----------------------------------------------------------------------------
(* Operations by name, and their order *)

Backward(n) == <<"backward", n, 0>>

\* A bucket is a plan of a step, <<step, plan>>.
Local(a) == <<"local", a[1], a[2]>>
Brought(a) == <<"storage_to_compute", a[1], a[2]>>
Computed(a) == <<"compute", a[1], a[2]>>
Returned(a) == <<"compute_to_storage", a[1], a[2]>>
Released(a) == <<"release", a[1], a[2]>>

BucketsOf(S) == {a \in Nat \X Nat : a[1] \in DOMAIN S /\ a[2] \in DOMAIN S[a[1]]}
IsLocal(S, a) == S[a[1]][a[2]].local
SlotIn(S, a) == SlotOf(S[a[1]], a[2])

\* The operation that leaves a bucket's update in storage.
Updated(S, a) == IF IsLocal(S, a) THEN Local(a) ELSE Returned(a)

\* x was run, or queued.  r: what the device ran; c, t: the streams' queues.
In(q, x) == \E i \in DOMAIN q : Id(q[i]) = x
Known(r, c, t, x) == x \in r \/ In(c, x) \/ In(t, x)

\* Once the stream ran all that q holds, x was run.
Sure(r, q, x) == x \in r \/ \E i \in DOMAIN q : x = Id(q[i]) \/ x \in q[i].waits

\* y, an operation of the stream with queue q, runs after x.
After(r, q, x, y) ==
  /\ y \in r => x \in r
  /\ \A j \in DOMAIN q : Id(q[j]) = y =>
       x \in r \/ x \in q[j].waits \/ \E i \in 1 .. j - 1 : x = Id(q[i]) \/ x \in q[i].waits

CallerKinds == {"backward", "local", "wait", "compute", "release"}
TransferKinds == {"wait", "storage_to_compute", "compute_to_storage"}

-----------------------------------------------------------------------------
(* The invariant *)

\* What each stream has in its queue.
Queues(c, t, S) ==
  /\ \A i \in DOMAIN c : c[i].kind \in CallerKinds
  /\ \A i \in DOMAIN t : t[i].kind \in TransferKinds
  /\ \A q \in {c, t} : \A i \in DOMAIN q :
       /\ q[i].kind # "wait" => q[i].step \in DOMAIN S
       /\ q[i].kind \in {"storage_to_compute", "compute", "compute_to_storage"} =>
            /\ <<q[i].step, q[i].plan>> \in BucketsOf(S)
            /\ ~IsLocal(S, <<q[i].step, q[i].plan>>)
            /\ q[i].slot = SlotIn(S, <<q[i].step, q[i].plan>>)

\* Nothing but a wait is queued twice, or again once it ran.
Fresh(r, q) ==
  \A i \in DOMAIN q : q[i].kind # "wait" =>
    /\ Id(q[i]) \notin r
    /\ \A j \in DOMAIN q : Id(q[j]) = Id(q[i]) => j = i

\* Two redistributed buckets of a slot: the second is brought once the first
\* was returned.
SlotOrder(r, t, S) ==
  \A a, b \in BucketsOf(S) :
    a # b /\ ~IsLocal(S, a) /\ ~IsLocal(S, b) /\ SlotIn(S, a) = SlotIn(S, b) =>
      After(r, t, Returned(a), Brought(b)) \/ After(r, t, Returned(b), Brought(a))

Ordered(r, c, t, S) ==
  /\ \A a \in Nat \X Nat :
       /\ After(r, c, Brought(a), Computed(a)) /\ After(r, t, Computed(a), Returned(a))
       /\ After(r, c, Backward(a[1]), Local(a)) /\ After(r, t, Backward(a[1]), Brought(a))
  /\ \A n \in DOMAIN S : n - 1 \in DOMAIN S => After(r, c, Backward(n - 1), Backward(n))
  /\ \A a \in BucketsOf(S) : a[1] + 1 \in DOMAIN S => After(r, c, Updated(S, a), Backward(a[1] + 1))
  /\ SlotOrder(r, t, S)

\* A bucket that was brought and not returned is what its slot holds.
ExchangeHeld(r, e, S) ==
  \A a \in BucketsOf(S) :
    ~IsLocal(S, a) /\ Brought(a) \in r /\ Returned(a) \notin r =>
      e[SlotIn(S, a)] = IF Computed(a) \in r THEN Computed(a) ELSE Brought(a)

\* The bucket whose return run() still has to queue, or to release.
IsPrevious(h, p) == h.previous # <<>> /\ h.previous[1].plan = p

\* The same of a device.
Has(r, d, x) == Known(r, d.caller, d.transfer, x)
CallerSure(r, d, x) == Sure(r, d.caller, x)
TransferSure(r, d, x) == Sure(r, d.transfer, x)

\* What run() has queued of its own step.
OwnQueued(h, r, d, n) ==
  \A p \in Nat :
    /\ Has(r, d, Brought(<<n, p>>)) => p < h.next_plan_to_prefetch
    /\ Has(r, d, Computed(<<n, p>>)) => p < h.plan_index \/ (h.at = "prefetch" /\ p = h.plan_index)
    /\ Has(r, d, Local(<<n, p>>)) => p < h.plan_index
    /\ Has(r, d, Returned(<<n, p>>)) => p < h.plan_index /\ ~(h.at = "bucket" /\ IsPrevious(h, p))
    /\ Has(r, d, Released(<<n, p>>)) =>
         p < h.plan_index /\ ~(h.at \in {"bucket", "compute"} /\ IsPrevious(h, p))

\* The buckets run() has in hand, and the events it recorded for them.
InHand(h, d, n) ==
  /\ h.previous # <<>> =>
       LET w == h.previous[1]
       IN  /\ InItsSlot(w)
           /\ IF h.at = "prefetch" THEN w.plan = h.plan_index ELSE w.plan < h.plan_index
           /\ h.at # "compute" => d.recorded[w.slot].compute_done = Computed(<<n, w.plan>>)
           /\ h.at = "compute" => d.recorded[w.slot].done = Returned(<<n, w.plan>>)
  /\ \A i \in DOMAIN h.prefetched :
       LET w == h.prefetched[i]
       IN  d.recorded[w.slot].compute_input_ready = Brought(<<n, w.plan>>)
  /\ h.at = "compute" =>
       LET w == h.work[1]
       IN  /\ w.plan = h.plan_index
           /\ d.recorded[w.slot].compute_input_ready = Brought(<<n, w.plan>>)
  /\ h.at = "prefetch" => h.previous # <<>>
  /\ h.at # "bucket" => h.transferring

\* The buckets of a running step that are not brought back, or not released.
Unreturned(h, n, a) ==
  Running(h) /\ a[1] = n /\ (a[2] >= h.plan_index \/ (h.at = "bucket" /\ IsPrevious(h, a[2])))
Unreleased(h, n, a) ==
  Running(h) /\ a[1] = n /\ (a[2] >= h.plan_index \/ (h.at # "prefetch" /\ IsPrevious(h, a[2])))

\* Only what belongs to a step was queued, and every backward was.
OfSteps(d, r, S) ==
  /\ \A a \in Nat \X Nat : \A x \in {Brought(a), Computed(a), Local(a), Returned(a), Released(a)} :
       Has(r, d, x) => a[1] \in DOMAIN S
  /\ \A n \in Nat : Has(r, d, Backward(n)) <=> n \in DOMAIN S

\* A bucket that was brought was returned too, and its update can be relied on by
\* the caller, unless run() has still to see to it.
SeenTo(h, d, r, S) ==
  \A a \in BucketsOf(S) :
    /\ Has(r, d, Brought(a)) => Has(r, d, Returned(a)) \/ Unreturned(h, Len(S), a)
    /\ CallerSure(r, d, Updated(S, a)) \/ Unreleased(h, Len(S), a)

\* What run() and the steps before it have queued.
Progress(h, d, r, S) ==
  /\ OfSteps(d, r, S)
  /\ h.at # "raised" => SeenTo(h, d, r, S)
  /\ Running(h) =>
       /\ OwnQueued(h, r, d, Len(S))
       /\ InHand(h, d, Len(S))
       /\ h.transferring => TransferSure(r, d, Backward(Len(S)))

\* The last operation of q is ordered after all that the other queue holds.
Closed(q, o) ==
  \A i \in DOMAIN o : o[i].kind # "wait" => q # <<>> /\ Id(o[i]) \in q[Len(q)].waits

OInv ==
  /\ Queues(device.caller, device.transfer, steps)
  /\ Fresh(ran, device.caller) /\ Fresh(ran, device.transfer)
  /\ Ordered(ran, device.caller, device.transfer, steps)
  /\ ExchangeHeld(ran, exchange, steps)
  /\ Progress(host, device, ran, steps)
  /\ host.at = "raised" /\ host.transferring =>
       Closed(device.caller, device.transfer) /\ Closed(device.transfer, device.caller)

-----------------------------------------------------------------------------
(* Queueing an operation, and running one *)

LEMMA AppendFacts ==
  ASSUME NEW q \in Seq(Op), NEW z \in Op
  PROVE  /\ Append(q, z) \in Seq(Op) /\ Len(q) \in Nat
         /\ DOMAIN q = 1 .. Len(q) /\ DOMAIN Append(q, z) = 1 .. Len(q) + 1
         /\ \A i \in 1 .. Len(q) : Append(q, z)[i] = q[i]
         /\ Append(q, z)[Len(q) + 1] = z
BY AppendProperties, LenProperties

LEMMA TailFacts ==
  ASSUME NEW q \in Seq(Op), q # <<>>
  PROVE  /\ Tail(q) \in Seq(Op) /\ Len(q) \in Nat /\ Len(q) >= 1 /\ Head(q) = q[1] /\ Head(q) \in Op
         /\ DOMAIN q = 1 .. Len(q) /\ DOMAIN Tail(q) = 1 .. Len(q) - 1
         /\ Len(Tail(q)) = Len(q) - 1
         /\ \A i \in 1 .. Len(q) - 1 : Tail(q)[i] = q[i + 1] /\ i + 1 \in DOMAIN q
         /\ \A j \in 2 .. Len(q) : q[j] = Tail(q)[j - 1] /\ j - 1 \in DOMAIN Tail(q)
<1>1. /\ Tail(q) \in Seq(Op) /\ Len(q) \in Nat /\ Len(q) >= 1 /\ Head(q) = q[1]
      /\ DOMAIN q = 1 .. Len(q) /\ Len(Tail(q)) = Len(q) - 1
      /\ \A i \in 1 .. Len(q) - 1 : Tail(q)[i] = q[i + 1]
  BY HeadTailProperties, LenProperties, EmptySeq
<1>2. DOMAIN Tail(q) = 1 .. Len(q) - 1
  BY <1>1, LenProperties
<1>3. Head(q) \in Op
  BY <1>1, ElementOfSeq
<1> QED BY <1>1, <1>2, <1>3

LEMMA InAppend ==
  ASSUME NEW q \in Seq(Op), NEW z \in Op, NEW x
  PROVE  In(Append(q, z), x) <=> In(q, x) \/ x = Id(z)
<1> DEFINE u == Append(q, z)
<1>1. /\ Len(q) \in Nat /\ DOMAIN q = 1 .. Len(q) /\ DOMAIN u = 1 .. Len(q) + 1
      /\ \A i \in 1 .. Len(q) : u[i] = q[i]
      /\ u[Len(q) + 1] = z
  BY AppendFacts
<1> HIDE DEF u
<1>2. In(u, x) => In(q, x) \/ x = Id(z)
  <2> SUFFICES ASSUME NEW i \in DOMAIN u, Id(u[i]) = x, x # Id(z) PROVE In(q, x)
    BY DEF In
  <2>1. i \in 1 .. Len(q)
    BY <1>1
  <2> QED BY <1>1, <2>1 DEF In
<1>3. In(q, x) \/ x = Id(z) => In(u, x)
  <2>1. Len(q) + 1 \in DOMAIN u /\ \A i \in DOMAIN q : i \in DOMAIN u /\ u[i] = q[i]
    BY <1>1
  <2> QED BY <1>1, <2>1 DEF In
<1> QED BY <1>2, <1>3 DEF u

LEMMA SureAppend ==
  ASSUME NEW r, NEW q \in Seq(Op), NEW z \in Op, NEW x
  PROVE  /\ Sure(r, q, x) => Sure(r, Append(q, z), x)
         /\ x = Id(z) \/ x \in z.waits => Sure(r, Append(q, z), x)
<1> DEFINE u == Append(q, z)
<1>1. Len(q) + 1 \in DOMAIN u /\ u[Len(q) + 1] = z /\ \A i \in DOMAIN q : i \in DOMAIN u /\ u[i] = q[i]
  BY AppendFacts
<1> HIDE DEF u
<1> QED BY <1>1 DEF Sure, u

\* An operation may be queued once those it must run after are sure.
LEMMA AfterAppend ==
  ASSUME NEW r, NEW q \in Seq(Op), NEW z \in Op, NEW x, NEW y, After(r, q, x, y),
         Id(z) = y => Sure(r, q, x) \/ x \in z.waits
  PROVE  After(r, Append(q, z), x, y)
<1> DEFINE u == Append(q, z)
<1>1. /\ Len(q) \in Nat /\ DOMAIN q = 1 .. Len(q) /\ DOMAIN u = 1 .. Len(q) + 1
      /\ \A i \in 1 .. Len(q) : u[i] = q[i]
      /\ u[Len(q) + 1] = z
  BY AppendFacts
<1> HIDE DEF u
<1> SUFFICES ASSUME NEW j \in DOMAIN u, Id(u[j]) = y, x \notin r, x \notin u[j].waits
             PROVE  \E i \in 1 .. j - 1 : x = Id(u[i]) \/ x \in u[i].waits
  BY DEF After, u
<1>2. CASE j \in 1 .. Len(q)
  <2>1. j \in DOMAIN q /\ u[j] = q[j]
    BY <1>1, <1>2
  <2>2. PICK i \in 1 .. j - 1 : x = Id(q[i]) \/ x \in q[i].waits
    BY <2>1 DEF After
  <2>3. i \in 1 .. Len(q)
    BY <1>1, <1>2
  <2> QED BY <1>1, <2>2, <2>3
<1>3. CASE j = Len(q) + 1
  <2>1. u[j] = z /\ Sure(r, q, x)
    BY <1>1, <1>3
  <2>2. PICK i \in DOMAIN q : x = Id(q[i]) \/ x \in q[i].waits
    BY <2>1 DEF Sure
  <2>3. i \in 1 .. j - 1 /\ u[i] = q[i]
    BY <1>1, <1>3
  <2> QED BY <2>2, <2>3
<1> QED BY <1>1, <1>2, <1>3

LEMMA FreshAppend ==
  ASSUME NEW r, NEW q \in Seq(Op), NEW z \in Op, Fresh(r, q),
         z.kind # "wait" => Id(z) \notin r /\ ~In(q, Id(z))
  PROVE  Fresh(r, Append(q, z))
<1> DEFINE u == Append(q, z)
<1>1. /\ Len(q) \in Nat /\ DOMAIN q = 1 .. Len(q) /\ DOMAIN u = 1 .. Len(q) + 1
      /\ \A i \in 1 .. Len(q) : u[i] = q[i]
      /\ u[Len(q) + 1] = z
  BY AppendFacts
<1> HIDE DEF u
<1> SUFFICES ASSUME NEW i \in DOMAIN u, u[i].kind # "wait"
             PROVE  Id(u[i]) \notin r /\ \A j \in DOMAIN u : Id(u[j]) = Id(u[i]) => j = i
  BY DEF Fresh, u
<1>2. CASE i \in DOMAIN q
  <2>1. /\ u[i] = q[i] /\ Id(q[i]) \notin r
        /\ \A j \in DOMAIN q : Id(q[j]) = Id(q[i]) => j = i
    BY <1>1, <1>2 DEF Fresh
  <2>2. Id(z) # Id(q[i])
    BY <1>2, <2>1 DEF In, Id
  <2>3. ASSUME NEW j \in DOMAIN u, Id(u[j]) = Id(u[i]) PROVE j \in DOMAIN q /\ u[j] = q[j]
    BY <1>1, <2>1, <2>2, <2>3
  <2> QED BY <2>1, <2>3
<1>3. CASE i = Len(q) + 1
  <2>1. u[i] = z /\ Id(z) \notin r /\ ~In(q, Id(z))
    BY <1>1, <1>3
  <2>2. ASSUME NEW j \in DOMAIN u, Id(u[j]) = Id(u[i]), j # i PROVE FALSE
    <3>1. j \in DOMAIN q /\ u[j] = q[j]
      BY <1>1, <1>3, <2>2
    <3> QED BY <2>1, <2>2, <3>1 DEF In
  <2> QED BY <2>1, <2>2
<1> QED BY <1>1, <1>2, <1>3

\* A stream runs the first operation of its queue q; o: the other queue.
LEMMA RunFacts ==
  ASSUME NEW r, NEW q \in Seq(Op), q # <<>>, Head(q).waits \subseteq r, NEW o \in Seq(Op), NEW x
  PROVE  /\ In(q, x) <=> In(Tail(q), x) \/ x = Id(Head(q))
         /\ Sure(r, q, x) => Sure(r \cup {Id(Head(q))}, Tail(q), x)
         /\ Sure(r, o, x) => Sure(r \cup {Id(Head(q))}, o, x)
<1>1. /\ Len(q) \in Nat /\ Len(q) >= 1 /\ DOMAIN q = 1 .. Len(q) /\ DOMAIN Tail(q) = 1 .. Len(q) - 1
      /\ Head(q) = q[1]
      /\ \A i \in 1 .. Len(q) - 1 : Tail(q)[i] = q[i + 1] /\ i + 1 \in DOMAIN q
      /\ \A j \in 2 .. Len(q) : q[j] = Tail(q)[j - 1] /\ j - 1 \in DOMAIN Tail(q)
  BY TailFacts
<1> DEFINE u == Tail(q)
           h == Head(q)
<1> HIDE DEF u, h
<1>2. 1 \in DOMAIN q /\ \A j \in DOMAIN q : j # 1 => q[j] = u[j - 1] /\ j - 1 \in DOMAIN u
  BY <1>1 DEF u
<1>3. \A i \in DOMAIN u : u[i] = q[i + 1] /\ i + 1 \in DOMAIN q
  BY <1>1 DEF u
<1>4. h = q[1] /\ h.waits \subseteq r
  BY <1>1 DEF h
<1>5. In(q, x) <=> In(u, x) \/ x = Id(h)
  BY <1>2, <1>3, <1>4 DEF In
<1>6. Sure(r, q, x) => Sure(r \cup {Id(h)}, u, x)
  BY <1>2, <1>3, <1>4 DEF Sure
<1>7. Sure(r, o, x) => Sure(r \cup {Id(h)}, o, x)
  BY DEF Sure
<1> QED BY <1>5, <1>6, <1>7 DEF u, h

LEMMA AfterRun ==
  ASSUME NEW r, NEW q \in Seq(Op), q # <<>>, Head(q).waits \subseteq r, NEW o \in Seq(Op),
         NEW x, NEW y
  PROVE  /\ After(r, q, x, y) => After(r \cup {Id(Head(q))}, Tail(q), x, y)
         /\ After(r, o, x, y) /\ y # Id(Head(q)) => After(r \cup {Id(Head(q))}, o, x, y)
<1> DEFINE u == Tail(q)
           h == Head(q)
<1>1. /\ Len(q) \in Nat /\ Len(q) >= 1 /\ DOMAIN q = 1 .. Len(q) /\ DOMAIN u = 1 .. Len(q) - 1
      /\ h = q[1] /\ h.waits \subseteq r
      /\ \A i \in 1 .. Len(q) - 1 : u[i] = q[i + 1] /\ i + 1 \in DOMAIN q
      /\ \A j \in 2 .. Len(q) : q[j] = u[j - 1] /\ j - 1 \in DOMAIN u
  BY TailFacts
<1> HIDE DEF u, h
<1>2. ASSUME After(r, q, x, y) PROVE After(r \cup {Id(h)}, u, x, y)
  <2>1. y = Id(h) => x \in r
    <3> SUFFICES ASSUME y = Id(h), x \notin r PROVE FALSE OBVIOUS
    <3>1. 1 \in DOMAIN q /\ x \notin q[1].waits
      BY <1>1
    <3>2. \E i \in 1 .. 1 - 1 : x = Id(q[i]) \/ x \in q[i].waits
      BY <1>1, <1>2, <3>1 DEF After
    <3> QED BY <3>2
  <2>2. ASSUME NEW j \in DOMAIN u, Id(u[j]) = y, x \notin r \cup {Id(h)}, x \notin u[j].waits
        PROVE  \E i \in 1 .. j - 1 : x = Id(u[i]) \/ x \in u[i].waits
    <3>1. j \in Nat /\ j + 1 \in DOMAIN q /\ q[j + 1] = u[j]
      BY <1>1
    <3>2. PICK i \in 1 .. (j + 1) - 1 : x = Id(q[i]) \/ x \in q[i].waits
      BY <1>2, <2>2, <3>1 DEF After
    <3>3. i # 1
      BY <1>1, <2>2, <3>2
    <3>4. i \in 2 .. Len(q) /\ i - 1 \in 1 .. j - 1
      BY <1>1, <3>1, <3>3
    <3>5. q[i] = u[i - 1]
      BY <1>1, <3>4
    <3> QED BY <3>2, <3>4, <3>5
  <2> QED BY <1>2, <2>1, <2>2 DEF After
<1>3. ASSUME After(r, o, x, y), y # Id(h) PROVE After(r \cup {Id(h)}, o, x, y)
  BY <1>3 DEF After
<1> QED BY <1>2, <1>3 DEF u, h

LEMMA FreshRun ==
  ASSUME NEW r, NEW q \in Seq(Op), q # <<>>, NEW o \in Seq(Op)
  PROVE  /\ Fresh(r, q) => Fresh(r \cup {Id(Head(q))}, Tail(q))
         /\ Fresh(r, o) /\ (\A i \in DOMAIN o : o[i].kind # "wait" => o[i].kind # Head(q).kind) =>
              Fresh(r \cup {Id(Head(q))}, o)
<1> DEFINE u == Tail(q)
           h == Head(q)
<1>1. /\ Len(q) \in Nat /\ Len(q) >= 1 /\ DOMAIN q = 1 .. Len(q) /\ DOMAIN u = 1 .. Len(q) - 1
      /\ h = q[1]
      /\ \A i \in 1 .. Len(q) - 1 : u[i] = q[i + 1] /\ i + 1 \in DOMAIN q
  BY TailFacts
<1> HIDE DEF u, h
<1>2. ASSUME Fresh(r, q) PROVE Fresh(r \cup {Id(h)}, u)
  <2> SUFFICES ASSUME NEW i \in DOMAIN u, u[i].kind # "wait"
               PROVE  /\ Id(u[i]) \notin r \cup {Id(h)}
                      /\ \A j \in DOMAIN u : Id(u[j]) = Id(u[i]) => j = i
    BY DEF Fresh
  <2>1. i \in Nat /\ i >= 1 /\ i + 1 \in DOMAIN q /\ q[i + 1] = u[i] /\ 1 \in DOMAIN q
    BY <1>1
  <2>2. Id(q[i + 1]) \notin r /\ \A j \in DOMAIN q : Id(q[j]) = Id(q[i + 1]) => j = i + 1
    BY <1>2, <2>1 DEF Fresh
  <2>3. Id(h) # Id(u[i])
    BY <1>1, <2>1, <2>2
  <2>4. ASSUME NEW j \in DOMAIN u, Id(u[j]) = Id(u[i]) PROVE j = i
    <3>1. j \in Nat /\ j + 1 \in DOMAIN q /\ q[j + 1] = u[j]
      BY <1>1
    <3>2. j + 1 = i + 1
      BY <2>1, <2>2, <2>4, <3>1
    <3> QED BY <2>1, <3>1, <3>2
  <2> QED BY <2>1, <2>2, <2>3, <2>4
<1>3. ASSUME Fresh(r, o), \A i \in DOMAIN o : o[i].kind # "wait" => o[i].kind # h.kind
      PROVE  Fresh(r \cup {Id(h)}, o)
  BY <1>3 DEF Fresh, Id
<1> QED BY <1>2, <1>3 DEF u, h

-----------------------------------------------------------------------------
(* The queues and their order *)

Core(r, c, t, S) == Queues(c, t, S) /\ Fresh(r, c) /\ Fresh(r, t) /\ Ordered(r, c, t, S)

\* An operation belongs to a plan of a step, and a redistributed one to its slot.
OpOf(S, z) ==
  /\ z.kind # "wait" => z.step \in DOMAIN S
  /\ z.kind \in {"storage_to_compute", "compute", "compute_to_storage"} =>
       LET a == <<z.step, z.plan>> IN a \in BucketsOf(S) /\ ~IsLocal(S, a) /\ z.slot = SlotIn(S, a)

\* What must be so for the caller's stream to be given z.
CallerMayQueue(r, c, t, S, z) ==
  /\ z.kind \in CallerKinds /\ OpOf(S, z)
  /\ z.kind # "wait" => ~Known(r, c, t, Id(z))
  /\ z.kind = "compute" => Brought(<<z.step, z.plan>>) \in z.waits
  /\ z.kind = "local" => Sure(r, c, Backward(z.step))
  /\ z.kind = "backward" =>
       /\ z.step - 1 \in DOMAIN S => Sure(r, c, Backward(z.step - 1))
       /\ \A a \in BucketsOf(S) : a[1] + 1 = z.step => Sure(r, c, Updated(S, a))

\* The same for the transfer stream.
TransferMayQueue(r, c, t, S, z) ==
  /\ z.kind \in TransferKinds /\ OpOf(S, z)
  /\ z.kind # "wait" => ~Known(r, c, t, Id(z))
  /\ z.kind = "storage_to_compute" =>
       /\ Sure(r, t, Backward(z.step))
       /\ \A a \in BucketsOf(S) :
            a # <<z.step, z.plan>> /\ ~IsLocal(S, a) /\ SlotIn(S, a) = z.slot =>
              Sure(r, t, Returned(a)) \/ ~Known(r, c, t, Brought(a))
  /\ z.kind = "compute_to_storage" => Computed(<<z.step, z.plan>>) \in z.waits

\* Queues, one operation at a time.
LEMMA QueuesAre ==
  ASSUME NEW c, NEW t, NEW S
  PROVE  Queues(c, t, S) <=>
           /\ \A i \in DOMAIN c : c[i].kind \in CallerKinds /\ OpOf(S, c[i])
           /\ \A i \in DOMAIN t : t[i].kind \in TransferKinds /\ OpOf(S, t[i])
<1>1. ASSUME Queues(c, t, S), NEW q \in {c, t}, NEW i \in DOMAIN q
      PROVE  OpOf(S, q[i])
  BY <1>1 DEF Queues, OpOf
<1>2. Queues(c, t, S) =>
        /\ \A i \in DOMAIN c : c[i].kind \in CallerKinds /\ OpOf(S, c[i])
        /\ \A i \in DOMAIN t : t[i].kind \in TransferKinds /\ OpOf(S, t[i])
  BY <1>1 DEF Queues
<1>3. ASSUME \A i \in DOMAIN c : c[i].kind \in CallerKinds /\ OpOf(S, c[i]),
             \A i \in DOMAIN t : t[i].kind \in TransferKinds /\ OpOf(S, t[i])
      PROVE  Queues(c, t, S)
  <2>1. \A q \in {c, t} : \A i \in DOMAIN q : OpOf(S, q[i])
    BY <1>3
  <2> QED BY <1>3, <2>1 DEF Queues, OpOf
<1> QED BY <1>2, <1>3

LEMMA QueuesAppend ==
  ASSUME NEW c \in Seq(Op), NEW t \in Seq(Op), NEW z \in Op, NEW S, Queues(c, t, S), OpOf(S, z)
  PROVE  /\ z.kind \in CallerKinds => Queues(Append(c, z), t, S)
         /\ z.kind \in TransferKinds => Queues(c, Append(t, z), S)
<1>1. /\ \A i \in DOMAIN Append(c, z) : Append(c, z)[i] = z \/ (i \in DOMAIN c /\ Append(c, z)[i] = c[i])
      /\ \A i \in DOMAIN Append(t, z) : Append(t, z)[i] = z \/ (i \in DOMAIN t /\ Append(t, z)[i] = t[i])
  BY AppendFacts
<1> DEFINE u == Append(c, z)
           v == Append(t, z)
<1>2. \A i \in DOMAIN u : u[i] = z \/ (i \in DOMAIN c /\ u[i] = c[i])
  BY <1>1
<1>3. \A i \in DOMAIN v : v[i] = z \/ (i \in DOMAIN t /\ v[i] = t[i])
  BY <1>1
<1> HIDE DEF u, v
<1>4. /\ \A i \in DOMAIN c : c[i].kind \in CallerKinds /\ OpOf(S, c[i])
      /\ \A i \in DOMAIN t : t[i].kind \in TransferKinds /\ OpOf(S, t[i])
  BY QueuesAre
<1>5. ASSUME z.kind \in CallerKinds PROVE Queues(u, t, S)
  <2>1. \A i \in DOMAIN u : u[i].kind \in CallerKinds /\ OpOf(S, u[i])
    BY <1>2, <1>4, <1>5
  <2> QED BY <1>4, <2>1, QueuesAre
<1>6. ASSUME z.kind \in TransferKinds PROVE Queues(c, v, S)
  <2>1. \A i \in DOMAIN v : v[i].kind \in TransferKinds /\ OpOf(S, v[i])
    BY <1>3, <1>4, <1>6
  <2> QED BY <1>4, <2>1, QueuesAre
<1> QED BY <1>5, <1>6 DEF u, v

LEMMA CallerAppend ==
  ASSUME NEW r, NEW c \in Seq(Op), NEW t \in Seq(Op), NEW S, DOMAIN S \subseteq Nat, NEW z \in Op,
         Core(r, c, t, S), CallerMayQueue(r, c, t, S, z)
  PROVE  Core(r, Append(c, z), t, S)
<1>1. Queues(Append(c, z), t, S)
  BY QueuesAppend DEF Core, CallerMayQueue
<1>2. Fresh(r, Append(c, z))
  BY FreshAppend DEF Core, CallerMayQueue, Known
<1>3. ASSUME NEW a \in Nat \X Nat PROVE After(r, Append(c, z), Brought(a), Computed(a))
  <2>1. Id(z) = Computed(a) => Brought(a) \in z.waits
    BY DEF CallerMayQueue, Id, Computed, Brought
  <2> QED BY <2>1, AfterAppend DEF Core, Ordered
<1>4. ASSUME NEW a \in Nat \X Nat PROVE After(r, Append(c, z), Backward(a[1]), Local(a))
  <2>1. Id(z) = Local(a) => Sure(r, c, Backward(a[1]))
    BY DEF CallerMayQueue, Id, Local
  <2> QED BY <2>1, AfterAppend DEF Core, Ordered
<1>5. ASSUME NEW n \in DOMAIN S, n - 1 \in DOMAIN S
      PROVE  After(r, Append(c, z), Backward(n - 1), Backward(n))
  <2>1. Id(z) = Backward(n) => Sure(r, c, Backward(n - 1))
    BY <1>5 DEF CallerMayQueue, Id, Backward
  <2> QED BY <1>5, <2>1, AfterAppend DEF Core, Ordered
<1>6. ASSUME NEW a \in BucketsOf(S), a[1] + 1 \in DOMAIN S
      PROVE  After(r, Append(c, z), Updated(S, a), Backward(a[1] + 1))
  <2>1. Id(z) = Backward(a[1] + 1) => Sure(r, c, Updated(S, a))
    BY DEF CallerMayQueue, Id, Backward
  <2> QED BY <1>6, <2>1, AfterAppend DEF Core, Ordered
<1> QED BY <1>1, <1>2, <1>3, <1>4, <1>5, <1>6 DEF Core, Ordered

LEMMA TransferAppend ==
  ASSUME NEW r, NEW c \in Seq(Op), NEW t \in Seq(Op), NEW S, DOMAIN S \subseteq Nat, NEW z \in Op,
         Core(r, c, t, S), TransferMayQueue(r, c, t, S, z)
  PROVE  Core(r, c, Append(t, z), S)
<1>1. Queues(c, Append(t, z), S)
  BY QueuesAppend DEF Core, TransferMayQueue
<1>2. Fresh(r, Append(t, z))
  BY FreshAppend DEF Core, TransferMayQueue, Known
<1>3. ASSUME NEW a \in Nat \X Nat PROVE After(r, Append(t, z), Computed(a), Returned(a))
  <2>1. Id(z) = Returned(a) => Computed(a) \in z.waits
    BY DEF TransferMayQueue, Id, Returned, Computed
  <2> QED BY <2>1, AfterAppend DEF Core, Ordered
<1>4. ASSUME NEW a \in Nat \X Nat PROVE After(r, Append(t, z), Backward(a[1]), Brought(a))
  <2>1. Id(z) = Brought(a) => Sure(r, t, Backward(a[1]))
    BY DEF TransferMayQueue, Id, Brought
  <2> QED BY <2>1, AfterAppend DEF Core, Ordered
<1>5. ASSUME NEW a \in BucketsOf(S), NEW b \in BucketsOf(S), a # b, ~IsLocal(S, a), ~IsLocal(S, b),
             SlotIn(S, a) = SlotIn(S, b),
             Id(z) = Brought(b)
      PROVE  \/ After(r, Append(t, z), Returned(a), Brought(b))
             \/ After(r, Append(t, z), Returned(b), Brought(a))
  <2>1. b = <<z.step, z.plan>> /\ z.kind = "storage_to_compute" /\ z.slot = SlotIn(S, b)
    <3>1. b = <<b[1], b[2]>>
      BY DEF BucketsOf
    <3>2. z.kind = "storage_to_compute" /\ z.step = b[1] /\ z.plan = b[2]
      BY <1>5 DEF Id, Brought
    <3>3. b = <<z.step, z.plan>>
      BY <3>1, <3>2
    <3> QED BY <3>2, <3>3 DEF TransferMayQueue, OpOf
  <2>2. Sure(r, t, Returned(a)) \/ ~Known(r, c, t, Brought(a))
    BY <1>5, <2>1 DEF TransferMayQueue
  <2>3. CASE Sure(r, t, Returned(a)) /\ Known(r, c, t, Brought(b))
    BY <1>5, <2>1, <2>3 DEF TransferMayQueue
  <2>4. CASE Sure(r, t, Returned(a)) /\ ~Known(r, c, t, Brought(b))
    <3>1. After(r, t, Returned(a), Brought(b))
      BY <2>4 DEF Known, In, After
    <3> QED BY <2>4, <3>1, AfterAppend
  <2>5. CASE ~Known(r, c, t, Brought(a))
    <3>1. After(r, t, Returned(b), Brought(a))
      BY <2>5 DEF Known, In, After
    <3>2. Brought(a) # Id(z)
      BY <1>5 DEF Brought, BucketsOf
    <3> QED BY <3>1, <3>2, AfterAppend
  <2> QED BY <2>2, <2>3, <2>4, <2>5
<1>6. ASSUME NEW a \in BucketsOf(S), NEW b \in BucketsOf(S), a # b, ~IsLocal(S, a), ~IsLocal(S, b),
             SlotIn(S, a) = SlotIn(S, b),
             Id(z) # Brought(a), Id(z) # Brought(b)
      PROVE  \/ After(r, Append(t, z), Returned(a), Brought(b))
             \/ After(r, Append(t, z), Returned(b), Brought(a))
  <2>1. After(r, t, Returned(a), Brought(b)) \/ After(r, t, Returned(b), Brought(a))
    BY <1>6 DEF Core, Ordered, SlotOrder
  <2> QED BY <1>6, <2>1, AfterAppend
<1>7. SlotOrder(r, Append(t, z), S)
  BY <1>5, <1>6 DEF SlotOrder
<1> QED BY <1>1, <1>2, <1>3, <1>4, <1>7 DEF Core, Ordered

\* A stream runs an operation.
LEMMA CallerRunsCore ==
  ASSUME NEW r, NEW c \in Seq(Op), NEW t \in Seq(Op), NEW S, DOMAIN S \subseteq Nat,
         Core(r, c, t, S), c # <<>>, Head(c).waits \subseteq r
  PROVE  Core(r \cup {Id(Head(c))}, Tail(c), t, S)
<1> DEFINE h == Head(c)
           u == Tail(c)
           r2 == r \cup {Id(h)}
<1>1. \A i \in DOMAIN u : \E j \in DOMAIN c : u[i] = c[j]
  BY TailFacts
<1>2. h.kind \in CallerKinds
  <2>1. h = c[1] /\ 1 \in DOMAIN c
    BY TailFacts
  <2> QED BY <2>1 DEF Core, Queues
<1>3. Queues(u, t, S)
  <2> HIDE DEF u
  <2> QED BY <1>1 DEF Core, Queues
<1>4. Fresh(r2, u) /\ Fresh(r2, t)
  <2>1. \A i \in DOMAIN t : t[i].kind # "wait" => t[i].kind # h.kind
    BY <1>2 DEF Core, Queues, CallerKinds, TransferKinds
  <2> QED BY <2>1, FreshRun DEF Core
<1>5. \A x, y : /\ After(r, c, x, y) => After(r2, u, x, y)
                /\ After(r, t, x, y) /\ y # Id(h) => After(r2, t, x, y)
  BY AfterRun
<1>6. \A a : Brought(a) # Id(h) /\ Returned(a) # Id(h)
  BY <1>2 DEF Id, CallerKinds, Brought, Returned
<1> HIDE DEF h, u, r2
<1>7. Ordered(r2, u, t, S)
  BY <1>5, <1>6 DEF Core, Ordered, SlotOrder
<1> QED BY <1>3, <1>4, <1>7 DEF Core, h, u, r2

LEMMA TransferRunsCore ==
  ASSUME NEW r, NEW c \in Seq(Op), NEW t \in Seq(Op), NEW S, DOMAIN S \subseteq Nat,
         Core(r, c, t, S), t # <<>>, Head(t).waits \subseteq r
  PROVE  Core(r \cup {Id(Head(t))}, c, Tail(t), S)
<1> DEFINE h == Head(t)
           u == Tail(t)
           r2 == r \cup {Id(h)}
<1>1. \A i \in DOMAIN u : \E j \in DOMAIN t : u[i] = t[j]
  BY TailFacts
<1>2. h.kind \in TransferKinds
  <2>1. h = t[1] /\ 1 \in DOMAIN t
    BY TailFacts
  <2> QED BY <2>1 DEF Core, Queues
<1>3. Queues(c, u, S)
  <2> HIDE DEF u
  <2> QED BY <1>1 DEF Core, Queues
<1>4. Fresh(r2, u) /\ Fresh(r2, c)
  <2>1. \A i \in DOMAIN c : c[i].kind # "wait" => c[i].kind # h.kind
    BY <1>2 DEF Core, Queues, CallerKinds, TransferKinds
  <2> QED BY <2>1, FreshRun DEF Core
<1>5. \A x, y : /\ After(r, t, x, y) => After(r2, u, x, y)
                /\ After(r, c, x, y) /\ y # Id(h) => After(r2, c, x, y)
  BY AfterRun
<1>6. /\ \A a : Computed(a) # Id(h) /\ Local(a) # Id(h)
      /\ \A n : Backward(n) # Id(h)
  BY <1>2 DEF Id, TransferKinds, Computed, Local, Backward
<1> HIDE DEF h, u, r2
<1>7. Ordered(r2, c, u, S)
  BY <1>5, <1>6 DEF Core, Ordered, SlotOrder
<1> QED BY <1>3, <1>4, <1>7 DEF Core, h, u, r2

\* A step's plans are recorded before anything of it is queued.
LEMMA StepCore ==
  ASSUME NEW r, NEW c \in Seq(Op), NEW t \in Seq(Op), NEW S, NEW n \in Nat, DOMAIN S = 1 .. n,
         NEW S2, DOMAIN S2 = 1 .. n + 1, \A i \in 1 .. n : S2[i] = S[i],
         Core(r, c, t, S),
         \A a \in Nat \X Nat : Known(r, c, t, Brought(a)) => a[1] \in DOMAIN S,
         \A i \in Nat : Known(r, c, t, Backward(i)) => i \in DOMAIN S
  PROVE  Core(r, c, t, S2)
<1>1. \A a \in BucketsOf(S) : /\ a \in BucketsOf(S2) /\ IsLocal(S2, a) = IsLocal(S, a)
                              /\ SlotIn(S2, a) = SlotIn(S, a) /\ Updated(S2, a) = Updated(S, a)
  BY DEF BucketsOf, IsLocal, SlotIn, Updated
<1>2. \A a \in BucketsOf(S2) : a[1] \in DOMAIN S => a \in BucketsOf(S)
  BY DEF BucketsOf
<1>3. Queues(c, t, S2)
  BY <1>1 DEF Core, Queues
<1>4. \A x, y : ~Known(r, c, t, y) => After(r, c, x, y) /\ After(r, t, x, y)
  BY DEF Known, In, After
<1>5. ASSUME NEW i \in DOMAIN S2, i - 1 \in DOMAIN S2 PROVE After(r, c, Backward(i - 1), Backward(i))
  <2>1. CASE i \in DOMAIN S
    <3>1. i - 1 \in DOMAIN S BY <1>5, <2>1
    <3> QED BY <2>1, <3>1 DEF Core, Ordered
  <2>2. CASE i \notin DOMAIN S BY <1>4, <2>2
  <2> QED BY <2>1, <2>2
<1>6. ASSUME NEW a \in BucketsOf(S2), a[1] + 1 \in DOMAIN S2
      PROVE  After(r, c, Updated(S2, a), Backward(a[1] + 1))
  <2>1. CASE a[1] + 1 \in DOMAIN S
    <3>1. a \in BucketsOf(S) BY <1>2, <2>1 DEF BucketsOf
    <3> QED BY <1>1, <2>1, <3>1 DEF Core, Ordered
  <2>2. CASE a[1] + 1 \notin DOMAIN S BY <1>4, <1>6, <2>2
  <2> QED BY <2>1, <2>2
<1>7. ASSUME NEW a \in BucketsOf(S2), NEW b \in BucketsOf(S2), a # b, ~IsLocal(S2, a),
             ~IsLocal(S2, b), SlotIn(S2, a) = SlotIn(S2, b)
      PROVE  After(r, t, Returned(a), Brought(b)) \/ After(r, t, Returned(b), Brought(a))
  <2>1. CASE a \in BucketsOf(S) /\ b \in BucketsOf(S)
    BY <1>1, <1>7, <2>1 DEF Core, Ordered, SlotOrder
  <2>2. CASE a \notin BucketsOf(S) \/ b \notin BucketsOf(S)
    <3>1. a \in Nat \X Nat /\ b \in Nat \X Nat BY DEF BucketsOf
    <3> QED BY <1>2, <1>4, <2>2, <3>1
  <2> QED BY <2>1, <2>2
<1>8. Ordered(r, c, t, S2)
  <2>1. SlotOrder(r, t, S2) BY <1>7 DEF SlotOrder
  <2> QED BY <1>5, <1>6, <2>1 DEF Core, Ordered
<1> QED BY <1>3, <1>8 DEF Core
-----------------------------------------------------------------------------
(* What the helpers of run() queue *)

\* e is d with more in its queues, in order: the operations X.
OrderOf(d) == Core(ran, d.caller, d.transfer, steps)

Grows(d, e, X) ==
  /\ e \in FitDevice /\ OrderOf(e)
  /\ \A x : Has(ran, e, x) <=> Has(ran, d, x) \/ x \in X
  /\ \A x : CallerSure(ran, d, x) => CallerSure(ran, e, x)
  /\ \A x : TransferSure(ran, d, x) => TransferSure(ran, e, x)

LEMMA FitQueues ==
  ASSUME NEW d \in FitDevice
  PROVE  d.caller \in Seq(Op) /\ d.transfer \in Seq(Op) /\ d.recorded \in [Slot -> Events]
BY FitDeviceIsDevice DEF Device

LEMMA CallerGrows ==
  ASSUME NEW d \in FitDevice, NEW e \in FitDevice, NEW z \in Op, DOMAIN steps \subseteq Nat,
         OrderOf(d), CallerMayQueue(ran, d.caller, d.transfer, steps, z),
         e.caller = Append(d.caller, z), e.transfer = d.transfer
  PROVE  /\ Grows(d, e, {Id(z)})
         /\ \A x \in z.waits \cup {Id(z)} : CallerSure(ran, e, x)
<1>1. d.caller \in Seq(Op) /\ d.transfer \in Seq(Op)
  BY FitQueues
<1>2. OrderOf(e)
  BY <1>1, CallerAppend DEF OrderOf
<1>3. \A x : Has(ran, e, x) <=> Has(ran, d, x) \/ x \in {Id(z)}
  BY <1>1, InAppend DEF Has, Known
<1>4. /\ \A x : CallerSure(ran, d, x) => CallerSure(ran, e, x)
      /\ \A x : TransferSure(ran, d, x) => TransferSure(ran, e, x)
      /\ \A x \in z.waits \cup {Id(z)} : CallerSure(ran, e, x)
  BY <1>1, SureAppend DEF CallerSure, TransferSure
<1> QED BY <1>2, <1>3, <1>4 DEF Grows

LEMMA TransferGrows ==
  ASSUME NEW d \in FitDevice, NEW e \in FitDevice, NEW z \in Op, DOMAIN steps \subseteq Nat,
         OrderOf(d), TransferMayQueue(ran, d.caller, d.transfer, steps, z),
         e.transfer = Append(d.transfer, z), e.caller = d.caller
  PROVE  /\ Grows(d, e, {Id(z)})
         /\ \A x \in z.waits \cup {Id(z)} : TransferSure(ran, e, x)
<1>1. d.caller \in Seq(Op) /\ d.transfer \in Seq(Op)
  BY FitQueues
<1>2. OrderOf(e)
  BY <1>1, TransferAppend DEF OrderOf
<1>3. \A x : Has(ran, e, x) <=> Has(ran, d, x) \/ x \in {Id(z)}
  BY <1>1, InAppend DEF Has, Known
<1>4. /\ \A x : CallerSure(ran, d, x) => CallerSure(ran, e, x)
      /\ \A x : TransferSure(ran, d, x) => TransferSure(ran, e, x)
      /\ \A x \in z.waits \cup {Id(z)} : TransferSure(ran, e, x)
  BY <1>1, SureAppend DEF CallerSure, TransferSure
<1> QED BY <1>2, <1>3, <1>4 DEF Grows

\* The bucket of a piece of work, and its operations.
LEMMA WorkFacts ==
  ASSUME IInv, Running(host), NEW w \in Work, InItsSlot(w)
  PROVE  LET a == <<Len(steps), w.plan>>
         IN  /\ a \in BucketsOf(steps) /\ ~IsLocal(steps, a) /\ w.slot = SlotIn(steps, a)
             /\ Updated(steps, a) = Returned(a)
             /\ w \in FitWork /\ w.plan \in Nat /\ w.slot \in Slot
             /\ Len(steps) \in Nat \ {0} /\ DOMAIN steps = 1 .. Len(steps)
<1>1. /\ w.plan \in DOMAIN plans /\ ~plans[w.plan].local /\ w.slot = SlotOf(plans, w.plan)
      /\ w.plan \in Nat /\ w.slot \in Slot
  BY DEF InItsSlot, Work
<1>2. /\ plans = steps[Len(steps)] /\ Len(steps) \in Nat \ {0} /\ DOMAIN steps = 1 .. Len(steps)
      /\ w \in FitWork
  BY RunningFacts
<1> QED BY <1>1, <1>2 DEF BucketsOf, IsLocal, SlotIn, Updated

\* An operation that run() queues for a bucket.
LEMMA WorkOp ==
  ASSUME IInv, Running(host), NEW w \in Work, InItsSlot(w), NEW kind \in Kinds,
         NEW waits \in SUBSET OpId
  PROVE  LET z == NewOp(kind, w, waits)
         IN  /\ z \in Op /\ z.kind = kind /\ z.waits = waits /\ z.slot = w.slot
             /\ z.step = Len(steps) /\ z.plan = w.plan
             /\ Id(z) = <<kind, Len(steps), w.plan>>
             /\ OpOf(steps, z)
<1> DEFINE z == NewOp(kind, w, waits)
<1>1. /\ w \in [plan : Nat, slot : Slot \cup {LocalSlot}] /\ Len(steps) \in Nat
      /\ Len(steps) \in DOMAIN steps
  <2>1. Len(steps) \in Nat \ {0} /\ DOMAIN steps = 1 .. Len(steps)
    BY WorkFacts
  <2>2. w \in [plan : Nat, slot : Slot \cup {LocalSlot}]
    BY DEF Work
  <2> QED BY <2>1, <2>2
<1>2. z \in Op
  BY <1>1, NewOpFacts
<1>3. /\ z.kind = kind /\ z.waits = waits /\ z.slot = w.slot /\ z.step = Len(steps) /\ z.plan = w.plan
      /\ Id(z) = <<kind, Len(steps), w.plan>>
  BY DEF NewOp, Id
<1> HIDE DEF z
<1>4. OpOf(steps, z)
  BY <1>1, <1>3, WorkFacts DEF OpOf
<1> QED BY <1>2, <1>3, <1>4 DEF z

\* The exchange to the compute layout.
LEMMA BringGrows ==
  ASSUME IInv, Running(host), NEW w \in Work, InItsSlot(w), NEW d \in FitDevice, OrderOf(d),
         ~Has(ran, d, Brought(<<Len(steps), w.plan>>)),
         TransferSure(ran, d, Backward(Len(steps))),
         \A a \in BucketsOf(steps) :
           a # <<Len(steps), w.plan>> /\ ~IsLocal(steps, a) /\ SlotIn(steps, a) = w.slot =>
             TransferSure(ran, d, Returned(a)) \/ ~Has(ran, d, Brought(a))
  PROVE  LET e == EnqueueStorageToCompute(d, w)
         IN  /\ Grows(d, e, {Brought(<<Len(steps), w.plan>>)})
             /\ e.recorded = [d.recorded EXCEPT
                  ![w.slot].compute_input_ready = Brought(<<Len(steps), w.plan>>)]
<1> DEFINE z == NewOp("storage_to_compute", w, {})
           e == EnqueueStorageToCompute(d, w)
<1>1. /\ z \in Op /\ z.kind = "storage_to_compute" /\ z.slot = w.slot
      /\ z.step = Len(steps) /\ z.plan = w.plan
      /\ Id(z) = <<"storage_to_compute", Len(steps), w.plan>> /\ OpOf(steps, z)
  BY WorkOp DEF Kinds
<1>2. Id(z) = Brought(<<Len(steps), w.plan>>)
  BY <1>1 DEF Brought
<1>3. DOMAIN steps \subseteq Nat /\ e \in FitDevice
  BY WorkFacts, BringFacts
<1>4. /\ e.caller = d.caller /\ e.transfer = Append(d.transfer, z)
      /\ e.recorded = [d.recorded EXCEPT ![w.slot].compute_input_ready = Id(z)]
  BY DEF EnqueueStorageToCompute, FitDevice
<1> HIDE DEF z, e
<1>5. TransferMayQueue(ran, d.caller, d.transfer, steps, z)
  BY <1>1, <1>2 DEF TransferMayQueue, TransferKinds, Has, TransferSure
<1>6. Grows(d, e, {Id(z)})
  BY <1>1, <1>3, <1>4, <1>5, TransferGrows
<1> QED BY <1>2, <1>4, <1>6 DEF e

\* The update.
LEMMA ComputeGrows ==
  ASSUME IInv, Running(host), NEW w \in Work, InItsSlot(w), NEW d \in FitDevice, OrderOf(d),
         ~Has(ran, d, Computed(<<Len(steps), w.plan>>)),
         d.recorded[w.slot].compute_input_ready = Brought(<<Len(steps), w.plan>>)
  PROVE  LET e == ComputeBucket(d, w)
         IN  /\ Grows(d, e, {Computed(<<Len(steps), w.plan>>)})
             /\ e.recorded = [d.recorded EXCEPT
                  ![w.slot].compute_done = Computed(<<Len(steps), w.plan>>)]
<1> DEFINE waits == {d.recorded[w.slot].compute_input_ready}
           z == NewOp("compute", w, waits)
           e == ComputeBucket(d, w)
<1>1. waits \in SUBSET OpId
  BY EventFacts, WorkFacts
<1>2. e.caller = Append(d.caller, z) /\ e.transfer = d.transfer
      /\ e.recorded = [d.recorded EXCEPT ![w.slot].compute_done = Id(z)]
  BY DEF ComputeBucket, FitDevice
<1>3. Brought(<<Len(steps), w.plan>>) \in waits
  OBVIOUS
<1> HIDE DEF waits
<1>4. /\ z \in Op /\ z.kind = "compute" /\ z.waits = waits /\ z.slot = w.slot
      /\ z.step = Len(steps) /\ z.plan = w.plan
      /\ Id(z) = <<"compute", Len(steps), w.plan>> /\ OpOf(steps, z)
  BY <1>1, WorkOp DEF Kinds
<1>5. Id(z) = Computed(<<Len(steps), w.plan>>)
  BY <1>4 DEF Computed
<1>6. DOMAIN steps \subseteq Nat /\ e \in FitDevice
  BY WorkFacts, BringFacts
<1> HIDE DEF z, e
<1>7. CallerMayQueue(ran, d.caller, d.transfer, steps, z)
  BY <1>3, <1>4, <1>5 DEF CallerMayQueue, CallerKinds, Has
<1>8. Grows(d, e, {Id(z)})
  BY <1>2, <1>4, <1>6, <1>7, CallerGrows
<1> QED BY <1>2, <1>5, <1>8 DEF e

\* The exchange back.
LEMMA ReturnGrows ==
  ASSUME IInv, Running(host), NEW w \in Work, InItsSlot(w), NEW d \in FitDevice, OrderOf(d),
         ~Has(ran, d, Returned(<<Len(steps), w.plan>>)),
         d.recorded[w.slot].compute_done = Computed(<<Len(steps), w.plan>>)
  PROVE  LET e == EnqueueComputeToStorage(d, w)
         IN  /\ Grows(d, e, {Returned(<<Len(steps), w.plan>>)})
             /\ e.recorded = [d.recorded EXCEPT
                  ![w.slot].done = Returned(<<Len(steps), w.plan>>)]
             /\ TransferSure(ran, e, Returned(<<Len(steps), w.plan>>))
<1> DEFINE waits == {d.recorded[w.slot].compute_done}
           z == NewOp("compute_to_storage", w, waits)
           e == EnqueueComputeToStorage(d, w)
<1>1. waits \in SUBSET OpId
  BY EventFacts, WorkFacts
<1>2. e.transfer = Append(d.transfer, z) /\ e.caller = d.caller
      /\ e.recorded = [d.recorded EXCEPT ![w.slot].done = Id(z)]
  BY DEF EnqueueComputeToStorage, FitDevice
<1>3. Computed(<<Len(steps), w.plan>>) \in waits
  OBVIOUS
<1> HIDE DEF waits
<1>4. /\ z \in Op /\ z.kind = "compute_to_storage" /\ z.waits = waits /\ z.slot = w.slot
      /\ z.step = Len(steps) /\ z.plan = w.plan
      /\ Id(z) = <<"compute_to_storage", Len(steps), w.plan>> /\ OpOf(steps, z)
  BY <1>1, WorkOp DEF Kinds
<1>5. Id(z) = Returned(<<Len(steps), w.plan>>)
  BY <1>4 DEF Returned
<1>6. DOMAIN steps \subseteq Nat /\ e \in FitDevice
  BY WorkFacts, ReturnFacts
<1> HIDE DEF z, e
<1>7. TransferMayQueue(ran, d.caller, d.transfer, steps, z)
  BY <1>3, <1>4, <1>5 DEF TransferMayQueue, TransferKinds, Has
<1>8. Grows(d, e, {Id(z)}) /\ TransferSure(ran, e, Id(z))
  BY <1>2, <1>4, <1>6, <1>7, TransferGrows
<1> QED BY <1>2, <1>5, <1>8 DEF e

\* The wait for a bucket's return.
LEMMA ReleaseGrows ==
  ASSUME IInv, Running(host), NEW w \in Work, InItsSlot(w), NEW d \in FitDevice, OrderOf(d),
         ~Has(ran, d, Released(<<Len(steps), w.plan>>)),
         d.recorded[w.slot].done = Returned(<<Len(steps), w.plan>>)
  PROVE  LET e == Release(d, w)
         IN  /\ Grows(d, e, {Released(<<Len(steps), w.plan>>)})
             /\ e.recorded = d.recorded
             /\ CallerSure(ran, e, Returned(<<Len(steps), w.plan>>))
<1> DEFINE waits == {d.recorded[w.slot].done}
           z == NewOp("release", w, waits)
           e == Release(d, w)
<1>1. waits \in SUBSET OpId
  BY EventFacts, WorkFacts
<1>2. e.caller = Append(d.caller, z) /\ e.transfer = d.transfer /\ e.recorded = d.recorded
  BY DEF Release, FitDevice
<1>3. Returned(<<Len(steps), w.plan>>) \in waits
  OBVIOUS
<1> HIDE DEF waits
<1>4. /\ z \in Op /\ z.kind = "release" /\ z.waits = waits
      /\ Id(z) = <<"release", Len(steps), w.plan>> /\ OpOf(steps, z)
  BY <1>1, WorkOp DEF Kinds
<1>5. Id(z) = Released(<<Len(steps), w.plan>>)
  BY <1>4 DEF Released
<1>6. DOMAIN steps \subseteq Nat /\ e \in FitDevice
  BY WorkFacts, ReturnFacts
<1> HIDE DEF z, e
<1>7. CallerMayQueue(ran, d.caller, d.transfer, steps, z)
  BY <1>4, <1>5 DEF CallerMayQueue, CallerKinds, Has
<1>8. Grows(d, e, {Id(z)}) /\ \A x \in waits : CallerSure(ran, e, x)
  BY <1>2, <1>4, <1>6, <1>7, CallerGrows
<1> QED BY <1>2, <1>3, <1>5, <1>8 DEF e
\* A local bucket.
LEMMA LocalGrows ==
  ASSUME IInv, Running(host), host.plan_index \in DOMAIN plans, plans[host.plan_index].local,
         OrderOf(device),
         ~Has(ran, device, Local(<<Len(steps), host.plan_index>>)),
         CallerSure(ran, device, Backward(Len(steps)))
  PROVE  LET e == LocalBucket(device, host.plan_index)
         IN  e \in FitDevice =>
               /\ Grows(device, e, {Local(<<Len(steps), host.plan_index>>)})
               /\ e.recorded = device.recorded
               /\ CallerSure(ran, e, Local(<<Len(steps), host.plan_index>>))
<1> DEFINE i == host.plan_index
           w == [plan |-> i, slot |-> LocalSlot]
           z == NewOp("local", w, {})
           e == LocalBucket(device, i)
<1> SUFFICES ASSUME e \in FitDevice
             PROVE  /\ Grows(device, e, {Local(<<Len(steps), i>>)})
                    /\ e.recorded = device.recorded
                    /\ CallerSure(ran, e, Local(<<Len(steps), i>>))
  OBVIOUS
<1>1. /\ device \in FitDevice /\ i \in Nat /\ Len(steps) \in Nat \ {0}
      /\ DOMAIN steps = 1 .. Len(steps)
  BY RunningFacts, HostFacts
<1>2. w \in [plan : Nat, slot : Slot \cup {LocalSlot}] /\ w.plan = i
  BY <1>1
<1>3. e.caller = Append(device.caller, z) /\ e.transfer = device.transfer
      /\ e.recorded = device.recorded
  BY <1>1 DEF LocalBucket, FitDevice
<1> HIDE DEF w
<1>4. z \in Op /\ z.kind = "local" /\ z.step = Len(steps) /\ Id(z) = <<"local", Len(steps), i>>
  BY <1>1, <1>2, NewOpFacts DEF Kinds, NewOp, Id
<1>5. Id(z) = Local(<<Len(steps), i>>)
  BY <1>4 DEF Local
<1>6. DOMAIN steps \subseteq Nat /\ Len(steps) \in DOMAIN steps
  BY <1>1
<1> HIDE DEF z, e
<1>7. CallerMayQueue(ran, device.caller, device.transfer, steps, z)
  BY <1>4, <1>5, <1>6 DEF CallerMayQueue, CallerKinds, Has, CallerSure, OpOf
<1>8. Grows(device, e, {Id(z)}) /\ CallerSure(ran, e, Id(z))
  BY <1>1, <1>3, <1>4, <1>6, <1>7, CallerGrows
<1> QED BY <1>3, <1>5, <1>8

\* The streams' waits.
IsWait(x) == \E n \in Nat : x = <<"wait", n, 0>>

LEMMA WaitOp ==
  ASSUME Len(steps) \in Nat, DOMAIN steps = 1 .. Len(steps), NEW waits \in SUBSET OpId
  PROVE  LET z == NewOp("wait", [plan |-> 0, slot |-> LocalSlot], waits)
         IN  z \in Op /\ z.kind = "wait" /\ z.waits = waits /\ IsWait(Id(z))
<1> DEFINE w == [plan |-> 0, slot |-> LocalSlot]
<1>1. w \in [plan : Nat, slot : Slot \cup {LocalSlot}] /\ w.plan = 0
  OBVIOUS
<1> HIDE DEF w
<1>2. NewOp("wait", w, waits) \in Op
  BY <1>1, NewOpFacts DEF Kinds
<1>3. LET z == NewOp("wait", w, waits)
      IN  z.kind = "wait" /\ z.waits = waits /\ IsWait(Id(z))
  BY <1>1 DEF NewOp, Id, IsWait
<1> QED BY <1>2, <1>3 DEF w

LEMMA TransferWaitGrows ==
  ASSUME NEW d \in FitDevice, OrderOf(d), Len(steps) \in Nat, DOMAIN steps = 1 .. Len(steps)
  PROVE  LET e == TransferWaitsCaller(d)
         IN  /\ \E y : IsWait(y) /\ Grows(d, e, {y})
             /\ e.recorded = d.recorded /\ e.caller = d.caller
             /\ \E z \in Op : z.kind = "wait" /\ z.waits = Queued(d.caller)
                              /\ e.transfer = Append(d.transfer, z)
             /\ \A x : In(d.caller, x) => TransferSure(ran, e, x)
<1> DEFINE z == NewOp("wait", [plan |-> 0, slot |-> LocalSlot], Queued(d.caller))
           e == TransferWaitsCaller(d)
<1>1. Queued(d.caller) \in SUBSET OpId
  BY QueuedFacts DEF FitDevice
<1>2. z \in Op /\ z.kind = "wait" /\ z.waits = Queued(d.caller) /\ IsWait(Id(z))
  BY <1>1, WaitOp
<1>3. e.transfer = Append(d.transfer, z) /\ e.caller = d.caller /\ e.recorded = d.recorded
  BY DEF TransferWaitsCaller, FitDevice
<1>4. e \in FitDevice /\ DOMAIN steps \subseteq Nat
  BY WaitFacts
<1> HIDE DEF z, e
<1>5. TransferMayQueue(ran, d.caller, d.transfer, steps, z)
  BY <1>2 DEF TransferMayQueue, TransferKinds, OpOf
<1>6. Grows(d, e, {Id(z)}) /\ \A x \in z.waits : TransferSure(ran, e, x)
  BY <1>2, <1>3, <1>4, <1>5, TransferGrows
<1>7. \A x : In(d.caller, x) => x \in Queued(d.caller)
  BY DEF In, Queued
<1> QED BY <1>2, <1>3, <1>6, <1>7 DEF e

LEMMA CallerWaitGrows ==
  ASSUME NEW d \in FitDevice, OrderOf(d), Len(steps) \in Nat, DOMAIN steps = 1 .. Len(steps)
  PROVE  LET e == CallerWaitsTransfer(d)
         IN  /\ \E y : IsWait(y) /\ Grows(d, e, {y})
             /\ e.transfer = d.transfer
             /\ \E z \in Op : z.kind = "wait" /\ z.waits = Queued(d.transfer)
                              /\ e.caller = Append(d.caller, z)
<1> DEFINE z == NewOp("wait", [plan |-> 0, slot |-> LocalSlot], Queued(d.transfer))
           e == CallerWaitsTransfer(d)
<1>1. Queued(d.transfer) \in SUBSET OpId
  BY QueuedFacts DEF FitDevice
<1>2. z \in Op /\ z.kind = "wait" /\ z.waits = Queued(d.transfer) /\ IsWait(Id(z))
  BY <1>1, WaitOp
<1>3. e.caller = Append(d.caller, z) /\ e.transfer = d.transfer
  BY DEF CallerWaitsTransfer, FitDevice
<1>4. e \in FitDevice /\ DOMAIN steps \subseteq Nat
  BY WaitFacts
<1> HIDE DEF z, e
<1>5. CallerMayQueue(ran, d.caller, d.transfer, steps, z)
  BY <1>2 DEF CallerMayQueue, CallerKinds, OpOf
<1>6. Grows(d, e, {Id(z)})
  BY <1>2, <1>3, <1>4, <1>5, CallerGrows
<1> QED BY <1>2, <1>3, <1>6 DEF e

\* Nothing of a plan is a wait, or a backward, or another of its operations.
LEMMA Names ==
  ASSUME NEW a \in Nat \X Nat, NEW b \in Nat \X Nat, NEW n \in Nat, NEW y
  PROVE  /\ Brought(a) = Brought(b) <=> a = b
         /\ Computed(a) = Computed(b) <=> a = b
         /\ Returned(a) = Returned(b) <=> a = b
         /\ Released(a) = Released(b) <=> a = b
         /\ Local(a) = Local(b) <=> a = b
         /\ Brought(a) \notin {Computed(b), Returned(b), Released(b), Local(b), Backward(n)}
         /\ Computed(a) \notin {Brought(b), Returned(b), Released(b), Local(b), Backward(n)}
         /\ Returned(a) \notin {Brought(b), Computed(b), Released(b), Local(b), Backward(n)}
         /\ Released(a) \notin {Brought(b), Computed(b), Returned(b), Local(b), Backward(n)}
         /\ Local(a) \notin {Brought(b), Computed(b), Returned(b), Released(b), Backward(n)}
         /\ IsWait(y) =>
              y \notin {Brought(a), Computed(a), Returned(a), Released(a), Local(a), Backward(n)}
<1>1. a = <<a[1], a[2]>> /\ b = <<b[1], b[2]>>
  OBVIOUS
<1> QED BY <1>1 DEF Brought, Computed, Returned, Released, Local, Backward, IsWait
-----------------------------------------------------------------------------
(* Each action preserves the order: run() *)

LEMMA GrowsAgain ==
  ASSUME NEW d, NEW e, NEW f, NEW X, NEW Y, Grows(d, e, X), Grows(e, f, Y)
  PROVE  Grows(d, f, X \cup Y)
BY DEF Grows

LEMMA GrowsNot ==
  ASSUME NEW d \in FitDevice, OrderOf(d)
  PROVE  Grows(d, d, {})
BY DEF Grows

\* An operation of a bucket of the current step.
OfStep(y) ==
  \E p \in Nat : LET a == <<Len(steps), p>>
                 IN  y \in {Brought(a), Computed(a), Local(a), Returned(a), Released(a)}

LEMMA OfStepsGrows ==
  ASSUME NEW d, NEW e, NEW X, OfSteps(d, ran, steps), Grows(d, e, X),
         Len(steps) \in Nat \ {0}, DOMAIN steps = 1 .. Len(steps),
         \A y \in X : IsWait(y) \/ OfStep(y)
  PROVE  OfSteps(e, ran, steps)
<1>1. \A x : Has(ran, e, x) <=> Has(ran, d, x) \/ x \in X
  BY DEF Grows
<1>2. Len(steps) \in DOMAIN steps
  OBVIOUS
<1>3. ASSUME NEW a \in Nat \X Nat,
             NEW x \in {Brought(a), Computed(a), Local(a), Returned(a), Released(a)}, x \in X
      PROVE  a[1] \in DOMAIN steps
  <2>1. ~IsWait(x)
    BY Names
  <2>2. PICK p \in Nat : LET b == <<Len(steps), p>>
                         IN  x \in {Brought(b), Computed(b), Local(b), Returned(b), Released(b)}
    BY <1>3, <2>1 DEF OfStep
  <2>3. <<Len(steps), p>> \in Nat \X Nat
    OBVIOUS
  <2>4. a = <<Len(steps), p>>
    BY <2>2, <2>3, Names
  <2> QED BY <1>2, <2>4
<1>4. ASSUME NEW n \in Nat, Backward(n) \in X PROVE FALSE
  <2>1. <<0, 0>> \in Nat \X Nat
    OBVIOUS
  <2>2. ~IsWait(Backward(n))
    BY <2>1, Names
  <2>3. PICK p \in Nat : LET b == <<Len(steps), p>>
                         IN  Backward(n) \in {Brought(b), Computed(b), Local(b), Returned(b), Released(b)}
    BY <1>4, <2>2 DEF OfStep
  <2>4. <<Len(steps), p>> \in Nat \X Nat
    OBVIOUS
  <2> QED BY <2>3, <2>4, Names
<1> QED BY <1>1, <1>3, <1>4 DEF OfSteps

\* What a return queued on the transfer stream, and a backward on the caller's, say.
LEMMA QueuedSure ==
  ASSUME NEW d, OrderOf(d), NEW a \in Nat \X Nat, NEW n \in Nat
  PROVE  /\ Has(ran, d, Returned(a)) => TransferSure(ran, d, Returned(a))
         /\ Has(ran, d, Backward(n)) => Backward(n) \in ran \/ In(d.caller, Backward(n))
<1>1. /\ \A i \in DOMAIN d.caller : d.caller[i].kind \in CallerKinds
      /\ \A i \in DOMAIN d.transfer : d.transfer[i].kind \in TransferKinds
  BY DEF OrderOf, Core, Queues
<1>2. ~In(d.caller, Returned(a)) /\ ~In(d.transfer, Backward(n))
  BY <1>1 DEF In, Id, Returned, Backward, CallerKinds, TransferKinds
<1>3. In(d.transfer, Returned(a)) => TransferSure(ran, d, Returned(a))
  BY DEF In, TransferSure, Sure
<1>4. Returned(a) \in ran => TransferSure(ran, d, Returned(a))
  BY DEF TransferSure, Sure
<1> QED BY <1>2, <1>3, <1>4 DEF Has, Known

\* While run() is under way.
LEMMA OrderFacts ==
  ASSUME IInv, OInv, Running(host)
  PROVE  /\ OrderOf(device) /\ OfSteps(device, ran, steps) /\ SeenTo(host, device, ran, steps)
         /\ OwnQueued(host, ran, device, Len(steps)) /\ InHand(host, device, Len(steps))
         /\ host.transferring => TransferSure(ran, device, Backward(Len(steps)))
         /\ CallerSure(ran, device, Backward(Len(steps)))
         /\ Backward(Len(steps)) \in ran \/ In(device.caller, Backward(Len(steps)))
<1>1. OrderOf(device)
  BY DEF OInv, OrderOf, Core
<1>2. /\ OfSteps(device, ran, steps) /\ SeenTo(host, device, ran, steps)
      /\ OwnQueued(host, ran, device, Len(steps)) /\ InHand(host, device, Len(steps))
      /\ host.transferring => TransferSure(ran, device, Backward(Len(steps)))
  BY DEF OInv, Progress, Running
<1>3. Len(steps) \in Nat /\ Len(steps) \in DOMAIN steps
  BY RunningFacts
<1>4. Backward(Len(steps)) \in ran \/ In(device.caller, Backward(Len(steps)))
  <2>1. <<0, 0>> \in Nat \X Nat
    OBVIOUS
  <2>2. Has(ran, device, Backward(Len(steps)))
    BY <1>2, <1>3 DEF OfSteps
  <2> QED BY <1>1, <1>3, <2>1, <2>2, QueuedSure
<1>5. CallerSure(ran, device, Backward(Len(steps)))
  BY <1>4 DEF CallerSure, Sure, In
<1> QED BY <1>1, <1>2, <1>4, <1>5

\* The parts of the invariant after a step.
LEMMA OrderAfter ==
  ASSUME Running(host') => plans' = plans,
         Core(ran', device'.caller, device'.transfer, steps'),
         ExchangeHeld(ran', exchange', steps'),
         Progress(host', device', ran', steps'),
         host'.at = "raised" /\ host'.transferring =>
           Closed(device'.caller, device'.transfer) /\ Closed(device'.transfer, device'.caller)
  PROVE  OInv'
<1>1. Progress(host, device, ran, steps)' <=> Progress(host', device', ran', steps')
  BY DEF Progress, OfSteps, SeenTo, OwnQueued, InHand, Has, CallerSure, TransferSure, Running,
         Unreturned, Unreleased, IsPrevious, InItsSlot, SlotOf, RedistributedBefore, Known, Sure,
         In, Updated, IsLocal, BucketsOf
<1>2. /\ Queues(device'.caller, device'.transfer, steps')
      /\ Fresh(ran', device'.caller) /\ Fresh(ran', device'.transfer)
      /\ Ordered(ran', device'.caller, device'.transfer, steps')
  BY DEF Core
<1>3. /\ Queues(device.caller, device.transfer, steps)' <=>
           Queues(device'.caller, device'.transfer, steps')
      /\ Fresh(ran, device.caller)' <=> Fresh(ran', device'.caller)
      /\ Fresh(ran, device.transfer)' <=> Fresh(ran', device'.transfer)
  BY DEF Queues, Fresh, BucketsOf, IsLocal, SlotIn, SlotOf, RedistributedBefore
<1>4. Ordered(ran, device.caller, device.transfer, steps)' <=>
        Ordered(ran', device'.caller, device'.transfer, steps')
  BY DEF Ordered, SlotOrder, After, BucketsOf, IsLocal, SlotIn, SlotOf, RedistributedBefore, Updated
<1>5. ExchangeHeld(ran, exchange, steps)' <=> ExchangeHeld(ran', exchange', steps')
  BY DEF ExchangeHeld, BucketsOf, IsLocal, SlotIn, SlotOf, RedistributedBefore
<1>6. /\ Closed(device.caller, device.transfer)' <=> Closed(device'.caller, device'.transfer)
      /\ Closed(device.transfer, device.caller)' <=> Closed(device'.transfer, device'.caller)
  BY DEF Closed
<1> QED BY <1>1, <1>2, <1>3, <1>4, <1>5, <1>6 DEF OInv

\* A step of run() that keeps the order of the queues and its progress.
LEMMA HostOrder ==
  ASSUME OInv, UNCHANGED <<plans, ran, exchange, steps>>, OrderOf(device'),
         Progress(host', device', ran, steps),
         host'.at = "raised" /\ host'.transferring =>
           Closed(device'.caller, device'.transfer) /\ Closed(device'.transfer, device'.caller)
  PROVE  OInv'
<1>1. /\ plans' = plans /\ ran' = ran /\ exchange' = exchange /\ steps' = steps
  OBVIOUS
<1>2. Core(ran', device'.caller, device'.transfer, steps')
  BY <1>1 DEF OrderOf
<1>3. ExchangeHeld(ran', exchange', steps')
  BY <1>1 DEF OInv
<1> QED BY <1>1, <1>2, <1>3, OrderAfter

LEMMA RunLocalBucketOrders == IInv /\ OInv /\ RunLocalBucket => OInv'
<1> SUFFICES ASSUME IInv, OInv, RunLocalBucket PROVE OInv'
  OBVIOUS
<1> DEFINE i == host.plan_index
           n == Len(steps)
           x == Local(<<n, i>>)
           e == LocalBucket(device, i)
<1>1. /\ Running(host) /\ host.at = "bucket" /\ i <= Len(plans) /\ plans[i].local
      /\ UNCHANGED <<plans, reserved, steps, ran, exchange>>
      /\ device' = e
      /\ host' = [host EXCEPT !.plan_index = @ + 1, !.next_plan_to_prefetch = i + 1]
  BY DEF RunLocalBucket, AtBucket, Running
<1>2. /\ i \in DOMAIN plans /\ i \in Nat /\ i >= 1 /\ n \in Nat \ {0} /\ DOMAIN steps = 1 .. n
      /\ <<n, i>> \in Nat \X Nat /\ plans = steps[n]
  BY <1>1, RunningFacts, HostFacts DEF Window
<1>3. host.prefetched = <<>> /\ host.next_plan_to_prefetch = i
  <2>1. /\ host.next_plan_to_prefetch = i + Len(host.prefetched)
        /\ \A k \in DOMAIN host.prefetched : host.prefetched[k].plan = i + k - 1 /\ InItsSlot(host.prefetched[k])
    BY <1>1, RunningFacts DEF Window, FirstLeft
  <2>2. host.prefetched = <<>>
    <3> SUFFICES ASSUME host.prefetched # <<>> PROVE FALSE
      OBVIOUS
    <3>1. 1 \in DOMAIN host.prefetched
      BY <1>1, RunningFacts, HostFacts
    <3>2. host.prefetched[1].plan = i
      BY <1>2, <2>1, <3>1
    <3> QED BY <1>1, <2>1, <3>1, <3>2 DEF InItsSlot
  <2>3. Len(host.prefetched) = 0
    BY <2>2, EmptySeq
  <2> QED BY <1>2, <2>1, <2>2, <2>3
<1>4. /\ host'.at = "bucket" /\ host'.plan_index = i + 1 /\ host'.next_plan_to_prefetch = i + 1
      /\ host'.previous = host.previous /\ host'.prefetched = <<>>
      /\ host'.transferring = host.transferring
  BY <1>1, <1>3, RunningFacts DEF Host
<1>5. /\ OrderOf(device) /\ OfSteps(device, ran, steps) /\ SeenTo(host, device, ran, steps)
      /\ OwnQueued(host, ran, device, n) /\ InHand(host, device, n)
      /\ host.transferring => TransferSure(ran, device, Backward(n))
      /\ CallerSure(ran, device, Backward(n))
  BY <1>1, OrderFacts
<1>6. e \in FitDevice
  <2>1. device' \in FitDevice'
    BY RunLocalBucketPreserves DEF IInv
  <2> QED BY <1>1, <2>1 DEF FitDevice, FitOp, Fits
<1>7. ~Has(ran, device, x)
  BY <1>2, <1>5 DEF OwnQueued
<1>8. Grows(device, e, {x}) /\ e.recorded = device.recorded /\ CallerSure(ran, e, x)
  BY <1>1, <1>2, <1>5, <1>6, <1>7, LocalGrows
<1> HIDE DEF e, x
<1>9. /\ \A y : Has(ran, e, y) <=> Has(ran, device, y) \/ y = x
      /\ \A y : CallerSure(ran, device, y) => CallerSure(ran, e, y)
      /\ \A y : TransferSure(ran, device, y) => TransferSure(ran, e, y)
      /\ OrderOf(e)
  BY <1>8 DEF Grows
<1>10. OfSteps(e, ran, steps)
  <2>1. OfStep(x)
    BY <1>2 DEF OfStep, x
  <2> QED BY <1>2, <1>5, <1>8, <2>1, OfStepsGrows
<1>11. SeenTo(host', e, ran, steps)
  <2> SUFFICES ASSUME NEW a \in BucketsOf(steps)
               PROVE  /\ Has(ran, e, Brought(a)) => Has(ran, e, Returned(a)) \/ Unreturned(host', n, a)
                      /\ CallerSure(ran, e, Updated(steps, a)) \/ Unreleased(host', n, a)
    BY DEF SeenTo
  <2>1. a \in Nat \X Nat /\ a[1] \in Nat /\ a[2] \in Nat
    BY DEF BucketsOf
  <2>2. Brought(a) # x /\ Returned(a) # x
    BY <1>2, <2>1, Names DEF x
  <2>3. /\ Unreturned(host, n, a) /\ a # <<n, i>> => Unreturned(host', n, a)
        /\ Unreleased(host, n, a) /\ a # <<n, i>> => Unreleased(host', n, a)
    BY <1>1, <1>2, <1>4, <2>1 DEF Unreturned, Unreleased, Running, IsPrevious
  <2>4. CASE a = <<n, i>>
    <3>1. Updated(steps, a) = x
      BY <1>1, <1>2, <2>4 DEF Updated, IsLocal, x
    <3>2. ~Has(ran, device, Brought(a))
      BY <1>2, <1>3, <1>5, <2>4 DEF OwnQueued
    <3> QED BY <1>8, <1>9, <2>2, <3>1, <3>2
  <2>5. CASE a # <<n, i>>
    BY <1>5, <1>9, <2>2, <2>3, <2>5 DEF SeenTo
  <2> QED BY <2>4, <2>5
<1>12. OwnQueued(host', ran, e, n)
  <2> SUFFICES ASSUME NEW p \in Nat
               PROVE  /\ Has(ran, e, Brought(<<n, p>>)) => p < i + 1
                      /\ Has(ran, e, Computed(<<n, p>>)) => p < i + 1
                      /\ Has(ran, e, Local(<<n, p>>)) => p < i + 1
                      /\ Has(ran, e, Returned(<<n, p>>)) => p < i + 1 /\ ~IsPrevious(host, p)
                      /\ Has(ran, e, Released(<<n, p>>)) => p < i + 1 /\ ~IsPrevious(host, p)
    BY <1>4 DEF OwnQueued, IsPrevious
  <2>1. <<n, p>> \in Nat \X Nat
    BY <1>2
  <2>2. /\ Brought(<<n, p>>) # x /\ Computed(<<n, p>>) # x /\ Returned(<<n, p>>) # x
        /\ Released(<<n, p>>) # x /\ (Local(<<n, p>>) = x => p = i)
    BY <1>2, <2>1, Names DEF x
  <2> QED BY <1>1, <1>2, <1>3, <1>5, <1>9, <2>2 DEF OwnQueued
<1>13. InHand(host', e, n)
  <2>1. DOMAIN host'.prefetched = {}
    BY <1>4
  <2>2. host.previous # <<>> => host.previous[1].plan \in Nat
    BY <1>1, RunningFacts, HostFacts DEF Work
  <2> QED BY <1>1, <1>2, <1>4, <1>5, <1>8, <2>1, <2>2 DEF InHand
<1>14. Progress(host', device', ran, steps)
  BY <1>1, <1>4, <1>5, <1>9, <1>10, <1>11, <1>12, <1>13 DEF Progress
<1> QED BY <1>1, <1>4, <1>9, <1>14, HostOrder
LEMMA EndBucketOrders == IInv /\ OInv /\ EndBucket => OInv'
<1> SUFFICES ASSUME IInv, OInv, EndBucket PROVE OInv'
  OBVIOUS
<1> DEFINE i == host.plan_index
           n == Len(steps)
<1>1. /\ Running(host) /\ host.at = "prefetch"
      /\ UNCHANGED <<plans, reserved, steps, ran, exchange, device>>
      /\ host' = [host EXCEPT !.at = "bucket", !.plan_index = @ + 1]
  BY DEF EndBucket, Running
<1>2. i \in Nat /\ host.next_plan_to_prefetch \in Nat
  BY <1>1, RunningFacts, HostFacts
<1>3. /\ host'.at = "bucket" /\ host'.plan_index = i + 1 /\ host'.previous = host.previous
      /\ host'.prefetched = host.prefetched /\ host'.transferring = host.transferring
      /\ host'.next_plan_to_prefetch = host.next_plan_to_prefetch
  BY <1>1, RunningFacts DEF Host
<1>4. /\ OrderOf(device) /\ OfSteps(device, ran, steps) /\ SeenTo(host, device, ran, steps)
      /\ OwnQueued(host, ran, device, n) /\ InHand(host, device, n)
      /\ host.transferring => TransferSure(ran, device, Backward(n))
  BY <1>1, OrderFacts
<1>5. host.previous # <<>> /\ host.previous[1].plan = i
  BY <1>1, <1>4 DEF InHand
<1>6. SeenTo(host', device, ran, steps)
  <2> SUFFICES ASSUME NEW a \in BucketsOf(steps)
               PROVE  /\ Unreturned(host, n, a) => Unreturned(host', n, a)
                      /\ Unreleased(host, n, a) => Unreleased(host', n, a)
    BY <1>4 DEF SeenTo
  <2>1. a[2] \in Nat
    BY DEF BucketsOf
  <2> QED BY <1>1, <1>2, <1>3, <1>5, <2>1 DEF Unreturned, Unreleased, Running, IsPrevious
<1>7. OwnQueued(host', ran, device, n)
  BY <1>1, <1>2, <1>3, <1>4, <1>5 DEF OwnQueued, IsPrevious
<1>8. InHand(host', device, n)
  BY <1>1, <1>2, <1>3, <1>4, <1>5 DEF InHand
<1>9. Progress(host', device', ran, steps)
  BY <1>1, <1>3, <1>4, <1>6, <1>7, <1>8 DEF Progress
<1> QED BY <1>1, <1>3, <1>4, <1>9, HostOrder

LEMMA ComputeRedistributedBucketOrders ==
  IInv /\ OInv /\ ComputeRedistributedBucket => OInv'
<1> SUFFICES ASSUME IInv, OInv, ComputeRedistributedBucket PROVE OInv'
  OBVIOUS
<1> DEFINE i == host.plan_index
           n == Len(steps)
           w == host.work[1]
           v == host.previous[1]
           b == <<n, v.plan>>
           d == ComputeBucket(device, w)
           X == {Computed(<<n, i>>)} \cup (IF host.previous = <<>> THEN {} ELSE {Released(b)})
<1>1. /\ Running(host) /\ host.at = "compute"
      /\ UNCHANGED <<plans, reserved, steps, ran, exchange>>
      /\ device' = IF host.previous = <<>> THEN d ELSE Release(d, v)
      /\ host' = [host EXCEPT !.at = "prefetch", !.previous = host.work,
                              !.work = <<>>, !.redistributed_index = @ + 1]
  BY DEF ComputeRedistributedBucket, Running
<1>2. /\ i \in Nat /\ host.next_plan_to_prefetch \in Nat /\ n \in Nat \ {0}
      /\ DOMAIN steps = 1 .. n /\ <<n, i>> \in Nat \X Nat /\ device \in FitDevice
  BY <1>1, RunningFacts, HostFacts
<1>3. /\ host'.at = "prefetch" /\ host'.plan_index = i /\ host'.previous = host.work
      /\ host'.prefetched = host.prefetched /\ host'.transferring = host.transferring
      /\ host'.next_plan_to_prefetch = host.next_plan_to_prefetch
  BY <1>1, RunningFacts DEF Host
<1>4. /\ OrderOf(device) /\ OfSteps(device, ran, steps) /\ SeenTo(host, device, ran, steps)
      /\ OwnQueued(host, ran, device, n) /\ InHand(host, device, n)
      /\ host.transferring => TransferSure(ran, device, Backward(n))
  BY <1>1, OrderFacts
<1>5. /\ w \in Work /\ InItsSlot(w) /\ host.work # <<>> /\ w.plan = i /\ w.slot \in Slot
      /\ device.recorded[w.slot].compute_input_ready = Brought(<<n, i>>)
  <2>1. Len(host.work) = 1 /\ InItsSlot(w)
    BY <1>1, RunningFacts DEF Window
  <2>2. w \in Work
    BY <1>1, <2>1, RunningFacts, HostFacts
  <2>3. host.work # <<>>
    BY <2>1, EmptySeq
  <2>4. w.plan = i /\ device.recorded[w.slot].compute_input_ready = Brought(<<n, w.plan>>)
    BY <1>1, <1>4 DEF InHand
  <2> QED BY <2>1, <2>2, <2>3, <2>4 DEF Work
<1>6. ~Has(ran, device, Computed(<<n, i>>))
  BY <1>1, <1>2, <1>4 DEF OwnQueued
<1>7. /\ Grows(device, d, {Computed(<<n, i>>)})
      /\ d.recorded = [device.recorded EXCEPT ![w.slot].compute_done = Computed(<<n, i>>)]
  BY <1>1, <1>2, <1>4, <1>5, <1>6, ComputeGrows
<1>8. device.recorded \in [Slot -> Events]
  BY <1>2, FitQueues
<1>9. /\ d.recorded[w.slot].compute_done = Computed(<<n, i>>)
      /\ \A s \in Slot : /\ d.recorded[s].done = device.recorded[s].done
                         /\ d.recorded[s].compute_input_ready = device.recorded[s].compute_input_ready
  <2>1. device.recorded[w.slot] \in Events /\ DOMAIN device.recorded = Slot
    BY <1>5, <1>8
  <2> DEFINE f == [device.recorded[w.slot] EXCEPT !.compute_done = Computed(<<n, i>>)]
  <2>2. /\ f.compute_done = Computed(<<n, i>>)
        /\ f.done = device.recorded[w.slot].done
        /\ f.compute_input_ready = device.recorded[w.slot].compute_input_ready
    BY <2>1 DEF Events
  <2>3. d.recorded = [device.recorded EXCEPT ![w.slot] = f]
    BY <1>7
  <2> HIDE DEF d, f
  <2> QED BY <1>5, <2>1, <2>2, <2>3
<1> HIDE DEF d
<1>10. ASSUME host.previous # <<>>
       PROVE  /\ v \in Work /\ InItsSlot(v) /\ v.plan < i /\ v.plan \in Nat /\ b \in Nat \X Nat
              /\ b \in BucketsOf(steps) /\ Updated(steps, b) = Returned(b)
              /\ Grows(d, Release(d, v), {Released(b)})
              /\ Release(d, v).recorded = d.recorded
              /\ CallerSure(ran, Release(d, v), Returned(b))
  <2>1. v \in Work
    BY <1>1, <1>10, RunningFacts, HostFacts
  <2>2. InItsSlot(v) /\ v.plan < i /\ device.recorded[v.slot].done = Returned(b)
    BY <1>1, <1>4, <1>10 DEF InHand
  <2>3. v.plan \in Nat /\ v.slot \in Slot /\ b \in Nat \X Nat
    BY <1>2, <2>1 DEF Work
  <2>4. d.recorded[v.slot].done = Returned(b)
    BY <1>9, <2>2, <2>3
  <2>5. ~Has(ran, device, Released(b))
    BY <1>1, <1>4, <1>10, <2>3 DEF OwnQueued, IsPrevious
  <2>6. ~Has(ran, d, Released(b))
    <3>1. Released(b) # Computed(<<n, i>>)
      BY <1>2, <2>3, Names
    <3>2. Has(ran, d, Released(b)) <=>
            Has(ran, device, Released(b)) \/ Released(b) \in {Computed(<<n, i>>)}
      BY <1>7 DEF Grows
    <3> QED BY <2>5, <3>1, <3>2
  <2>7. d \in FitDevice /\ OrderOf(d)
    BY <1>7 DEF Grows
  <2>8. /\ Grows(d, Release(d, v), {Released(b)}) /\ Release(d, v).recorded = d.recorded
        /\ CallerSure(ran, Release(d, v), Returned(b))
    BY <1>1, <2>1, <2>2, <2>4, <2>6, <2>7, ReleaseGrows
  <2>9. b \in BucketsOf(steps) /\ Updated(steps, b) = Returned(b)
    BY <1>1, <2>1, <2>2, WorkFacts
  <2> QED BY <2>1, <2>2, <2>3, <2>8, <2>9
<1>11. /\ Grows(device, device', X) /\ device'.recorded = d.recorded
       /\ host.previous # <<>> => CallerSure(ran, device', Returned(b))
  <2>1. CASE host.previous = <<>>
    <3>1. device' = d /\ X = {Computed(<<n, i>>)}
      BY <1>1, <2>1
    <3> QED BY <1>7, <2>1, <3>1
  <2>2. CASE host.previous # <<>>
    <3>1. device' = Release(d, v) /\ X = {Computed(<<n, i>>)} \cup {Released(b)}
      BY <1>1, <2>2
    <3> QED BY <1>7, <1>10, <2>2, <3>1, GrowsAgain
  <2> QED BY <2>1, <2>2
<1>12. \A y \in X : y = Computed(<<n, i>>) \/ (host.previous # <<>> /\ y = Released(b))
  OBVIOUS
<1> HIDE DEF X
<1>13. /\ \A y : Has(ran, device', y) => Has(ran, device, y) \/ y \in X
       /\ \A y : Has(ran, device, y) => Has(ran, device', y)
       /\ \A y : CallerSure(ran, device, y) => CallerSure(ran, device', y)
       /\ \A y : TransferSure(ran, device, y) => TransferSure(ran, device', y)
       /\ OrderOf(device')
  BY <1>11 DEF Grows
<1>14. OfSteps(device', ran, steps)
  <2>1. OfStep(Computed(<<n, i>>)) /\ (host.previous # <<>> => OfStep(Released(b)))
    BY <1>2, <1>10 DEF OfStep
  <2> QED BY <1>2, <1>4, <1>11, <1>12, <2>1, OfStepsGrows
<1>15. SeenTo(host', device', ran, steps)
  <2> SUFFICES ASSUME NEW a \in BucketsOf(steps)
               PROVE  /\ Has(ran, device', Brought(a)) => Has(ran, device', Returned(a)) \/ Unreturned(host', n, a)
                      /\ CallerSure(ran, device', Updated(steps, a)) \/ Unreleased(host', n, a)
    BY DEF SeenTo
  <2>1. a \in Nat \X Nat /\ a[1] \in Nat /\ a[2] \in Nat /\ a = <<a[1], a[2]>>
    BY DEF BucketsOf
  <2>2. Brought(a) \notin X
    BY <1>2, <1>10, <1>12, <2>1, Names
  <2>3. Unreturned(host, n, a) => Unreturned(host', n, a)
    BY <1>1, <1>3 DEF Unreturned, Running
  <2>4. Unreleased(host, n, a) => Unreleased(host', n, a) \/ (host.previous # <<>> /\ a = b)
    BY <1>1, <1>3, <2>1 DEF Unreleased, Running, IsPrevious
  <2> QED BY <1>4, <1>10, <1>11, <1>13, <2>2, <2>3, <2>4 DEF SeenTo
<1>16. OwnQueued(host', ran, device', n)
  <2> SUFFICES ASSUME NEW p \in Nat
               PROVE  /\ Has(ran, device', Brought(<<n, p>>)) => p < host.next_plan_to_prefetch
                      /\ Has(ran, device', Computed(<<n, p>>)) => p < i \/ p = i
                      /\ Has(ran, device', Local(<<n, p>>)) => p < i
                      /\ Has(ran, device', Returned(<<n, p>>)) => p < i
                      /\ Has(ran, device', Released(<<n, p>>)) => p < i
    BY <1>3 DEF OwnQueued
  <2>1. <<n, p>> \in Nat \X Nat
    BY <1>2
  <2>2. /\ Brought(<<n, p>>) \notin X /\ Local(<<n, p>>) \notin X /\ Returned(<<n, p>>) \notin X
        /\ Computed(<<n, p>>) \in X => p = i
        /\ Released(<<n, p>>) \in X => p < i
    <3>1. /\ Brought(<<n, p>>) # Computed(<<n, i>>) /\ Local(<<n, p>>) # Computed(<<n, i>>)
          /\ Returned(<<n, p>>) # Computed(<<n, i>>) /\ Released(<<n, p>>) # Computed(<<n, i>>)
          /\ Computed(<<n, p>>) = Computed(<<n, i>>) => p = i
      BY <1>2, <2>1, Names
    <3>2. ASSUME host.previous # <<>>
          PROVE  /\ Brought(<<n, p>>) # Released(b) /\ Local(<<n, p>>) # Released(b)
                 /\ Returned(<<n, p>>) # Released(b) /\ Computed(<<n, p>>) # Released(b)
                 /\ Released(<<n, p>>) = Released(b) => p < i
      <4>1. b \in Nat \X Nat /\ v.plan < i
        BY <1>10, <3>2
      <4>2. Released(<<n, p>>) = Released(b) => <<n, p>> = b
        BY <2>1, <4>1, Names
      <4>3. <<n, p>> = b => p = v.plan
        OBVIOUS
      <4>4. /\ Brought(<<n, p>>) # Released(b) /\ Local(<<n, p>>) # Released(b)
            /\ Returned(<<n, p>>) # Released(b) /\ Computed(<<n, p>>) # Released(b)
        BY <2>1, <4>1, Names
      <4> QED BY <4>1, <4>2, <4>3, <4>4
    <3> QED BY <1>12, <3>1, <3>2
  <2> QED BY <1>1, <1>4, <1>13, <2>2 DEF OwnQueued
<1>17. InHand(host', device', n)
  <2>1. ASSUME NEW k \in DOMAIN host.prefetched
        PROVE  LET u == host.prefetched[k]
               IN  device'.recorded[u.slot].compute_input_ready = Brought(<<n, u.plan>>)
    <3>1. host.prefetched[k] \in Work
      BY <1>1, RunningFacts, HostFacts, ElementOfSeq
    <3>2. host.prefetched[k].slot \in Slot
      BY <3>1 DEF Work
    <3> QED BY <1>4, <1>9, <1>11, <3>2 DEF InHand
  <2>2. host.transferring
    BY <1>1, <1>4 DEF InHand
  <2>3. device'.recorded[w.slot].compute_done = Computed(<<n, w.plan>>)
    BY <1>5, <1>9, <1>11
  <2> HIDE DEF i, n, v
  <2> QED BY <1>3, <1>5, <2>1, <2>2, <2>3 DEF InHand
<1>18. Progress(host', device', ran, steps)
  BY <1>1, <1>3, <1>4, <1>13, <1>14, <1>15, <1>16, <1>17 DEF Progress
<1> QED BY <1>1, <1>3, <1>13, <1>18, HostOrder
\* The return of the previous bucket, if there is one.
PreviousBucket == <<Len(steps), host.previous[1].plan>>
ReturnedPrevious == IF host.previous = <<>> THEN {} ELSE {Returned(PreviousBucket)}

\* The previous bucket, between two buckets.
LEMMA PreviousFacts ==
  ASSUME IInv, OInv, host.at = "bucket", host.previous # <<>>
  PROVE  /\ host.previous[1] \in Work /\ InItsSlot(host.previous[1])
         /\ host.previous[1].plan \in Nat /\ host.previous[1].plan < host.plan_index
         /\ host.previous[1].slot \in Slot
         /\ PreviousBucket \in Nat \X Nat /\ PreviousBucket \in BucketsOf(steps)
         /\ ~IsLocal(steps, PreviousBucket)
         /\ host.previous[1].slot = SlotIn(steps, PreviousBucket)
         /\ Updated(steps, PreviousBucket) = Returned(PreviousBucket)
         /\ device.recorded[host.previous[1].slot].compute_done = Computed(PreviousBucket)
         /\ ~Has(ran, device, Returned(PreviousBucket))
         /\ ~Has(ran, device, Released(PreviousBucket))
<1> DEFINE v == host.previous[1]
<1>1. Running(host)
  BY DEF Running
<1>2. OwnQueued(host, ran, device, Len(steps)) /\ InHand(host, device, Len(steps))
  BY <1>1, OrderFacts
<1>3. v \in Work
  BY <1>1, RunningFacts, HostFacts
<1>4. /\ InItsSlot(v) /\ v.plan < host.plan_index
      /\ device.recorded[v.slot].compute_done = Computed(PreviousBucket)
  BY <1>2 DEF InHand, PreviousBucket
<1>5. v.plan \in Nat /\ v.slot \in Slot
  BY <1>3 DEF Work
<1>6. /\ PreviousBucket \in BucketsOf(steps) /\ v.slot = SlotIn(steps, PreviousBucket)
      /\ ~IsLocal(steps, PreviousBucket)
      /\ Updated(steps, PreviousBucket) = Returned(PreviousBucket)
  BY <1>1, <1>3, <1>4, WorkFacts DEF PreviousBucket
<1>7. ~Has(ran, device, Returned(PreviousBucket)) /\ ~Has(ran, device, Released(PreviousBucket))
  BY <1>2, <1>5 DEF OwnQueued, IsPrevious, PreviousBucket
<1> QED BY <1>3, <1>4, <1>5, <1>6, <1>7 DEF BucketsOf

LEMMA ReturnPreviousGrows ==
  ASSUME IInv, OInv, host.at = "bucket", NEW d \in FitDevice, OrderOf(d),
         \A s \in Slot : d.recorded[s].compute_done = device.recorded[s].compute_done,
         host.previous # <<>> => ~Has(ran, d, Returned(PreviousBucket))
  PROVE  LET e == ReturnPrevious(d)
         IN  /\ Grows(d, e, ReturnedPrevious)
             /\ \A s \in Slot : e.recorded[s].compute_input_ready = d.recorded[s].compute_input_ready
             /\ host.previous # <<>> =>
                  /\ TransferSure(ran, e, Returned(PreviousBucket))
                  /\ e.recorded[host.previous[1].slot].done = Returned(PreviousBucket)
<1> DEFINE v == host.previous[1]
           e == ReturnPrevious(d)
<1>1. Running(host)
  BY DEF Running
<1>2. CASE host.previous = <<>>
  BY <1>2, GrowsNot DEF ReturnPrevious, ReturnedPrevious
<1>3. CASE host.previous # <<>>
  <2>1. e = EnqueueComputeToStorage(d, v) /\ ReturnedPrevious = {Returned(PreviousBucket)}
    BY <1>3 DEF ReturnPrevious, ReturnedPrevious
  <2>2. /\ v \in Work /\ InItsSlot(v) /\ v.slot \in Slot
        /\ device.recorded[v.slot].compute_done = Computed(PreviousBucket)
    BY <1>3, PreviousFacts
  <2>3. d.recorded[v.slot].compute_done = Computed(PreviousBucket)
    BY <2>2
  <2>4. /\ Grows(d, e, ReturnedPrevious)
        /\ e.recorded = [d.recorded EXCEPT ![v.slot].done = Returned(PreviousBucket)]
        /\ TransferSure(ran, e, Returned(PreviousBucket))
    BY <1>1, <1>3, <2>1, <2>2, <2>3, ReturnGrows DEF PreviousBucket
  <2>5. d.recorded \in [Slot -> Events]
    BY FitQueues
  <2>6. /\ e.recorded[v.slot].done = Returned(PreviousBucket)
        /\ \A s \in Slot : e.recorded[s].compute_input_ready = d.recorded[s].compute_input_ready
    BY <2>2, <2>4, <2>5 DEF Events
  <2> QED BY <2>4, <2>6
<1> QED BY <1>2, <1>3

LEMMA EndStepOrders == IInv /\ OInv /\ EndStep => OInv'
<1> SUFFICES ASSUME IInv, OInv, EndStep PROVE OInv'
  OBVIOUS
<1> DEFINE n == Len(steps)
           v == host.previous[1]
           b == PreviousBucket
           d == ReturnPrevious(device)
           X == IF host.previous = <<>> THEN {} ELSE {Returned(b), Released(b)}
<1>1. /\ Running(host) /\ host.at = "bucket" /\ host.plan_index > Len(plans)
      /\ UNCHANGED <<plans, reserved, steps, ran, exchange>>
      /\ device' = IF host.previous = <<>> THEN device ELSE Release(d, v)
      /\ host' = [host EXCEPT !.at = "idle"]
  BY DEF EndStep, Running
<1>2. /\ host.plan_index \in Nat /\ n \in Nat \ {0} /\ DOMAIN steps = 1 .. n
      /\ device \in FitDevice /\ plans = steps[n] /\ DOMAIN plans = 1 .. Len(plans)
      /\ Len(plans) \in Nat
  BY <1>1, RunningFacts, HostFacts
<1>3. host'.at = "idle"
  BY <1>1, RunningFacts DEF Host
<1>4. OrderOf(device) /\ OfSteps(device, ran, steps) /\ SeenTo(host, device, ran, steps)
  BY <1>1, OrderFacts
<1>5. ASSUME host.previous # <<>>
      PROVE  /\ Grows(device, device', {Returned(b), Released(b)})
             /\ CallerSure(ran, device', Returned(b))
  <2>1. /\ v \in Work /\ InItsSlot(v) /\ b \in Nat \X Nat
        /\ ~Has(ran, device, Returned(b)) /\ ~Has(ran, device, Released(b))
    BY <1>1, <1>5, PreviousFacts
  <2>2. /\ Grows(device, d, {Returned(b)}) /\ d.recorded[v.slot].done = Returned(b)
    BY <1>1, <1>2, <1>4, <1>5, <2>1, ReturnPreviousGrows DEF ReturnedPrevious
  <2>3. ~Has(ran, d, Released(b)) /\ d \in FitDevice /\ OrderOf(d)
    BY <1>2, <2>1, <2>2, Names DEF Grows
  <2> HIDE DEF d
  <2>4. Grows(d, Release(d, v), {Released(b)}) /\ CallerSure(ran, Release(d, v), Returned(b))
    BY <1>1, <2>1, <2>2, <2>3, ReleaseGrows DEF PreviousBucket
  <2>5. device' = Release(d, v) /\ {Returned(b), Released(b)} = {Returned(b)} \cup {Released(b)}
    BY <1>1, <1>5
  <2> QED BY <2>2, <2>4, <2>5, GrowsAgain
<1>6. Grows(device, device', X)
  <2>1. CASE host.previous = <<>>
    BY <1>1, <1>2, <1>4, <2>1, GrowsNot
  <2>2. CASE host.previous # <<>>
    BY <1>5, <2>2
  <2> QED BY <2>1, <2>2
<1>7. \A y \in X : host.previous # <<>> /\ (y = Returned(b) \/ y = Released(b))
  OBVIOUS
<1>8. host.previous # <<>> => Returned(b) \in X /\ b \in Nat \X Nat /\ Updated(steps, b) = Returned(b)
  BY <1>1, PreviousFacts
<1> HIDE DEF X
<1>9. /\ \A y : Has(ran, device', y) <=> Has(ran, device, y) \/ y \in X
      /\ \A y : CallerSure(ran, device, y) => CallerSure(ran, device', y)
      /\ OrderOf(device')
  BY <1>6 DEF Grows
<1>10. OfSteps(device', ran, steps)
  <2>1. host.previous # <<>> => OfStep(Returned(b)) /\ OfStep(Released(b))
    BY <1>1, PreviousFacts DEF OfStep, PreviousBucket
  <2> QED BY <1>2, <1>4, <1>6, <1>7, <2>1, OfStepsGrows
<1>11. SeenTo(host', device', ran, steps)
  <2> SUFFICES ASSUME NEW a \in BucketsOf(steps)
               PROVE  /\ Has(ran, device', Brought(a)) => Has(ran, device', Returned(a))
                      /\ CallerSure(ran, device', Updated(steps, a))
    BY DEF SeenTo
  <2>1. /\ a \in Nat \X Nat /\ a[1] \in Nat /\ a[2] \in Nat /\ a = <<a[1], a[2]>>
        /\ a[2] \in DOMAIN steps[a[1]]
    BY DEF BucketsOf
  <2>2. Brought(a) \notin X
    BY <1>2, <1>7, <1>8, <2>1, Names
  <2>3. /\ Unreturned(host, n, a) => host.previous # <<>> /\ a = b
        /\ Unreleased(host, n, a) => host.previous # <<>> /\ a = b
    BY <1>1, <1>2, <2>1 DEF Unreturned, Unreleased, IsPrevious, PreviousBucket
  <2> QED BY <1>4, <1>5, <1>8, <1>9, <2>2, <2>3 DEF SeenTo
<1>12. Progress(host', device', ran, steps)
  BY <1>3, <1>10, <1>11 DEF Progress, Running
<1> QED BY <1>1, <1>3, <1>9, <1>12, HostOrder
\* Numbers closer than the modulus differ modulo it.
LEMMA ModuloApart ==
  ASSUME NEW m \in Nat \ {0}, NEW j \in Nat, NEW k \in Nat, j < k, k < j + m
  PROVE  j % m # k % m
<1> SUFFICES ASSUME j % m = k % m PROVE FALSE
  OBVIOUS
<1> DEFINE p == j \div m
           q == k \div m
           r == j % m
<1>1. j = m * p + r /\ k = m * q + r /\ p \in Int /\ q \in Int /\ r \in Int
  OBVIOUS
<1> HIDE DEF p, q, r
<1>2. m * (q - p) = k - j
  BY <1>1
<1>3. q - p >= 1 => m * (q - p) >= m
  BY <1>1
<1>4. q - p <= 0 => m * (q - p) <= 0
  BY <1>1
<1> QED BY <1>1, <1>2, <1>3, <1>4

\* The count of redistributed buckets grows along the list.
LEMMA RedistributedGrows ==
  ASSUME NEW list \in Seq(BucketPlan), NEW p \in 1 .. Len(list), NEW q \in 1 .. Len(list), p <= q
  PROVE  /\ RedistributedBefore(list, p) \in Nat /\ RedistributedBefore(list, q) \in Nat
         /\ RedistributedBefore(list, p) <= RedistributedBefore(list, q)
         /\ p < q /\ ~list[p].local => RedistributedBefore(list, p) < RedistributedBefore(list, q)
<1> DEFINE B(i) == {j \in 1 .. i - 1 : ~list[j].local}
<1>1. Len(list) \in Nat /\ p \in Nat /\ q \in Nat
  BY PlanFacts
<1>2. /\ RedistributedBefore(list, p) = Cardinality(B(p)) /\ RedistributedBefore(list, p) \in Nat
      /\ RedistributedBefore(list, q) = Cardinality(B(q)) /\ RedistributedBefore(list, q) \in Nat
  BY RedistributedFacts DEF RedistributedBefore
<1>3. IsFiniteSet(B(q)) /\ IsFiniteSet(B(p))
  <2>1. IsFiniteSet(1 .. q - 1) /\ IsFiniteSet(1 .. p - 1)
    <3>1. 1 \in Int /\ q - 1 \in Int /\ p - 1 \in Int
      BY <1>1
    <3> QED BY <3>1, FS_Interval
  <2>2. B(q) \subseteq 1 .. q - 1 /\ B(p) \subseteq 1 .. p - 1
    OBVIOUS
  <2> QED BY <2>1, <2>2, FS_Subset
<1>4. B(p) \subseteq B(q)
  BY <1>1
<1>5. p < q /\ ~list[p].local => B(p) \cup {p} \subseteq B(q) /\ p \notin B(p)
  BY <1>1
<1> HIDE DEF B
<1>6. Cardinality(B(p)) <= Cardinality(B(q))
  BY <1>3, <1>4, FS_Subset
<1>7. ASSUME p < q, ~list[p].local PROVE Cardinality(B(p)) + 1 <= Cardinality(B(q))
  <2>1. Cardinality(B(p) \cup {p}) = Cardinality(B(p)) + 1
    BY <1>3, <1>5, <1>7, FS_AddElement
  <2> QED BY <1>3, <1>5, <1>7, <2>1, FS_Subset
<1> QED BY <1>2, <1>6, <1>7

\* The bucket that run() prefetches next shares no slot with those it has in hand.
LEMMA SlotsApart ==
  ASSUME IInv, host.at = "prefetch", CanPrefetch, host.plan_index \in DOMAIN plans,
         ~plans[host.plan_index].local,
         NEW p \in DOMAIN plans, host.plan_index <= p, p < host.next_plan_to_prefetch,
         ~plans[p].local
  PROVE  SlotOf(plans, p) # SlotOf(plans, host.next_plan_to_prefetch)
<1> DEFINE i == host.plan_index
           next == host.next_plan_to_prefetch
           count == Len(host.prefetched)
           B(j) == RedistributedBefore(plans, j)
<1>1. /\ Running(host) /\ next <= Len(plans) /\ ~plans[next].local /\ count < NumSlots - 1
  BY DEF CanPrefetch, Running
<1>2. /\ plans \in Seq(BucketPlan) /\ Len(plans) \in Nat /\ DOMAIN plans = 1 .. Len(plans)
      /\ i \in Nat /\ next \in Nat /\ count \in Nat /\ host.redistributed_index \in Nat
  BY <1>1, RunningFacts, HostFacts
<1>3. /\ B(i + 1) = host.redistributed_index /\ B(next) = host.redistributed_index + count
  <2>1. FirstLeft(host) = i + 1 /\ Taken(host) = host.redistributed_index
    BY <1>2 DEF FirstLeft, Taken
  <2>2. /\ RedistributedBefore(plans, FirstLeft(host)) = Taken(host)
        /\ RedistributedBefore(plans, next) = Taken(host) + count
    BY <1>1, RunningFacts DEF Window
  <2> QED BY <2>1, <2>2
<1>4. i \in 1 .. Len(plans) /\ p \in 1 .. Len(plans) /\ next \in 1 .. Len(plans)
  BY <1>1, <1>2
<1>5. B(i) \in Nat /\ B(i + 1) = B(i) + 1
  BY <1>2, <1>4, RedistributedFacts
<1>6. B(p) \in Nat /\ B(next) \in Nat /\ B(i) <= B(p) /\ B(p) < B(next)
  BY <1>2, <1>4, RedistributedGrows
<1>7. NumSlots \in Nat \ {0}
  BY PipelineConstantsOK DEF PipelineConstantsOK
<1> HIDE DEF B, i, next, count
<1>8. B(next) < B(p) + NumSlots
  BY <1>1, <1>2, <1>3, <1>5, <1>6, <1>7
<1>9. B(p) % NumSlots # B(next) % NumSlots
  BY <1>6, <1>7, <1>8, ModuloApart
<1>10. SlotOf(plans, p) = B(p) % NumSlots /\ SlotOf(plans, next) = B(next) % NumSlots
  BY <1>1 DEF SlotOf, B
<1> QED BY <1>9, <1>10 DEF next

LEMMA PrefetchNextOrders == IInv /\ OInv /\ PrefetchNext => OInv'
<1> SUFFICES ASSUME IInv, OInv, PrefetchNext PROVE OInv'
  OBVIOUS
<1> DEFINE i == host.plan_index
           next == host.next_plan_to_prefetch
           n == Len(steps)
           v == host.previous[1]
           w == [plan |-> next, slot |-> SlotAt(host.redistributed_index + Len(host.prefetched))]
           x == Brought(<<n, next>>)
           e == EnqueueStorageToCompute(device, w)
<1>1. /\ Running(host) /\ host.at = "prefetch" /\ CanPrefetch
      /\ next <= Len(plans) /\ ~plans[next].local
      /\ UNCHANGED <<plans, reserved, steps, ran, exchange>>
      /\ device' = e
      /\ host' = [host EXCEPT !.prefetched = Append(@, w), !.next_plan_to_prefetch = @ + 1]
  BY DEF PrefetchNext, CanPrefetch, Running
<1>2. /\ i \in Nat /\ i >= 1 /\ next \in Nat /\ n \in Nat \ {0} /\ DOMAIN steps = 1 .. n
      /\ <<n, next>> \in Nat \X Nat /\ device \in FitDevice /\ plans = steps[n]
      /\ DOMAIN plans = 1 .. Len(plans) /\ Len(plans) \in Nat
      /\ Len(host.prefetched) \in Nat /\ host.redistributed_index \in Nat
      /\ DOMAIN host.prefetched = 1 .. Len(host.prefetched) /\ host.prefetched \in Seq(Work)
  BY <1>1, RunningFacts, HostFacts DEF Window
<1>3. next = i + 1 + Len(host.prefetched)
      /\ RedistributedBefore(plans, next) = host.redistributed_index + Len(host.prefetched)
      /\ \A k \in DOMAIN host.prefetched :
           host.prefetched[k].plan = i + k /\ InItsSlot(host.prefetched[k])
  <2>1. /\ FirstLeft(host) = i + 1 /\ Taken(host) = host.redistributed_index
    BY <1>1, <1>2 DEF FirstLeft, Taken
  <2>2. /\ next = FirstLeft(host) + Len(host.prefetched)
        /\ RedistributedBefore(plans, next) = Taken(host) + Len(host.prefetched)
        /\ \A k \in DOMAIN host.prefetched :
             host.prefetched[k].plan = FirstLeft(host) + k - 1 /\ InItsSlot(host.prefetched[k])
    BY <1>1, RunningFacts DEF Window
  <2>3. \A k \in DOMAIN host.prefetched : (i + 1) + k - 1 = i + k
    BY <1>2
  <2>4. next = i + 1 + Len(host.prefetched)
    BY <2>1, <2>2
  <2>5. RedistributedBefore(plans, next) = host.redistributed_index + Len(host.prefetched)
    BY <2>1, <2>2
  <2>6. \A k \in DOMAIN host.prefetched :
          host.prefetched[k].plan = i + k /\ InItsSlot(host.prefetched[k])
    <3> HIDE DEF i
    <3> QED BY <2>1, <2>2, <2>3
  <2> QED BY <2>4, <2>5, <2>6
<1>4. next \in DOMAIN plans
  <2>1. next >= 1
    BY <1>2, <1>3
  <2> QED BY <1>1, <1>2, <2>1
<1>5. w \in Work /\ InItsSlot(w) /\ w.plan = next /\ w.slot \in Slot /\ w.slot = SlotOf(plans, next)
  <2>1. host.redistributed_index + Len(host.prefetched) \in Nat
    BY <1>2
  <2>2. /\ SlotOf(plans, next) = SlotAt(host.redistributed_index + Len(host.prefetched))
        /\ SlotAt(host.redistributed_index + Len(host.prefetched)) \in Slot
    BY <1>1, <1>3, <1>4, <2>1, NextPlanFacts
  <2> QED BY <1>1, <1>2, <1>4, <2>2 DEF Work, InItsSlot
<1> HIDE DEF w
<1>6. /\ OrderOf(device) /\ OfSteps(device, ran, steps) /\ SeenTo(host, device, ran, steps)
      /\ OwnQueued(host, ran, device, n) /\ InHand(host, device, n)
      /\ host.transferring => TransferSure(ran, device, Backward(n))
  BY <1>1, OrderFacts
<1>7. /\ host.transferring /\ host.previous # <<>> /\ v.plan = i /\ InItsSlot(v)
      /\ i \in DOMAIN plans /\ ~plans[i].local
  <2>1. host.transferring /\ host.previous # <<>> /\ v.plan = i /\ InItsSlot(v)
    BY <1>1, <1>6 DEF InHand
  <2> QED BY <2>1 DEF InItsSlot
<1>8. ASSUME NEW a \in BucketsOf(steps), a # <<n, next>>, ~IsLocal(steps, a), SlotIn(steps, a) = w.slot
      PROVE  TransferSure(ran, device, Returned(a)) \/ ~Has(ran, device, Brought(a))
  <2> SUFFICES ASSUME Has(ran, device, Brought(a)), ~Has(ran, device, Returned(a)) PROVE FALSE
    <3>1. a \in Nat \X Nat BY DEF BucketsOf
    <3> QED BY <1>2, <1>6, <3>1, QueuedSure
  <2>1. Unreturned(host, n, a)
    BY <1>6 DEF SeenTo
  <2>2. /\ a[1] = n /\ a[2] >= i /\ a[2] \in Nat /\ a[2] \in DOMAIN plans /\ a = <<n, a[2]>>
        /\ ~plans[a[2]].local /\ SlotOf(plans, a[2]) = w.slot
    BY <1>1, <1>2, <1>8, <2>1 DEF Unreturned, BucketsOf, IsLocal, SlotIn
  <2>3. a[2] < next
    BY <1>6, <2>2 DEF OwnQueued
  <2> QED BY <1>1, <1>2, <1>5, <1>7, <2>2, <2>3, SlotsApart
<1>9. ~Has(ran, device, x)
  BY <1>2, <1>6 DEF OwnQueued
<1>10. /\ Grows(device, e, {x})
       /\ e.recorded = [device.recorded EXCEPT ![w.slot].compute_input_ready = x]
  BY <1>1, <1>2, <1>5, <1>6, <1>7, <1>8, <1>9, BringGrows
<1> HIDE DEF e, x
<1>11. /\ \A y : Has(ran, e, y) <=> Has(ran, device, y) \/ y = x
       /\ \A y : CallerSure(ran, device, y) => CallerSure(ran, e, y)
       /\ \A y : TransferSure(ran, device, y) => TransferSure(ran, e, y)
       /\ OrderOf(e)
  BY <1>10 DEF Grows
<1>12. /\ \A s \in Slot : /\ e.recorded[s].compute_done = device.recorded[s].compute_done
                          /\ s # w.slot => e.recorded[s].compute_input_ready =
                                             device.recorded[s].compute_input_ready
       /\ e.recorded[w.slot].compute_input_ready = x
  <2>1. device.recorded \in [Slot -> Events]
    BY <1>2, FitQueues
  <2> QED BY <1>5, <1>10, <2>1 DEF Events
<1>13. /\ host'.at = "prefetch" /\ host'.plan_index = i /\ host'.previous = host.previous
       /\ host'.prefetched = Append(host.prefetched, w) /\ host'.transferring = host.transferring
       /\ host'.next_plan_to_prefetch = next + 1
  BY <1>1, RunningFacts DEF Host
<1>14. OfSteps(e, ran, steps)
  <2>1. OfStep(x)
    BY <1>2 DEF OfStep, x
  <2> QED BY <1>2, <1>6, <1>10, <2>1, OfStepsGrows
<1>15. SeenTo(host', e, ran, steps)
  <2> SUFFICES ASSUME NEW a \in BucketsOf(steps)
               PROVE  /\ Has(ran, e, Brought(a)) => Has(ran, e, Returned(a)) \/ Unreturned(host', n, a)
                      /\ CallerSure(ran, e, Updated(steps, a)) \/ Unreleased(host', n, a)
    BY DEF SeenTo
  <2>1. a \in Nat \X Nat /\ a[1] \in Nat /\ a[2] \in Nat
    BY DEF BucketsOf
  <2>2. Brought(a) = x => Unreturned(host', n, a)
    <3>1. Brought(a) = x => a = <<n, next>>
      BY <1>2, <2>1, Names DEF x
    <3> QED BY <1>2, <1>3, <1>13, <3>1 DEF Unreturned, Running
  <2>3. /\ Unreturned(host, n, a) => Unreturned(host', n, a)
        /\ Unreleased(host, n, a) => Unreleased(host', n, a)
    BY <1>1, <1>13 DEF Unreturned, Unreleased, Running, IsPrevious
  <2> QED BY <1>6, <1>11, <2>2, <2>3 DEF SeenTo
<1>16. OwnQueued(host', ran, e, n)
  <2> SUFFICES ASSUME NEW p \in Nat
               PROVE  /\ Has(ran, e, Brought(<<n, p>>)) => p < next + 1
                      /\ Has(ran, e, Computed(<<n, p>>)) => p < i \/ p = i
                      /\ Has(ran, e, Local(<<n, p>>)) => p < i
                      /\ Has(ran, e, Returned(<<n, p>>)) => p < i
                      /\ Has(ran, e, Released(<<n, p>>)) => p < i
    BY <1>13 DEF OwnQueued
  <2>1. <<n, p>> \in Nat \X Nat
    BY <1>2
  <2>2. /\ Computed(<<n, p>>) # x /\ Local(<<n, p>>) # x /\ Returned(<<n, p>>) # x
        /\ Released(<<n, p>>) # x /\ (Brought(<<n, p>>) = x => p = next)
    BY <1>2, <2>1, Names DEF x
  <2> QED BY <1>1, <1>2, <1>6, <1>11, <2>2 DEF OwnQueued
<1>17. InHand(host', e, n)
  <2>1. /\ DOMAIN Append(host.prefetched, w) = 1 .. Len(host.prefetched) + 1
        /\ \A k \in 1 .. Len(host.prefetched) : Append(host.prefetched, w)[k] = host.prefetched[k]
        /\ Append(host.prefetched, w)[Len(host.prefetched) + 1] = w
    BY <1>2, <1>5, AppendProperties, LenProperties
  <2>2. ASSUME NEW k \in DOMAIN host.prefetched
        PROVE  LET u == host.prefetched[k]
               IN  e.recorded[u.slot].compute_input_ready = Brought(<<n, u.plan>>)
    <3> DEFINE u == host.prefetched[k]
    <3>1. /\ u.plan = i + k /\ InItsSlot(u) /\ k \in 1 .. Len(host.prefetched)
          /\ u \in Work
      BY <1>2, <1>3, ElementOfSeq
    <3>2. /\ i <= u.plan /\ u.plan < next /\ u.plan \in DOMAIN plans /\ ~plans[u.plan].local
          /\ u.slot = SlotOf(plans, u.plan) /\ u.slot \in Slot
      <4>1. /\ u.plan \in DOMAIN plans /\ ~plans[u.plan].local
            /\ u.slot = SlotOf(plans, u.plan) /\ u.slot \in Slot
        BY <3>1 DEF InItsSlot, Work
      <4>2. i <= u.plan /\ u.plan < next
        BY <1>2, <1>3, <3>1
      <4> QED BY <4>1, <4>2
    <3>3. u.slot # w.slot
      BY <1>1, <1>5, <1>7, <3>2, SlotsApart
    <3>4. device.recorded[u.slot].compute_input_ready = Brought(<<n, u.plan>>)
      BY <1>6 DEF InHand
    <3> QED BY <1>12, <3>2, <3>3, <3>4
  <2>3. ASSUME NEW k \in DOMAIN host'.prefetched
        PROVE  LET u == host'.prefetched[k]
               IN  e.recorded[u.slot].compute_input_ready = Brought(<<n, u.plan>>)
    <3>1. CASE k \in DOMAIN host.prefetched
      BY <1>2, <1>13, <2>1, <2>2, <3>1
    <3>2. CASE k \notin DOMAIN host.prefetched
      <4>1. k = Len(host.prefetched) + 1
        BY <1>2, <1>13, <2>1, <3>2
      <4>2. host'.prefetched[k] = w
        BY <1>13, <2>1, <4>1
      <4> QED BY <1>5, <1>12, <4>2 DEF x
    <3> QED BY <3>1, <3>2
  <2>4. v.slot \in Slot
    <3>1. v \in Work BY <1>1, <1>7, RunningFacts, HostFacts
    <3> QED BY <3>1 DEF Work
  <2>5. device.recorded[v.slot].compute_done = Computed(<<n, v.plan>>)
    BY <1>1, <1>6, <1>7 DEF InHand
  <2>6. e.recorded[v.slot].compute_done = Computed(<<n, v.plan>>)
    BY <1>12, <2>4, <2>5
  <2> QED BY <1>7, <1>13, <2>3, <2>6 DEF InHand
<1>18. Progress(host', device', ran, steps)
  BY <1>1, <1>6, <1>11, <1>13, <1>14, <1>15, <1>16, <1>17 DEF Progress
<1> QED BY <1>1, <1>11, <1>13, <1>18, HostOrder
\* What starting a redistributed bucket queues: waits, the return of the previous
\* bucket, and its own exchange unless that was prefetched.
BroughtNow ==
  IF host.prefetched = <<>> THEN {Brought(<<Len(steps), host.plan_index>>)} ELSE {}

\* The bucket that is brought now, and what it may overwrite.
LEMMA FreshFacts ==
  ASSUME IInv, OInv, AtBucket, ~plans[host.plan_index].local, host.prefetched = <<>>
  PROVE  LET w == [plan |-> host.plan_index, slot |-> SlotAt(host.redistributed_index)]
             x == Brought(<<Len(steps), host.plan_index>>)
         IN  /\ w \in Work /\ InItsSlot(w) /\ w.plan = host.plan_index /\ w.slot \in Slot
             /\ host.next_plan_to_prefetch = host.plan_index
             /\ ~Has(ran, device, x)
             /\ \A a \in BucketsOf(steps) :
                  ~IsLocal(steps, a) /\ SlotIn(steps, a) = w.slot /\ Has(ran, device, Brought(a)) =>
                    \/ TransferSure(ran, device, Returned(a))
                    \/ host.previous # <<>> /\ a = PreviousBucket /\ host.previous[1].slot = w.slot
<1> DEFINE i == host.plan_index
           n == Len(steps)
           k == host.redistributed_index
           w == [plan |-> i, slot |-> SlotAt(k)]
           x == Brought(<<n, i>>)
<1>1. Running(host) /\ host.at = "bucket" /\ i <= Len(plans) /\ ~plans[i].local
  BY DEF AtBucket, Running
<1>2. /\ i \in Nat /\ i >= 1 /\ k \in Nat /\ n \in Nat \ {0} /\ DOMAIN steps = 1 .. n
      /\ i \in DOMAIN plans /\ RedistributedBefore(plans, i) = k
  <2>1. FirstLeft(host) = i /\ i \in Nat /\ k \in Nat
    BY <1>1, RunningFacts, HostFacts DEF FirstLeft
  <2>2. Taken(host) = k
    BY <1>1, <2>1 DEF Taken
  <2>3. i >= 1 /\ RedistributedBefore(plans, i) = k
    BY <1>1, <2>1, <2>2, RunningFacts DEF Window
  <2> QED BY <1>1, <2>1, <2>3, RunningFacts
<1>3. host.next_plan_to_prefetch = i
  <2>1. Len(host.prefetched) = 0
    BY EmptySeq
  <2>2. host.next_plan_to_prefetch = i + Len(host.prefetched)
    BY <1>1, RunningFacts DEF Window, FirstLeft
  <2> QED BY <1>2, <2>1, <2>2
<1>4. SlotOf(plans, i) = SlotAt(k) /\ SlotAt(k) \in Slot
  BY <1>1, <1>2, NextPlanFacts
<1>5. w \in Work /\ InItsSlot(w) /\ w.plan = i /\ w.slot \in Slot
  BY <1>1, <1>2, <1>4 DEF Work, InItsSlot
<1> HIDE DEF w
<1>6. /\ OrderOf(device) /\ SeenTo(host, device, ran, steps) /\ OwnQueued(host, ran, device, n)
  BY <1>1, OrderFacts
<1>7. ~Has(ran, device, x)
  BY <1>2, <1>3, <1>6 DEF OwnQueued
<1>8. ASSUME NEW a \in BucketsOf(steps), ~IsLocal(steps, a), SlotIn(steps, a) = w.slot,
             Has(ran, device, Brought(a)), ~TransferSure(ran, device, Returned(a))
      PROVE  host.previous # <<>> /\ a = PreviousBucket /\ host.previous[1].slot = w.slot
  <2>1. a \in Nat \X Nat /\ a = <<a[1], a[2]>> /\ a[2] \in Nat
    BY DEF BucketsOf
  <2>2. ~Has(ran, device, Returned(a))
    BY <1>2, <1>6, <1>8, <2>1, QueuedSure
  <2>3. Unreturned(host, n, a)
    BY <1>6, <1>8, <2>2 DEF SeenTo
  <2>4. a[1] = n /\ (a[2] >= i \/ IsPrevious(host, a[2]))
    BY <2>3 DEF Unreturned
  <2>5. a[2] < i
    BY <1>3, <1>6, <1>8, <2>1, <2>4 DEF OwnQueued
  <2>6. IsPrevious(host, a[2])
    BY <1>2, <2>1, <2>4, <2>5
  <2>7. host.previous # <<>> /\ a = PreviousBucket
    BY <2>1, <2>4, <2>6 DEF IsPrevious, PreviousBucket
  <2>8. host.previous[1].slot = SlotIn(steps, PreviousBucket)
    BY <1>1, <2>7, PreviousFacts
  <2> QED BY <1>8, <2>7, <2>8
<1> QED BY <1>3, <1>5, <1>7, <1>8 DEF w

\* The wait that run() opens the transfers of a step with.
LEMMA OpeningFacts ==
  ASSUME IInv, OInv, AtBucket
  PROVE  LET d == IF host.transferring THEN device ELSE TransferWaitsCaller(device)
         IN  /\ \E W : Grows(device, d, W) /\ \A y \in W : IsWait(y)
             /\ d.recorded = device.recorded
             /\ TransferSure(ran, d, Backward(Len(steps)))
<1>1. Running(host)
  BY DEF AtBucket, Running
<1>2. /\ OrderOf(device) /\ device \in FitDevice /\ Len(steps) \in Nat /\ DOMAIN steps = 1 .. Len(steps)
      /\ host.transferring => TransferSure(ran, device, Backward(Len(steps)))
      /\ Backward(Len(steps)) \in ran \/ In(device.caller, Backward(Len(steps)))
  BY <1>1, OrderFacts, RunningFacts
<1>3. CASE host.transferring
  BY <1>2, <1>3, GrowsNot
<1>4. CASE ~host.transferring
  <2> DEFINE e == TransferWaitsCaller(device)
  <2>1. /\ \E y : IsWait(y) /\ Grows(device, e, {y})
        /\ e.recorded = device.recorded
        /\ \A y : In(device.caller, y) => TransferSure(ran, e, y)
    BY <1>2, TransferWaitGrows
  <2> HIDE DEF e
  <2>2. \E W : Grows(device, e, W) /\ \A y \in W : IsWait(y)
    BY <2>1
  <2>3. TransferSure(ran, e, Backward(Len(steps)))
    BY <1>2, <2>1 DEF TransferSure, Sure
  <2> QED BY <1>4, <2>1, <2>2, <2>3 DEF e
<1> QED BY <1>3, <1>4

LEMMA StartQueues ==
  ASSUME IInv, OInv, StartRedistributedBucket
  PROVE  /\ \E W : /\ Grows(device, device', (W \cup ReturnedPrevious) \cup BroughtNow)
                   /\ \A y \in W : IsWait(y)
         /\ TransferSure(ran, device', Backward(Len(steps)))
         /\ host.previous # <<>> =>
              device'.recorded[host.previous[1].slot].done = Returned(PreviousBucket)
         /\ host.prefetched # <<>> =>
              \A s \in Slot : device'.recorded[s].compute_input_ready =
                                device.recorded[s].compute_input_ready
         /\ host.prefetched = <<>> =>
              device'.recorded[SlotAt(host.redistributed_index)].compute_input_ready =
                Brought(<<Len(steps), host.plan_index>>)
<1> DEFINE n == Len(steps)
           v == host.previous[1]
           b == PreviousBucket
           w == [plan |-> host.plan_index, slot |-> SlotAt(host.redistributed_index)]
           x == Brought(<<n, host.plan_index>>)
           d == IF host.transferring THEN device ELSE TransferWaitsCaller(device)
           shares == host.previous # <<>> /\ v.slot = w.slot
<1>1. /\ AtBucket /\ Running(host) /\ host.at = "bucket" /\ ~plans[host.plan_index].local
      /\ device' = CASE host.prefetched # <<>> -> ReturnPrevious(d)
                     [] host.prefetched = <<>> /\ shares ->
                          EnqueueStorageToCompute(ReturnPrevious(d), w)
                     [] OTHER ->
                          ReturnPrevious(EnqueueStorageToCompute(d, w))
  BY DEF StartRedistributedBucket, AtBucket, Running
<1>2. PICK W : Grows(device, d, W) /\ \A y \in W : IsWait(y)
  BY <1>1, OpeningFacts
<1>3. d.recorded = device.recorded /\ TransferSure(ran, d, Backward(n))
  BY <1>1, OpeningFacts
<1> HIDE DEF d
<1>4. d \in FitDevice /\ OrderOf(d)
  BY <1>2 DEF Grows
<1>5. n \in Nat /\ host.plan_index \in Nat /\ <<n, host.plan_index>> \in Nat \X Nat
  BY <1>1, RunningFacts, HostFacts
<1>6. host.previous # <<>> =>
        /\ ~Has(ran, d, Returned(b)) /\ b \in Nat \X Nat /\ v.slot \in Slot
        /\ v.slot = SlotIn(steps, b) /\ ~IsLocal(steps, b)
  <2> SUFFICES ASSUME host.previous # <<>>
               PROVE  /\ ~Has(ran, d, Returned(b)) /\ b \in Nat \X Nat /\ v.slot \in Slot
                      /\ v.slot = SlotIn(steps, b) /\ ~IsLocal(steps, b)
    OBVIOUS
  <2>1. /\ ~Has(ran, device, Returned(b)) /\ b \in Nat \X Nat /\ v.slot \in Slot
        /\ v.slot = SlotIn(steps, b) /\ ~IsLocal(steps, b)
    BY <1>1, PreviousFacts
  <2>2. ~IsWait(Returned(b))
    BY <1>5, <2>1, Names
  <2> QED BY <1>2, <2>1, <2>2 DEF Grows
<1>7. CASE host.prefetched # <<>>
  <2>1. device' = ReturnPrevious(d)
    BY <1>1, <1>7
  <2>2. /\ Grows(d, device', ReturnedPrevious)
        /\ \A s \in Slot : device'.recorded[s].compute_input_ready = d.recorded[s].compute_input_ready
        /\ host.previous # <<>> => device'.recorded[v.slot].done = Returned(b)
    BY <1>1, <1>3, <1>4, <1>6, <2>1, ReturnPreviousGrows
  <2>3. TransferSure(ran, device', Backward(n))
    BY <1>3, <2>2 DEF Grows
  <2>4. (W \cup ReturnedPrevious) \cup BroughtNow = W \cup ReturnedPrevious
    BY <1>7 DEF BroughtNow
  <2>5. Grows(device, device', (W \cup ReturnedPrevious) \cup BroughtNow)
    BY <1>2, <2>2, <2>4, GrowsAgain
  <2> QED BY <1>2, <1>3, <1>7, <2>2, <2>3, <2>5
<1>8. CASE host.prefetched = <<>>
  <2>1. /\ w \in Work /\ InItsSlot(w) /\ w.plan = host.plan_index /\ w.slot \in Slot
        /\ ~Has(ran, device, x)
        /\ \A a \in BucketsOf(steps) :
             ~IsLocal(steps, a) /\ SlotIn(steps, a) = w.slot /\ Has(ran, device, Brought(a)) =>
               \/ TransferSure(ran, device, Returned(a))
               \/ host.previous # <<>> /\ a = b /\ v.slot = w.slot
    BY <1>1, <1>8, FreshFacts
  <2>2. BroughtNow = {x} /\ w.slot = SlotAt(host.redistributed_index)
    BY <1>8 DEF BroughtNow
  <2> HIDE DEF w
  <2>3. ~IsWait(x)
    BY <1>5, Names
  <2>4. ~Has(ran, d, x)
    BY <1>2, <2>1, <2>3 DEF Grows
  <2>5. ASSUME NEW a \in BucketsOf(steps), ~IsLocal(steps, a), SlotIn(steps, a) = w.slot,
               Has(ran, d, Brought(a))
        PROVE  \/ TransferSure(ran, d, Returned(a))
               \/ host.previous # <<>> /\ a = b /\ v.slot = w.slot
    <3>1. a \in Nat \X Nat
      BY DEF BucketsOf
    <3>2. ~IsWait(Brought(a))
      BY <1>5, <3>1, Names
    <3>3. Has(ran, device, Brought(a))
      BY <1>2, <2>5, <3>2 DEF Grows
    <3> QED BY <1>2, <2>1, <2>5, <3>3 DEF Grows
  <2>6. CASE shares
    <3> DEFINE e == ReturnPrevious(d)
    <3>1. device' = EnqueueStorageToCompute(e, w)
      BY <1>1, <1>8, <2>6
    <3>2. /\ Grows(d, e, ReturnedPrevious) /\ ReturnedPrevious = {Returned(b)}
          /\ TransferSure(ran, e, Returned(b)) /\ e.recorded[v.slot].done = Returned(b)
      BY <1>1, <1>3, <1>4, <1>6, <2>6, ReturnPreviousGrows DEF ReturnedPrevious
    <3> HIDE DEF e
    <3>3. e \in FitDevice /\ OrderOf(e) /\ TransferSure(ran, e, Backward(n))
      BY <1>3, <3>2 DEF Grows
    <3>4. ~Has(ran, e, x)
      BY <1>5, <1>6, <2>4, <2>6, <3>2, Names DEF Grows
    <3>5. ASSUME NEW a \in BucketsOf(steps), ~IsLocal(steps, a), SlotIn(steps, a) = w.slot,
                 Has(ran, e, Brought(a))
          PROVE  TransferSure(ran, e, Returned(a))
      <4>1. a \in Nat \X Nat
        BY DEF BucketsOf
      <4>2. Has(ran, d, Brought(a))
        BY <1>5, <1>6, <2>6, <3>2, <3>5, <4>1, Names DEF Grows
      <4> QED BY <2>5, <3>2, <3>5, <4>2 DEF Grows
    <3>6. /\ Grows(e, device', {x})
          /\ device'.recorded = [e.recorded EXCEPT ![w.slot].compute_input_ready = x]
      BY <1>1, <2>1, <3>1, <3>3, <3>4, <3>5, BringGrows
    <3>7. e.recorded \in [Slot -> Events]
      BY <3>3, FitQueues
    <3>8. /\ device'.recorded[w.slot].compute_input_ready = x
          /\ device'.recorded[v.slot].done = Returned(b)
      BY <1>6, <2>1, <2>6, <3>2, <3>6, <3>7 DEF Events
    <3>9. Grows(device, device', (W \cup ReturnedPrevious) \cup BroughtNow)
      <4>1. Grows(device, e, W \cup ReturnedPrevious)
        BY <1>2, <3>2, GrowsAgain
      <4> QED BY <2>2, <3>6, <4>1, GrowsAgain
    <3>10. TransferSure(ran, device', Backward(n))
      BY <3>3, <3>6 DEF Grows
    <3> QED BY <1>2, <1>8, <2>2, <3>8, <3>9, <3>10
  <2>7. CASE ~shares
    <3> DEFINE e == EnqueueStorageToCompute(d, w)
    <3>1. device' = ReturnPrevious(e)
      BY <1>1, <1>8, <2>7
    <3>2. \A a \in BucketsOf(steps) :
            a # <<n, w.plan>> /\ ~IsLocal(steps, a) /\ SlotIn(steps, a) = w.slot =>
              TransferSure(ran, d, Returned(a)) \/ ~Has(ran, d, Brought(a))
      BY <2>5, <2>7
    <3>3. /\ Grows(d, e, {x})
          /\ e.recorded = [d.recorded EXCEPT ![w.slot].compute_input_ready = x]
      BY <1>1, <1>3, <1>4, <2>1, <2>4, <3>2, BringGrows
    <3> HIDE DEF e
    <3>4. d.recorded \in [Slot -> Events]
      BY <1>4, FitQueues
    <3>5. /\ e.recorded[w.slot].compute_input_ready = x
          /\ \A s \in Slot : e.recorded[s].compute_done = device.recorded[s].compute_done
      BY <1>3, <2>1, <3>3, <3>4 DEF Events
    <3>6. host.previous # <<>> => ~Has(ran, e, Returned(b))
      BY <1>5, <1>6, <3>3, Names DEF Grows
    <3>7. e \in FitDevice /\ OrderOf(e) /\ TransferSure(ran, e, Backward(n))
      BY <1>3, <3>3 DEF Grows
    <3>8. /\ Grows(e, device', ReturnedPrevious)
          /\ device'.recorded[w.slot].compute_input_ready = x
          /\ host.previous # <<>> => device'.recorded[v.slot].done = Returned(b)
      BY <1>1, <2>1, <3>1, <3>5, <3>6, <3>7, ReturnPreviousGrows
    <3>9. Grows(device, device', (W \cup ReturnedPrevious) \cup BroughtNow)
      <4>1. Grows(device, e, W \cup {x})
        BY <1>2, <3>3, GrowsAgain
      <4>2. Grows(device, device', (W \cup {x}) \cup ReturnedPrevious)
        BY <3>8, <4>1, GrowsAgain
      <4>3. (W \cup {x}) \cup ReturnedPrevious = (W \cup ReturnedPrevious) \cup BroughtNow
        BY <2>2
      <4> QED BY <4>2, <4>3
    <3>10. TransferSure(ran, device', Backward(n))
      BY <3>7, <3>8 DEF Grows
    <3> QED BY <1>2, <1>8, <2>2, <3>8, <3>9, <3>10
  <2> QED BY <2>6, <2>7
<1> QED BY <1>7, <1>8
\* What run() has in hand once it started a redistributed bucket.
LEMMA StartHost ==
  ASSUME IInv, StartRedistributedBucket
  PROVE  LET w == IF host.prefetched # <<>> THEN Head(host.prefetched)
                  ELSE [plan |-> host.plan_index, slot |-> SlotAt(host.redistributed_index)]
         IN  /\ host'.at = "compute" /\ host'.plan_index = host.plan_index
             /\ host'.previous = host.previous /\ host'.transferring
             /\ host'.work[1] = w
             /\ host'.prefetched = IF host.prefetched = <<>> THEN <<>> ELSE Tail(host.prefetched)
             /\ host'.next_plan_to_prefetch = IF host.prefetched = <<>> THEN host.plan_index + 1
                                              ELSE host.next_plan_to_prefetch
<1> DEFINE w == IF host.prefetched # <<>> THEN Head(host.prefetched)
                ELSE [plan |-> host.plan_index, slot |-> SlotAt(host.redistributed_index)]
           one == <<w>>
           rest == IF host.prefetched = <<>> THEN host.prefetched ELSE Tail(host.prefetched)
           next == IF host.prefetched = <<>> THEN host.plan_index + 1 ELSE host.next_plan_to_prefetch
<1>1. /\ Running(host)
      /\ host' = [host EXCEPT !.at = "compute", !.transferring = TRUE, !.work = one,
                              !.prefetched = rest, !.next_plan_to_prefetch = next]
  BY DEF StartRedistributedBucket, AtBucket, Running
<1>2. host \in Host
  BY <1>1, RunningFacts
<1>3. one[1] = w
  OBVIOUS
<1> HIDE DEF one, rest, next, w
<1>4. /\ host'.at = "compute" /\ host'.plan_index = host.plan_index
      /\ host'.previous = host.previous /\ host'.transferring = TRUE
      /\ host'.work = one /\ host'.prefetched = rest /\ host'.next_plan_to_prefetch = next
  BY <1>1, <1>2 DEF Host
<1> QED BY <1>3, <1>4 DEF w, rest, next

LEMMA StartRedistributedBucketOrders ==
  IInv /\ OInv /\ StartRedistributedBucket => OInv'
<1> SUFFICES ASSUME IInv, OInv, StartRedistributedBucket PROVE OInv'
  OBVIOUS
<1> DEFINE i == host.plan_index
           n == Len(steps)
           v == host.previous[1]
           b == PreviousBucket
           x == Brought(<<n, i>>)
           fresh == [plan |-> i, slot |-> SlotAt(host.redistributed_index)]
<1>1. /\ AtBucket /\ Running(host) /\ host.at = "bucket" /\ ~plans[i].local
      /\ UNCHANGED <<plans, reserved, steps, ran, exchange>>
  BY DEF StartRedistributedBucket, AtBucket, Running
<1>2. /\ i \in Nat /\ n \in Nat \ {0} /\ DOMAIN steps = 1 .. n /\ <<n, i>> \in Nat \X Nat
      /\ host.next_plan_to_prefetch \in Nat /\ host.prefetched \in Seq(Work)
      /\ DOMAIN host.prefetched = 1 .. Len(host.prefetched) /\ Len(host.prefetched) \in Nat
  BY <1>1, RunningFacts, HostFacts
<1>3. /\ OrderOf(device) /\ OfSteps(device, ran, steps) /\ SeenTo(host, device, ran, steps)
      /\ OwnQueued(host, ran, device, n) /\ InHand(host, device, n)
  BY <1>1, OrderFacts
<1>4. /\ host'.at = "compute" /\ host'.plan_index = i /\ host'.previous = host.previous
      /\ host'.transferring
  BY StartHost
<1>5. PICK W : /\ Grows(device, device', (W \cup ReturnedPrevious) \cup BroughtNow)
               /\ \A y \in W : IsWait(y)
  BY StartQueues
<1> DEFINE X == (W \cup ReturnedPrevious) \cup BroughtNow
<1>6. \A y \in X : \/ IsWait(y)
                   \/ host.previous # <<>> /\ y = Returned(b)
                   \/ host.prefetched = <<>> /\ y = x
  BY <1>5 DEF ReturnedPrevious, BroughtNow
<1>7. host.previous # <<>> => Returned(b) \in X /\ b \in Nat \X Nat /\ v.plan \in Nat /\ v.plan < i
  BY <1>1, PreviousFacts DEF ReturnedPrevious
<1> HIDE DEF X
<1>8. Grows(device, device', X)
  BY <1>5 DEF X
<1>9. /\ \A y : Has(ran, device', y) <=> Has(ran, device, y) \/ y \in X
      /\ \A y : CallerSure(ran, device, y) => CallerSure(ran, device', y)
      /\ \A y : TransferSure(ran, device, y) => TransferSure(ran, device', y)
      /\ OrderOf(device')
  BY <1>8 DEF Grows
<1>10. OfSteps(device', ran, steps)
  <2>1. OfStep(x)
    BY <1>2 DEF OfStep
  <2>2. host.previous # <<>> => OfStep(Returned(b))
    BY <1>7 DEF OfStep, PreviousBucket
  <2> QED BY <1>2, <1>3, <1>6, <1>8, <2>1, <2>2, OfStepsGrows
<1>11. SeenTo(host', device', ran, steps)
  <2> SUFFICES ASSUME NEW a \in BucketsOf(steps)
               PROVE  /\ Has(ran, device', Brought(a)) => Has(ran, device', Returned(a)) \/ Unreturned(host', n, a)
                      /\ CallerSure(ran, device', Updated(steps, a)) \/ Unreleased(host', n, a)
    BY DEF SeenTo
  <2>1. a \in Nat \X Nat /\ a[1] \in Nat /\ a[2] \in Nat /\ a = <<a[1], a[2]>>
    BY DEF BucketsOf
  <2>2. Brought(a) \in X => Unreturned(host', n, a)
    <3>1. ~IsWait(Brought(a))
      BY <1>2, <2>1, Names
    <3>2. host.previous # <<>> => Brought(a) # Returned(b)
      BY <1>2, <1>7, <2>1, Names
    <3>3. Brought(a) \in X => a = <<n, i>>
      BY <1>2, <1>6, <2>1, <3>1, <3>2, Names
    <3> QED BY <1>2, <1>4, <3>3 DEF Unreturned, Running
  <2>3. Unreturned(host, n, a) => Unreturned(host', n, a) \/ (host.previous # <<>> /\ a = b)
    BY <1>1, <1>4, <2>1 DEF Unreturned, Running, IsPrevious, PreviousBucket
  <2>4. Unreleased(host, n, a) => Unreleased(host', n, a)
    BY <1>1, <1>4 DEF Unreleased, Running, IsPrevious
  <2> QED BY <1>3, <1>7, <1>9, <2>2, <2>3, <2>4 DEF SeenTo
<1>12. OwnQueued(host', ran, device', n)
  <2> SUFFICES ASSUME NEW p \in Nat
               PROVE  /\ Has(ran, device', Brought(<<n, p>>)) => p < host'.next_plan_to_prefetch
                      /\ Has(ran, device', Computed(<<n, p>>)) => p < i
                      /\ Has(ran, device', Local(<<n, p>>)) => p < i
                      /\ Has(ran, device', Returned(<<n, p>>)) => p < i
                      /\ Has(ran, device', Released(<<n, p>>)) => p < i /\ ~IsPrevious(host, p)
    BY <1>4 DEF OwnQueued, IsPrevious
  <2>1. <<n, p>> \in Nat \X Nat
    BY <1>2
  <2>2. /\ Computed(<<n, p>>) \notin X /\ Local(<<n, p>>) \notin X /\ Released(<<n, p>>) \notin X
        /\ Returned(<<n, p>>) \in X => p < i
        /\ Brought(<<n, p>>) \in X => host.prefetched = <<>> /\ p = i
    <3>1. \A y \in X : IsWait(y) =>
            y \notin {Brought(<<n, p>>), Computed(<<n, p>>), Returned(<<n, p>>),
                      Released(<<n, p>>), Local(<<n, p>>)}
      BY <1>2, <2>1, Names
    <3>2. Returned(<<n, p>>) \in X => host.previous # <<>> /\ <<n, p>> = b
      BY <1>2, <1>6, <1>7, <2>1, <3>1, Names
    <3>3. Returned(<<n, p>>) \in X => p < i
      BY <1>7, <3>2 DEF PreviousBucket
    <3> QED BY <1>2, <1>6, <1>7, <2>1, <3>1, <3>3, Names
  <2>3. /\ host.prefetched = <<>> => host'.next_plan_to_prefetch = i + 1 /\ host.next_plan_to_prefetch = i
        /\ host.prefetched # <<>> => host'.next_plan_to_prefetch = host.next_plan_to_prefetch
    BY <1>1, StartHost, FreshFacts
  <2>4. Has(ran, device, Brought(<<n, p>>)) => p < host.next_plan_to_prefetch
    BY <1>3 DEF OwnQueued
  <2>5. Has(ran, device', Brought(<<n, p>>)) => p < host'.next_plan_to_prefetch
    <3> HIDE DEF n, i
    <3> QED BY <1>2, <1>9, <2>2, <2>3, <2>4
  <2> QED BY <1>1, <1>3, <1>9, <2>2, <2>5 DEF OwnQueued
<1>13. InHand(host', device', n)
  <2>1. host.previous # <<>> => /\ InItsSlot(v) /\ v.plan < i
                                /\ device'.recorded[v.slot].done = Returned(<<n, v.plan>>)
    BY <1>1, PreviousFacts, StartQueues DEF PreviousBucket
  <2>2. ASSUME NEW k \in DOMAIN host.prefetched
        PROVE  LET u == host.prefetched[k]
               IN  device'.recorded[u.slot].compute_input_ready = Brought(<<n, u.plan>>)
    <3>1. host.prefetched[k] \in Work
      BY <1>2, ElementOfSeq
    <3>2. host.prefetched[k].slot \in Slot
      BY <3>1 DEF Work
    <3>3. host.prefetched # <<>>
      BY <1>2, EmptySeq
    <3> QED BY <1>3, <3>2, <3>3, StartQueues DEF InHand
  <2>3. ASSUME NEW k \in DOMAIN host'.prefetched
        PROVE  LET u == host'.prefetched[k]
               IN  device'.recorded[u.slot].compute_input_ready = Brought(<<n, u.plan>>)
    <3>1. host.prefetched # <<>> /\ host'.prefetched = Tail(host.prefetched)
      <4>1. host'.prefetched # <<>>
        BY EmptySeq, LenProperties
      <4> QED BY <4>1, StartHost
    <3>2. /\ Len(Tail(host.prefetched)) = Len(host.prefetched) - 1
          /\ DOMAIN Tail(host.prefetched) = 1 .. Len(host.prefetched) - 1
          /\ \A j \in 1 .. Len(host.prefetched) - 1 :
               Tail(host.prefetched)[j] = host.prefetched[j + 1]
      BY <1>2, <3>1, HeadTailProperties, LenProperties
    <3>3. k + 1 \in DOMAIN host.prefetched /\ host'.prefetched[k] = host.prefetched[k + 1]
      BY <1>2, <3>1, <3>2
    <3> QED BY <2>2, <3>3
  <2>4. LET w == host'.work[1]
        IN  w.plan = i /\ device'.recorded[w.slot].compute_input_ready = Brought(<<n, w.plan>>)
    <3>1. CASE host.prefetched = <<>>
      <4>1. host'.work[1] = fresh
        BY <3>1, StartHost
      <4>2. device'.recorded[SlotAt(host.redistributed_index)].compute_input_ready = x
        BY <3>1, StartQueues
      <4> QED BY <4>1, <4>2
    <3>2. CASE host.prefetched # <<>>
      <4>1. host'.work[1] = host.prefetched[1] /\ 1 \in DOMAIN host.prefetched
        BY <1>1, <3>2, StartHost, HeadTailProperties, RunningFacts, HostFacts
      <4>2. host.prefetched[1].plan = FirstLeft(host) + 1 - 1
        BY <1>1, <4>1, RunningFacts DEF Window
      <4>3. FirstLeft(host) = i
        BY <1>1 DEF FirstLeft
      <4>4. host.prefetched[1].plan = i
        BY <1>2, <4>2, <4>3
      <4> QED BY <2>2, <4>1, <4>4
    <3> QED BY <3>1, <3>2
  <2> HIDE DEF i, n, v
  <2>5. /\ host'.previous # <<>> =>
             LET u == host'.previous[1]
             IN  InItsSlot(u) /\ u.plan < host'.plan_index
                 /\ device'.recorded[u.slot].done = Returned(<<n, u.plan>>)
        /\ host'.at = "compute" /\ host'.transferring
    BY <1>4, <2>1 DEF v
  <2>6. LET w == host'.work[1]
        IN  w.plan = host'.plan_index
            /\ device'.recorded[w.slot].compute_input_ready = Brought(<<n, w.plan>>)
    BY <1>4, <2>4
  <2> QED BY <2>3, <2>5, <2>6 DEF InHand
<1>14. TransferSure(ran, device', Backward(n))
  BY StartQueues
<1>15. Progress(host', device', ran, steps)
  BY <1>10, <1>11, <1>12, <1>13, <1>14 DEF Progress
<1> QED BY <1>1, <1>4, <1>9, <1>15, HostOrder
LEMMA RaiseOrders == IInv /\ OInv /\ Raise => OInv'
<1> SUFFICES ASSUME IInv, OInv, Raise PROVE OInv'
  OBVIOUS
<1>1. /\ Running(host) /\ UNCHANGED <<plans, reserved, steps, ran, exchange>>
      /\ device' = IF host.transferring THEN CleanUp(device) ELSE device
      /\ host' = [host EXCEPT !.at = "raised"]
  BY DEF Raise, Running
<1>2. host'.at = "raised" /\ host'.transferring = host.transferring
  BY <1>1, RunningFacts DEF Host
<1>3. /\ device \in FitDevice /\ Len(steps) \in Nat \ {0} /\ DOMAIN steps = 1 .. Len(steps)
      /\ OrderOf(device) /\ OfSteps(device, ran, steps)
  BY <1>1, RunningFacts, OrderFacts
<1>4. CASE ~host.transferring
  <2>1. Progress(host', device', ran, steps)
    BY <1>1, <1>2, <1>3, <1>4 DEF Progress, Running
  <2> QED BY <1>1, <1>2, <1>3, <1>4, <2>1, HostOrder
<1>5. CASE host.transferring
  <2> DEFINE d == TransferWaitsCaller(device)
             e == CallerWaitsTransfer(d)
             t == d.transfer
  <2>1. device' = e
    BY <1>1, <1>5 DEF CleanUp
  <2>2. PICK y : IsWait(y) /\ Grows(device, d, {y})
    BY <1>3, TransferWaitGrows
  <2>3. PICK z \in Op : z.waits = Queued(device.caller) /\ t = Append(device.transfer, z)
    BY <1>3, TransferWaitGrows
  <2>4. d.caller = device.caller
    BY <1>3, TransferWaitGrows
  <2> HIDE DEF d
  <2>5. d \in FitDevice /\ OrderOf(d)
    BY <2>2 DEF Grows
  <2>6. PICK y2 : IsWait(y2) /\ Grows(d, e, {y2})
    BY <1>3, <2>5, CallerWaitGrows
  <2>7. PICK z2 \in Op : z2.kind = "wait" /\ z2.waits = Queued(t) /\ e.caller = Append(device.caller, z2)
    BY <1>3, <2>4, <2>5, CallerWaitGrows
  <2>8. e.transfer = t
    BY <1>3, <2>5, CallerWaitGrows
  <2> HIDE DEF e
  <2>9. Grows(device, e, {y} \cup {y2})
    BY <2>2, <2>6, GrowsAgain
  <2>10. OfSteps(e, ran, steps)
    BY <1>3, <2>2, <2>6, <2>9, OfStepsGrows
  <2>11. device.caller \in Seq(Op) /\ device.transfer \in Seq(Op) /\ t \in Seq(Op)
    BY <1>3, <2>5, FitQueues
  <2>12. /\ Len(device.caller) \in Nat /\ DOMAIN device.caller = 1 .. Len(device.caller)
         /\ e.caller # <<>> /\ Len(e.caller) = Len(device.caller) + 1
         /\ DOMAIN e.caller = 1 .. Len(device.caller) + 1
         /\ e.caller[Len(e.caller)] = z2
         /\ \A i \in 1 .. Len(device.caller) : e.caller[i] = device.caller[i]
    BY <2>7, <2>11, AppendFacts, AppendProperties
  <2>13. t # <<>> /\ t[Len(t)] = z
    BY <2>3, <2>11, AppendProperties
  <2>14. Closed(e.caller, e.transfer)
    BY <2>7, <2>8, <2>12 DEF Closed, Queued
  <2>15. Closed(e.transfer, e.caller)
    <3> SUFFICES ASSUME NEW i \in DOMAIN e.caller, e.caller[i].kind # "wait"
                 PROVE  Id(e.caller[i]) \in Queued(device.caller)
      BY <2>3, <2>8, <2>13 DEF Closed
    <3>1. i \in DOMAIN device.caller /\ e.caller[i] = device.caller[i]
      BY <2>7, <2>12
    <3> QED BY <3>1 DEF Queued
  <2>16. Progress(host', device', ran, steps)
    BY <1>2, <2>1, <2>10 DEF Progress, Running
  <2>17. OrderOf(device')
    BY <2>1, <2>6 DEF Grows
  <2> QED BY <1>1, <2>1, <2>14, <2>15, <2>16, <2>17, HostOrder
<1> QED BY <1>4, <1>5

-----------------------------------------------------------------------------
(* Each action preserves the order: the optimizer *)

LEMMA PlanOrders ==
  ASSUME OInv, NEW list \in Plans, Plan(list)
  PROVE  OInv'
<1>1. host.at = "idle" /\ UNCHANGED <<steps, host, device, ran, exchange>>
  BY DEF Plan
<1>2. ~Running(host')
  BY <1>1 DEF Running
<1>3. Core(ran', device'.caller, device'.transfer, steps')
  BY <1>1 DEF OInv, Core
<1> QED BY <1>1, <1>2, <1>3, OrderAfter DEF OInv

LEMMA StepOrders == IInv /\ OInv /\ Step => OInv'
<1> SUFFICES ASSUME IInv, OInv, Step PROVE OInv'
  OBVIOUS
<1> DEFINE n == Len(steps)
           c == device.caller
           t == device.transfer
           z == [kind |-> "backward", step |-> n + 1, plan |-> 0, slot |-> LocalSlot, waits |-> {}]
<1>1. /\ host.at = "idle" /\ plans # <<>> /\ UNCHANGED <<plans, reserved, ran, exchange>>
      /\ steps' = Append(steps, plans)
      /\ device' = [device EXCEPT !.caller = Append(@, z)]
      /\ host'.at = "bucket" /\ host'.plan_index = 1 /\ host'.next_plan_to_prefetch = 1
      /\ host'.transferring = FALSE /\ host'.previous = <<>> /\ host'.prefetched = <<>>
  BY DEF Step
<1>2. /\ n \in Nat /\ DOMAIN steps = 1 .. n /\ steps \in Seq(Plans) /\ plans \in Plans
      /\ device \in FitDevice /\ Len(plans) \in Nat /\ DOMAIN plans = 1 .. Len(plans)
  BY <1>1, TypeFacts DEF IInv, TypeOK
<1>3. /\ DOMAIN steps' = 1 .. n + 1 /\ \A i \in 1 .. n : steps'[i] = steps[i]
      /\ steps'[n + 1] = plans /\ Len(steps') = n + 1
  BY <1>1, <1>2, AppendProperties, LenProperties
<1>4. c \in Seq(Op) /\ t \in Seq(Op)
  BY <1>2, FitQueues
<1>5. OrderOf(device) /\ OfSteps(device, ran, steps) /\ SeenTo(host, device, ran, steps)
  BY <1>1 DEF OInv, OrderOf, Core, Progress
<1>6. Core(ran, c, t, steps')
  <2>1. \A a \in Nat \X Nat : Known(ran, c, t, Brought(a)) => a[1] \in DOMAIN steps
    BY <1>5 DEF OfSteps, Has
  <2>2. \A i \in Nat : Known(ran, c, t, Backward(i)) => i \in DOMAIN steps
    BY <1>5 DEF OfSteps, Has
  <2>3. Core(ran, c, t, steps)
    BY <1>5 DEF OrderOf
  <2>4. n \in Nat /\ DOMAIN steps = 1 .. n /\ DOMAIN steps' = 1 .. n + 1
    BY <1>2, <1>3
  <2>5. \A i \in 1 .. n : steps'[i] = steps[i]
    BY <1>3
  <2> HIDE DEF n, c, t
  <2> QED BY <1>4, <2>1, <2>2, <2>3, <2>4, <2>5, StepCore
<1>7. z \in Op /\ Id(z) = Backward(n + 1)
  BY <1>2 DEF Op, Kinds, Id, Backward
<1>8. \A a \in BucketsOf(steps') :
        /\ a \in Nat \X Nat /\ a[1] \in 1 .. n + 1 /\ a[2] \in Nat
        /\ a[1] # n + 1 => a \in BucketsOf(steps) /\ Updated(steps', a) = Updated(steps, a)
        /\ a[1] = n + 1 => a[2] \in DOMAIN plans
  BY <1>2, <1>3 DEF BucketsOf, Updated, IsLocal
<1>9. \A a \in BucketsOf(steps) : /\ Has(ran, device, Brought(a)) => Has(ran, device, Returned(a))
                                  /\ CallerSure(ran, device, Updated(steps, a))
  BY <1>1, <1>5 DEF SeenTo, Unreturned, Unreleased, Running
<1>10. CallerMayQueue(ran, c, t, steps', z)
  <2>1. ~Known(ran, c, t, Id(z))
    BY <1>2, <1>5, <1>7 DEF OfSteps, Has
  <2>2. n \in DOMAIN steps' => Sure(ran, c, Backward(n))
    <3> SUFFICES ASSUME n \in DOMAIN steps' PROVE Sure(ran, c, Backward(n))
      OBVIOUS
    <3>1. Has(ran, device, Backward(n)) /\ <<0, 0>> \in Nat \X Nat
      BY <1>2, <1>3, <1>5 DEF OfSteps
    <3>2. Backward(n) \in ran \/ In(c, Backward(n))
      BY <1>2, <1>5, <3>1, QueuedSure
    <3> QED BY <3>2 DEF Sure, In
  <2>3. \A a \in BucketsOf(steps') : a[1] + 1 = n + 1 => Sure(ran, c, Updated(steps', a))
    <3> SUFFICES ASSUME NEW a \in BucketsOf(steps'), a[1] + 1 = n + 1
                 PROVE  Sure(ran, c, Updated(steps', a))
      OBVIOUS
    <3>1. a[1] # n + 1
      BY <1>2, <1>8
    <3> QED BY <1>8, <1>9, <3>1 DEF CallerSure
  <2>4. n + 1 \in DOMAIN steps' /\ (n + 1) - 1 = n
    BY <1>2, <1>3
  <2> QED BY <2>1, <2>2, <2>3, <2>4 DEF CallerMayQueue, CallerKinds, OpOf
<1>11. device'.caller = Append(c, z) /\ device'.transfer = t
  BY <1>1, <1>2 DEF FitDevice
<1> HIDE DEF c, t, z
<1>12. Core(ran, device'.caller, device'.transfer, steps')
  <2>1. DOMAIN steps' \subseteq Nat
    BY <1>3
  <2> QED BY <1>4, <1>6, <1>7, <1>10, <1>11, <2>1, CallerAppend
<1>13. /\ \A x : Has(ran, device', x) <=> Has(ran, device, x) \/ x = Backward(n + 1)
       /\ \A x : CallerSure(ran, device, x) => CallerSure(ran, device', x)
  BY <1>4, <1>7, <1>11, InAppend, SureAppend DEF Has, Known, CallerSure, c, t
<1>14. OfSteps(device', ran, steps')
  <2>1. ASSUME NEW a \in Nat \X Nat,
               NEW x \in {Brought(a), Computed(a), Local(a), Returned(a), Released(a)},
               Has(ran, device', x)
        PROVE  a[1] \in DOMAIN steps'
    <3>1. x # Backward(n + 1)
      BY <1>2, Names
    <3>2. a[1] \in DOMAIN steps
      BY <1>5, <1>13, <2>1, <3>1 DEF OfSteps
    <3> QED BY <1>2, <1>3, <3>2
  <2>2. ASSUME NEW i \in Nat PROVE Has(ran, device', Backward(i)) <=> i \in DOMAIN steps'
    <3>1. Backward(i) = Backward(n + 1) <=> i = n + 1
      BY DEF Backward
    <3> QED BY <1>2, <1>3, <1>5, <1>13, <3>1 DEF OfSteps
  <2> QED BY <2>1, <2>2 DEF OfSteps
<1>15. \A a \in Nat \X Nat : a[1] = n + 1 =>
         \A x \in {Brought(a), Computed(a), Local(a), Returned(a), Released(a)} :
           ~Has(ran, device', x)
  <2> SUFFICES ASSUME NEW a \in Nat \X Nat, a[1] = n + 1,
                      NEW x \in {Brought(a), Computed(a), Local(a), Returned(a), Released(a)}
               PROVE  ~Has(ran, device', x)
    OBVIOUS
  <2>1. x # Backward(n + 1)
    BY <1>2, Names
  <2>2. a[1] \notin DOMAIN steps
    BY <1>2
  <2> QED BY <1>5, <1>13, <2>1, <2>2 DEF OfSteps
<1>16. SeenTo(host', device', ran, steps')
  <2> SUFFICES ASSUME NEW a \in BucketsOf(steps')
               PROVE  /\ Has(ran, device', Brought(a)) => Has(ran, device', Returned(a))
                      /\ CallerSure(ran, device', Updated(steps', a)) \/ Unreleased(host', n + 1, a)
    BY <1>3 DEF SeenTo
  <2>1. CASE a[1] = n + 1
    <3>1. a[2] >= 1
      BY <1>2, <1>8, <2>1
    <3> QED BY <1>1, <1>8, <1>15, <2>1, <3>1 DEF Unreleased, Running
  <2>2. CASE a[1] # n + 1
    <3>1. Brought(a) # Backward(n + 1)
      BY <1>2, <1>8, Names
    <3> QED BY <1>8, <1>9, <1>13, <2>2, <3>1
  <2> QED BY <2>1, <2>2
<1>17. OwnQueued(host', ran, device', n + 1)
  <2> SUFFICES ASSUME NEW p \in Nat
               PROVE  \A x \in {Brought(<<n + 1, p>>), Computed(<<n + 1, p>>), Local(<<n + 1, p>>),
                                Returned(<<n + 1, p>>), Released(<<n + 1, p>>)} :
                        ~Has(ran, device', x)
    BY DEF OwnQueued
  <2>1. <<n + 1, p>> \in Nat \X Nat /\ <<n + 1, p>>[1] = n + 1
    BY <1>2
  <2> HIDE DEF n
  <2> QED BY <1>15, <2>1
<1>18. InHand(host', device', n + 1)
  <2>1. DOMAIN host'.prefetched = {}
    BY <1>1
  <2> QED BY <1>1, <2>1 DEF InHand
<1>19. Progress(host', device', ran', steps')
  BY <1>1, <1>3, <1>14, <1>16, <1>17, <1>18 DEF Progress
<1>20. ExchangeHeld(ran, exchange, steps')
  <2> SUFFICES ASSUME NEW a \in BucketsOf(steps'), ~IsLocal(steps', a), Brought(a) \in ran,
                      Returned(a) \notin ran
               PROVE  exchange[SlotIn(steps', a)] = IF Computed(a) \in ran THEN Computed(a) ELSE Brought(a)
    BY DEF ExchangeHeld
  <2>1. a[1] # n + 1
    <3>1. Has(ran, device', Brought(a))
      BY DEF Has, Known
    <3> QED BY <1>8, <1>15, <3>1
  <2>2. a \in BucketsOf(steps) /\ IsLocal(steps, a) = IsLocal(steps', a) /\ SlotIn(steps, a) = SlotIn(steps', a)
    BY <1>2, <1>3, <1>8, <2>1 DEF IsLocal, SlotIn, BucketsOf
  <2>3. ExchangeHeld(ran, exchange, steps)
    BY DEF OInv
  <2> QED BY <2>2, <2>3 DEF ExchangeHeld
<1> QED BY <1>1, <1>12, <1>19, <1>20, OrderAfter
-----------------------------------------------------------------------------
(* Each action preserves the order: the streams *)

\* What the first operation of a queue runs after, ran.
LEMMA AfterHead ==
  ASSUME NEW r, NEW q \in Seq(Op), q # <<>>, Head(q).waits \subseteq r, NEW x,
         After(r, q, x, Id(Head(q)))
  PROVE  x \in r
<1> SUFFICES ASSUME x \notin r PROVE FALSE
  OBVIOUS
<1>1. Head(q) = q[1] /\ 1 \in DOMAIN q
  BY TailFacts
<1>2. x \notin q[1].waits
  BY <1>1
<1>3. \E i \in 1 .. 1 - 1 : x = Id(q[i]) \/ x \in q[i].waits
  BY <1>1, <1>2 DEF After
<1> QED BY <1>3

\* The first operation of a queue: it did not run, and is an operation of a plan.
LEMMA HeadFacts ==
  ASSUME NEW r, NEW c \in Seq(Op), NEW t \in Seq(Op), NEW S, Core(r, c, t, S),
         NEW q \in {c, t}, q # <<>>
  PROVE  /\ Head(q) \in Op /\ OpOf(S, Head(q))
         /\ q = c => Head(q).kind \in CallerKinds
         /\ q = t => Head(q).kind \in TransferKinds
         /\ Head(q).kind # "wait" => Id(Head(q)) \notin r
<1>1. Head(q) = q[1] /\ 1 \in DOMAIN q /\ Head(q) \in Op
  BY TailFacts
<1>2. Queues(c, t, S) /\ Fresh(r, q)
  BY DEF Core
<1> QED BY <1>1, <1>2 DEF Queues, Fresh, OpOf

\* A bucket whose update runs, or whose inputs are brought, has its slot for itself.
LEMMA AloneInSlot ==
  ASSUME NEW r, NEW c \in Seq(Op), NEW t \in Seq(Op), NEW S, Core(r, c, t, S),
         NEW a \in BucketsOf(S), ~IsLocal(S, a), Computed(a) \notin r,
         \/ Brought(a) \in r
         \/ t # <<>> /\ Head(t).waits \subseteq r /\ Id(Head(t)) = Brought(a),
         NEW b \in BucketsOf(S), b # a, ~IsLocal(S, b), SlotIn(S, b) = SlotIn(S, a),
         Brought(b) \in r
  PROVE  Returned(b) \in r
<1>1. a \in Nat \X Nat
  BY DEF BucketsOf
<1>2. Returned(a) \notin r
  BY <1>1 DEF Core, Ordered, After
<1>3. After(r, t, Returned(a), Brought(b)) \/ After(r, t, Returned(b), Brought(a))
  BY DEF Core, Ordered, SlotOrder
<1>4. After(r, t, Returned(b), Brought(a))
  BY <1>2, <1>3 DEF After
<1>5. CASE Brought(a) \in r
  BY <1>4, <1>5 DEF After
<1>6. CASE t # <<>> /\ Head(t).waits \subseteq r /\ Id(Head(t)) = Brought(a)
  BY <1>4, <1>6, AfterHead
<1> QED BY <1>5, <1>6

\* The slot of a redistributed bucket.
LEMMA SlotInFacts ==
  ASSUME TypeOK, NEW a \in BucketsOf(steps), ~IsLocal(steps, a)
  PROVE  SlotIn(steps, a) \in Slot
<1>1. a[1] \in DOMAIN steps /\ a[2] \in DOMAIN steps[a[1]] /\ ~steps[a[1]][a[2]].local
  BY DEF BucketsOf, IsLocal
<1>2. steps[a[1]] \in Seq(BucketPlan)
  BY <1>1, TypeFacts
<1>3. RedistributedBefore(steps[a[1]], a[2]) \in Nat
  BY <1>1, <1>2, RedistributedFacts, PlanFacts
<1>4. SlotIn(steps, a) = SlotAt(RedistributedBefore(steps[a[1]], a[2]))
  BY <1>1 DEF SlotIn, SlotOf, SlotAt
<1> QED BY <1>3, <1>4, SlotAtFacts, PipelineConstantsOK

\* The slots still hold what their buckets need once an operation ran.
LEMMA ExchangeRuns ==
  ASSUME IInv, OInv, NEW q \in {device.caller, device.transfer}, q # <<>>,
         Head(q).waits \subseteq ran, Ran(Head(q))
  PROVE  ExchangeHeld(ran', exchange', steps)
<1> DEFINE h == Head(q)
           a0 == <<h.step, h.plan>>
           c == device.caller
           t == device.transfer
<1>1. /\ ran' = ran \cup {Id(h)}
      /\ exchange' = IF h.kind \in {"storage_to_compute", "compute"}
                     THEN [exchange EXCEPT ![h.slot] = Id(h)] ELSE exchange
  BY DEF Ran
<1>2. c \in Seq(Op) /\ t \in Seq(Op) /\ TypeOK /\ exchange \in [Slot -> OpId]
  BY FitQueues DEF IInv, TypeOK
<1>3. Core(ran, c, t, steps) /\ ExchangeHeld(ran, exchange, steps)
  BY DEF OInv, Core
<1>4. /\ h \in Op /\ OpOf(steps, h) /\ (q = c => h.kind \in CallerKinds)
      /\ (q = t => h.kind \in TransferKinds) /\ (h.kind # "wait" => Id(h) \notin ran)
  BY <1>2, <1>3, HeadFacts
<1>5. h.waits \subseteq ran
  OBVIOUS
<1>6. h.kind = "storage_to_compute" => q = t
  BY <1>4 DEF CallerKinds
<1>7. h.kind = "compute" => q = c
  BY <1>4 DEF TransferKinds
<1>8. CASE h.kind \in {"storage_to_compute", "compute"}
  <2>1. /\ a0 \in BucketsOf(steps) /\ ~IsLocal(steps, a0) /\ h.slot = SlotIn(steps, a0)
        /\ a0 \in Nat \X Nat
    BY <1>4, <1>8 DEF OpOf, Op
  <2>2. h.slot \in Slot
    BY <1>2, <2>1, SlotInFacts
  <2>3. Id(h) = IF h.kind = "compute" THEN Computed(a0) ELSE Brought(a0)
    BY <1>8 DEF Id, Computed, Brought
  <2>4. Id(h) \notin ran
    BY <1>4, <1>8
  <2>5. /\ After(ran, c, Brought(a0), Computed(a0))
    BY <1>3, <2>1 DEF Core, Ordered
  <2>6. Computed(a0) \notin ran /\ (h.kind = "compute" => Brought(a0) \in ran)
    <3>1. CASE h.kind = "compute"
      <4>1. Computed(a0) \notin ran /\ q = c /\ Id(Head(c)) = Computed(a0)
        BY <1>7, <2>3, <2>4, <3>1
      <4> QED BY <1>2, <2>5, <4>1, AfterHead
    <3>2. CASE h.kind # "compute"
      BY <2>3, <2>4, <2>5, <3>2 DEF After
    <3> QED BY <3>1, <3>2
  <2>7. ASSUME NEW b \in BucketsOf(steps), b # a0, ~IsLocal(steps, b),
               SlotIn(steps, b) = SlotIn(steps, a0), Brought(b) \in ran
        PROVE  Returned(b) \in ran
    <3>1. \/ Brought(a0) \in ran
          \/ t # <<>> /\ Head(t).waits \subseteq ran /\ Id(Head(t)) = Brought(a0)
      BY <1>6, <1>8, <2>3, <2>6
    <3> HIDE DEF a0, c, t
    <3> QED BY <1>2, <1>3, <2>1, <2>6, <2>7, <3>1, AloneInSlot
  <2>8. exchange' = [exchange EXCEPT ![h.slot] = Id(h)]
    BY <1>1, <1>8
  <2> HIDE DEF h, a0
  <2>9. ASSUME NEW a \in BucketsOf(steps), ~IsLocal(steps, a), Brought(a) \in ran',
               Returned(a) \notin ran'
        PROVE  exchange'[SlotIn(steps, a)] = IF Computed(a) \in ran' THEN Computed(a) ELSE Brought(a)
    <3>1. SlotIn(steps, a) \in Slot /\ a \in Nat \X Nat
      BY <1>2, <2>9, SlotInFacts DEF BucketsOf
    <3>2. CASE a = a0
      <4>1. exchange'[SlotIn(steps, a)] = Id(h)
        BY <1>2, <2>1, <2>2, <2>8, <3>2
      <4>2. Computed(a0) \in ran' <=> h.kind = "compute"
        BY <1>1, <2>1, <2>3, <2>6, Names
      <4> QED BY <2>3, <3>2, <4>1, <4>2
    <3>3. CASE a # a0
      <4>1. Brought(a) \in ran /\ Returned(a) \notin ran /\ (Computed(a) \in ran' <=> Computed(a) \in ran)
        BY <1>1, <2>1, <2>3, <2>9, <3>1, <3>3, Names
      <4>2. SlotIn(steps, a) # h.slot
        BY <2>1, <2>7, <2>9, <3>3, <4>1
      <4>3. exchange'[SlotIn(steps, a)] = exchange[SlotIn(steps, a)]
        BY <1>2, <2>8, <3>1, <4>2
      <4> QED BY <1>3, <2>9, <4>1, <4>3 DEF ExchangeHeld
    <3> QED BY <3>2, <3>3
  <2> QED BY <2>9 DEF ExchangeHeld
<1>9. CASE h.kind \notin {"storage_to_compute", "compute"}
  <2>1. exchange' = exchange
    BY <1>1, <1>9
  <2>2. \A a : Brought(a) # Id(h) /\ Computed(a) # Id(h)
    BY <1>9 DEF Id, Brought, Computed
  <2> HIDE DEF h
  <2> QED BY <1>1, <1>3, <2>1, <2>2 DEF ExchangeHeld
<1> QED BY <1>8, <1>9

\* Nothing that was queued is forgotten when it runs.
LEMMA StreamProgress ==
  ASSUME OInv, UNCHANGED <<plans, steps, host>>, device'.recorded = device.recorded,
         \A x : Has(ran', device', x) <=> Has(ran, device, x),
         \A x : CallerSure(ran, device, x) => CallerSure(ran', device', x),
         \A x : TransferSure(ran, device, x) => TransferSure(ran', device', x)
  PROVE  Progress(host', device', ran', steps')
<1>1. Progress(host, device, ran, steps)
  BY DEF OInv
<1>2. OfSteps(device, ran, steps) => OfSteps(device', ran', steps)
  BY DEF OfSteps
<1>3. SeenTo(host, device, ran, steps) => SeenTo(host, device', ran', steps)
  BY DEF SeenTo
<1>4. OwnQueued(host, ran, device, Len(steps)) => OwnQueued(host, ran', device', Len(steps))
  BY DEF OwnQueued
<1>5. InHand(host, device, Len(steps)) => InHand(host, device', Len(steps))
  BY DEF InHand
<1>6. Progress(host, device', ran', steps)
  BY <1>1, <1>2, <1>3, <1>4, <1>5 DEF Progress
<1> QED BY <1>6

\* The streams stay ordered after an exception.
LEMMA ClosedRun ==
  ASSUME NEW r, NEW q \in Seq(Op), NEW o \in Seq(Op), q # <<>>, Head(q).waits \subseteq r,
         Fresh(r, o), Closed(q, o), Closed(o, q)
  PROVE  Closed(Tail(q), o) /\ Closed(o, Tail(q))
<1> DEFINE u == Tail(q)
<1>1. /\ u \in Seq(Op) /\ Len(q) \in Nat /\ Len(q) >= 1 /\ Head(q) = q[1]
      /\ DOMAIN u = 1 .. Len(q) - 1 /\ Len(u) = Len(q) - 1
      /\ \A i \in 1 .. Len(q) - 1 : u[i] = q[i + 1] /\ i + 1 \in DOMAIN q
  BY TailFacts
<1>2. Closed(o, u)
  <2> HIDE DEF u
  <2> QED BY <1>1 DEF Closed
<1>3. ASSUME NEW i \in DOMAIN o, o[i].kind # "wait"
      PROVE  u # <<>> /\ Id(o[i]) \in u[Len(u)].waits
  <2>1. Id(o[i]) \in q[Len(q)].waits /\ Id(o[i]) \notin r
    BY <1>3 DEF Closed, Fresh
  <2>2. Len(q) # 1
    BY <1>1, <2>1
  <2>3. Len(q) - 1 \in 1 .. Len(q) - 1 /\ (Len(q) - 1) + 1 = Len(q)
    BY <1>1, <2>2
  <2>4. u[Len(u)] = q[Len(q)]
    BY <1>1, <2>3
  <2>5. Len(u) # 0
    BY <1>1, <2>3
  <2>6. Len(<<>>) = 0
    BY SMT
  <2> HIDE DEF u
  <2>7. u # <<>>
    BY <2>5, <2>6, Zenon
  <2> QED BY <2>1, <2>4, <2>7
<1> QED BY <1>2, <1>3 DEF Closed

LEMMA CallerRunsOrders == IInv /\ OInv /\ CallerRuns => OInv'
<1> SUFFICES ASSUME IInv, OInv, CallerRuns PROVE OInv'
  OBVIOUS
<1> DEFINE c == device.caller
           t == device.transfer
           h == Head(c)
<1>1. /\ c # <<>> /\ h.waits \subseteq ran /\ device' = [device EXCEPT !.caller = Tail(@)]
      /\ Ran(h) /\ ran' = ran \cup {Id(h)} /\ UNCHANGED <<plans, reserved, steps, host>>
  BY DEF CallerRuns, Runnable, Ran
<1>2. c \in Seq(Op) /\ t \in Seq(Op) /\ device \in FitDevice /\ DOMAIN steps \subseteq Nat
  BY FitQueues, TypeFacts DEF IInv
<1>3. /\ device'.caller = Tail(c) /\ device'.transfer = t /\ device'.recorded = device.recorded
  BY <1>1, <1>2 DEF FitDevice
<1>4. Core(ran, c, t, steps)
  BY DEF OInv, Core
<1>5. ExchangeHeld(ran', exchange', steps)
  BY <1>1, ExchangeRuns
<1> HIDE DEF c, t, h
<1>6. Core(ran', device'.caller, device'.transfer, steps)
  <2>1. Core(ran \cup {Id(Head(c))}, Tail(c), t, steps)
    <3>1. Head(c).waits \subseteq ran
      BY <1>1 DEF h
    <3> QED BY <3>1, <1>1, <1>2, <1>4, CallerRunsCore
  <2> QED BY <2>1, <1>1, <1>3 DEF h
<1>7. \A x : In(c, x) <=> In(Tail(c), x) \/ x = Id(h)
  BY <1>1, <1>2, RunFacts DEF h
<1>8. \A x : Has(ran', device', x) <=> Has(ran, device, x)
  <2> SUFFICES ASSUME NEW x PROVE Has(ran', device', x) <=> Has(ran, device, x)
    OBVIOUS
  <2> QED BY <1>1, <1>3, <1>7 DEF Has, Known, c, t
<1>9. /\ \A x : CallerSure(ran, device, x) => CallerSure(ran', device', x)
      /\ \A x : TransferSure(ran, device, x) => TransferSure(ran', device', x)
  BY <1>1, <1>2, <1>3, RunFacts DEF CallerSure, TransferSure, c, t, h
<1>10. Progress(host', device', ran', steps')
  BY <1>1, <1>3, <1>8, <1>9, StreamProgress
<1>11. host'.at = "raised" /\ host'.transferring =>
         Closed(device'.caller, device'.transfer) /\ Closed(device'.transfer, device'.caller)
  BY <1>1, <1>2, <1>3, ClosedRun DEF OInv, c, t, h
<1> QED BY <1>1, <1>5, <1>6, <1>10, <1>11, OrderAfter

LEMMA TransferRunsOrders == IInv /\ OInv /\ TransferRuns => OInv'
<1> SUFFICES ASSUME IInv, OInv, TransferRuns PROVE OInv'
  OBVIOUS
<1> DEFINE c == device.caller
           t == device.transfer
           h == Head(t)
<1>1. /\ t # <<>> /\ h.waits \subseteq ran /\ device' = [device EXCEPT !.transfer = Tail(@)]
      /\ Ran(h) /\ ran' = ran \cup {Id(h)} /\ UNCHANGED <<plans, reserved, steps, host>>
  BY DEF TransferRuns, Runnable, Ran
<1>2. c \in Seq(Op) /\ t \in Seq(Op) /\ device \in FitDevice /\ DOMAIN steps \subseteq Nat
  BY FitQueues, TypeFacts DEF IInv
<1>3. /\ device'.transfer = Tail(t) /\ device'.caller = c /\ device'.recorded = device.recorded
  BY <1>1, <1>2 DEF FitDevice
<1>4. Core(ran, c, t, steps)
  BY DEF OInv, Core
<1>5. ExchangeHeld(ran', exchange', steps)
  BY <1>1, ExchangeRuns
<1> HIDE DEF c, t, h
<1>6. Core(ran', device'.caller, device'.transfer, steps)
  <2>1. Core(ran \cup {Id(Head(t))}, c, Tail(t), steps)
    <3>1. Head(t).waits \subseteq ran
      BY <1>1 DEF h
    <3> QED BY <3>1, <1>1, <1>2, <1>4, TransferRunsCore
  <2> QED BY <2>1, <1>1, <1>3 DEF h
<1>7. \A x : In(t, x) <=> In(Tail(t), x) \/ x = Id(h)
  BY <1>1, <1>2, RunFacts DEF h
<1>8. \A x : Has(ran', device', x) <=> Has(ran, device, x)
  <2> SUFFICES ASSUME NEW x PROVE Has(ran', device', x) <=> Has(ran, device, x)
    OBVIOUS
  <2> QED BY <1>1, <1>3, <1>7 DEF Has, Known, c, t
<1>9. /\ \A x : CallerSure(ran, device, x) => CallerSure(ran', device', x)
      /\ \A x : TransferSure(ran, device, x) => TransferSure(ran', device', x)
  BY <1>1, <1>2, <1>3, RunFacts DEF CallerSure, TransferSure, c, t, h
<1>10. Progress(host', device', ran', steps')
  BY <1>1, <1>3, <1>8, <1>9, StreamProgress
<1>11. host'.at = "raised" /\ host'.transferring =>
         Closed(device'.caller, device'.transfer) /\ Closed(device'.transfer, device'.caller)
  BY <1>1, <1>2, <1>3, ClosedRun DEF OInv, c, t, h
<1> QED BY <1>1, <1>5, <1>6, <1>10, <1>11, OrderAfter

-----------------------------------------------------------------------------
(* The invariant, and what it says of the slots *)

LEMMA InitOInv == Init => OInv
<1> SUFFICES ASSUME Init PROVE OInv
  OBVIOUS
<1>1. /\ host.at = "idle" /\ steps = <<>> /\ ran = {Nothing}
      /\ device.caller = <<>> /\ device.transfer = <<>>
  BY DEF Init
<1>2. DOMAIN steps = {} /\ DOMAIN device.caller = {} /\ DOMAIN device.transfer = {}
  BY <1>1
<1>3. BucketsOf(steps) = {}
  BY <1>2 DEF BucketsOf
<1>4. \A x : x # Nothing => ~Has(ran, device, x)
  BY <1>1, <1>2 DEF Has, Known, In
<1>5. /\ \A a : Brought(a) # Nothing /\ Computed(a) # Nothing /\ Returned(a) # Nothing
                /\ Local(a) # Nothing /\ Released(a) # Nothing
      /\ \A n : Backward(n) # Nothing
  BY DEF Brought, Computed, Returned, Local, Released, Backward, Nothing
<1>6. OfSteps(device, ran, steps)
  BY <1>2, <1>4, <1>5 DEF OfSteps
<1>7. Progress(host, device, ran, steps)
  BY <1>1, <1>3, <1>6 DEF Progress, SeenTo, Running
<1>8. Ordered(ran, device.caller, device.transfer, steps)
  BY <1>1, <1>2, <1>3, <1>5 DEF Ordered, SlotOrder, After
<1> QED BY <1>1, <1>2, <1>3, <1>7, <1>8 DEF OInv, Queues, Fresh, ExchangeHeld

LEMMA NextOInv == IInv /\ OInv /\ [Next]_vars => OInv'
<1> SUFFICES ASSUME IInv, OInv, [Next]_vars PROVE OInv'
  OBVIOUS
<1>1. ASSUME NEW list \in Plans, Plan(list) PROVE OInv'
  BY <1>1, PlanOrders
<1>2. CASE Step BY <1>2, StepOrders
<1>3. CASE RunStep
  BY <1>3, RunLocalBucketOrders, StartRedistributedBucketOrders,
     ComputeRedistributedBucketOrders, PrefetchNextOrders, EndBucketOrders, EndStepOrders
     DEF RunStep
<1>4. CASE Raise BY <1>4, RaiseOrders
<1>5. CASE CallerRuns BY <1>5, CallerRunsOrders
<1>6. CASE TransferRuns BY <1>6, TransferRunsOrders
<1>7. CASE UNCHANGED vars
  <2>1. /\ plans' = plans /\ steps' = steps /\ host' = host
        /\ device' = device /\ ran' = ran /\ exchange' = exchange
    BY <1>7 DEF vars
  <2>2. Core(ran', device'.caller, device'.transfer, steps')
    BY <2>1 DEF OInv, Core
  <2> QED BY <2>1, <2>2, OrderAfter DEF OInv
<1> QED BY <1>1, <1>2, <1>3, <1>4, <1>5, <1>6, <1>7 DEF Next

\* The order of the streams, in every reachable state.
THEOREM OrderInvariance == Spec => [](IInv /\ OInv)
<1> QED BY InitIInv, NextIInv, InitOInv, NextOInv, PTL DEF Spec

\* No slot is overwritten before its last reader ran, whatever the plans, the slots
\* and the interleaving of the streams: an update reads what its own exchange
\* brought, the exchange back what its own update left, and no input is prepared
\* before the backward wrote the grads.
THEOREM SlotsHold == Spec => []ExchangeIntact
<1>1. IInv /\ OInv => ExchangeIntact
  <2> SUFFICES ASSUME IInv, OInv, NEW q \in {device.caller, device.transfer}, Runnable(q)
               PROVE  LET h == Head(q)
                      IN  /\ h.kind \in {"storage_to_compute", "local"} => <<"backward", h.step, 0>> \in ran
                          /\ h.kind = "compute" =>
                               exchange[h.slot] = <<"storage_to_compute", h.step, h.plan>>
                          /\ h.kind = "compute_to_storage" =>
                               exchange[h.slot] = <<"compute", h.step, h.plan>>
    BY DEF ExchangeIntact, Ready
  <2> DEFINE h == Head(q)
             a == <<h.step, h.plan>>
             c == device.caller
             t == device.transfer
  <2>1. c \in Seq(Op) /\ t \in Seq(Op) /\ q \in Seq(Op) /\ q # <<>> /\ h.waits \subseteq ran
    BY FitQueues DEF IInv, Runnable
  <2>2. Core(ran, c, t, steps) /\ ExchangeHeld(ran, exchange, steps)
    BY DEF OInv, Core
  <2>3. /\ h \in Op /\ OpOf(steps, h) /\ (q = c => h.kind \in CallerKinds)
        /\ (q = t => h.kind \in TransferKinds) /\ (h.kind # "wait" => Id(h) \notin ran)
    BY <2>1, <2>2, HeadFacts
  <2>4. a \in Nat \X Nat /\ a[1] = h.step
    BY <2>3 DEF Op
  <2>5. /\ After(ran, c, Brought(a), Computed(a)) /\ After(ran, t, Computed(a), Returned(a))
        /\ After(ran, c, Backward(h.step), Local(a)) /\ After(ran, t, Backward(h.step), Brought(a))
    BY <2>2, <2>4 DEF Core, Ordered
  <2>6. h.kind \in {"storage_to_compute", "local"} => Backward(h.step) \in ran
    <3>1. CASE h.kind = "storage_to_compute"
      <4>1. q = t /\ Id(Head(t)) = Brought(a)
        BY <2>3, <3>1 DEF CallerKinds, Id, Brought
      <4> QED BY <2>1, <2>5, <4>1, AfterHead
    <3>2. CASE h.kind = "local"
      <4>1. q = c /\ Id(Head(c)) = Local(a)
        BY <2>3, <3>2 DEF TransferKinds, Id, Local
      <4> QED BY <2>1, <2>5, <4>1, AfterHead
    <3> QED BY <3>1, <3>2
  <2>7. h.kind = "compute" => exchange[h.slot] = Brought(a)
    <3> SUFFICES ASSUME h.kind = "compute" PROVE exchange[h.slot] = Brought(a)
      OBVIOUS
    <3>1. q = c /\ Id(Head(c)) = Computed(a) /\ Computed(a) \notin ran
      BY <2>3 DEF TransferKinds, Id, Computed
    <3>2. Brought(a) \in ran
      BY <2>1, <2>5, <3>1, AfterHead
    <3>3. Returned(a) \notin ran
      BY <2>5, <3>1 DEF After
    <3>4. a \in BucketsOf(steps) /\ ~IsLocal(steps, a) /\ h.slot = SlotIn(steps, a)
      BY <2>3 DEF OpOf
    <3> QED BY <2>2, <3>1, <3>2, <3>3, <3>4 DEF ExchangeHeld
  <2>8. h.kind = "compute_to_storage" => exchange[h.slot] = Computed(a)
    <3> SUFFICES ASSUME h.kind = "compute_to_storage" PROVE exchange[h.slot] = Computed(a)
      OBVIOUS
    <3>1. q = t /\ Id(Head(t)) = Returned(a) /\ Returned(a) \notin ran
      BY <2>3 DEF CallerKinds, Id, Returned
    <3>2. Computed(a) \in ran
      BY <2>1, <2>5, <3>1, AfterHead
    <3>3. Brought(a) \in ran
      BY <2>5, <3>2 DEF After
    <3>4. a \in BucketsOf(steps) /\ ~IsLocal(steps, a) /\ h.slot = SlotIn(steps, a)
      BY <2>3 DEF OpOf
    <3> QED BY <2>2, <3>1, <3>2, <3>3, <3>4 DEF ExchangeHeld
  <2> QED BY <2>6, <2>7, <2>8 DEF Backward, Brought, Computed
<1> QED BY <1>1, OrderInvariance, PTL

\* After an exception, what either stream runs next comes after all that was queued
\* on both.
THEOREM StreamsCleanedUp == Spec => []CleanedUp
<1>1. OInv => CleanedUp
  <2> SUFFICES ASSUME OInv, host.at = "raised", host.transferring,
                      NEW q \in {device.caller, device.transfer},
                      NEW i \in DOMAIN q, q[i].kind # "wait"
               PROVE  device.caller # <<>> /\ device.transfer # <<>>
    BY DEF CleanedUp
  <2>1. q # <<>>
    OBVIOUS
  <2>2. Closed(device.caller, device.transfer) /\ Closed(device.transfer, device.caller)
    BY DEF OInv
  <2> QED BY <2>1, <2>2 DEF Closed
<1> QED BY <1>1, OrderInvariance, PTL
-----------------------------------------------------------------------------
(* The steps of MuonStep *)

\* The steps begun so far, and the buckets of the last one, in the words of this
\* module.
BegunSteps == {n \in DOMAIN steps : Backward(n) \in ran}

PendingAt(r, S, n) ==
  IF n = 0 THEN {} ELSE {p \in DOMAIN S[n] : Local(<<n, p>>) \notin r /\ Returned(<<n, p>>) \notin r}

LEMMA PendingNames ==
  ASSUME NEW r, NEW S, NEW n
  PROVE  PendingAt(r, S, n) =
           IF n = 0 THEN {}
           ELSE {p \in DOMAIN S[n] : {<<"local", n, p>>, <<"compute_to_storage", n, p>>} \cap r = {}}
<1>1. \A p : /\ Local(<<n, p>>) = <<"local", n, p>>
             /\ Returned(<<n, p>>) = <<"compute_to_storage", n, p>>
  BY DEF Local, Returned
<1>2. \A x, y : {x, y} \cap r = {} <=> x \notin r /\ y \notin r
  OBVIOUS
<1> QED BY <1>1, <1>2 DEF PendingAt

\* A set of steps that has each one's predecessor is a prefix.
LEMMA PrefixCount ==
  ASSUME NEW L \in Nat, NEW B, B \subseteq 1 .. L, \A n \in B : n > 1 => n - 1 \in B
  PROVE  Cardinality(B) \in 0 .. L /\ B = 1 .. Cardinality(B)
<1>0. \A n \in B : n \in Nat /\ n >= 1 /\ n <= L
  OBVIOUS
<1> DEFINE C == {m \in Nat \ {0} : m \notin B}
<1>1. L + 1 \in C /\ C \subseteq Nat /\ C # {}
  OBVIOUS
<1>2. PICK m \in C : \A k \in C : m <= k
  BY <1>1, LeastNatural
<1>3. m \in Nat /\ m >= 1 /\ m <= L + 1 /\ m \notin B
  BY <1>1, <1>2
<1>4. \A n \in 1 .. m - 1 : n \in B
  BY <1>2, <1>3
<1> DEFINE D == {n \in B : n > m}
<1>5. D = {}
  <2> SUFFICES ASSUME D # {} PROVE FALSE
    OBVIOUS
  <2>1. D \subseteq Nat
    BY <1>0
  <2>2. PICK d \in D : \A k \in D : d <= k
    BY <2>1, LeastNatural
  <2>3. d \in Nat /\ d > m /\ d \in B /\ d > 1
    BY <1>3, <2>2
  <2>4. d - 1 \in B /\ d - 1 # m
    BY <1>3, <2>3
  <2>5. d - 1 \in D
    BY <1>3, <2>3, <2>4
  <2> QED BY <2>2, <2>3, <2>5
<1>6. B = 1 .. m - 1
  <2>1. \A n \in B : ~(n > m) /\ n # m
    BY <1>3, <1>5
  <2>2. \A n : n \in B => n \in 1 .. m - 1
    BY <1>0, <1>3, <2>1
  <2> QED BY <1>4, <2>2
<1>7. Cardinality(1 .. m - 1) = m - 1
  BY <1>3, FS_Interval
<1> QED BY <1>3, <1>6, <1>7

\* The backwards that the device ran are those of the first steps.
LEMMA BegunFacts ==
  ASSUME IInv, OInv
  PROVE  /\ Begun \in 0 .. Len(steps) /\ Begun = Cardinality(BegunSteps)
         /\ BegunSteps = 1 .. Begun /\ IsFiniteSet(BegunSteps)
         /\ DOMAIN steps = 1 .. Len(steps) /\ Len(steps) \in Nat
<1>1. DOMAIN steps = 1 .. Len(steps) /\ Len(steps) \in Nat
  BY TypeFacts DEF IInv
<1>2. Begun = Cardinality(BegunSteps)
  BY DEF Begun, BegunSteps, Backward
<1>3. ASSUME NEW n \in BegunSteps, n > 1
      PROVE  n - 1 \in BegunSteps
  <2>1. n \in DOMAIN steps /\ n - 1 \in DOMAIN steps /\ Backward(n) \in ran
    BY <1>1, <1>3 DEF BegunSteps
  <2>2. After(ran, device.caller, Backward(n - 1), Backward(n))
    BY <2>1 DEF OInv, Ordered
  <2> QED BY <2>1, <2>2 DEF BegunSteps, After
<1>4. BegunSteps \in SUBSET (1 .. Len(steps))
  BY <1>1 DEF BegunSteps
<1>5. Cardinality(BegunSteps) \in 0 .. Len(steps) /\ BegunSteps = 1 .. Cardinality(BegunSteps)
  BY <1>1, <1>3, <1>4, PrefixCount
<1>6. IsFiniteSet(BegunSteps)
  <2>1. IsFiniteSet(1 .. Len(steps))
    BY <1>1, FS_Interval
  <2> QED BY <1>4, <2>1, FS_Subset
<1> QED BY <1>1, <1>2, <1>5, <1>6

LEMMA PendingFacts ==
  ASSUME TypeOK, NEW r, NEW n \in DOMAIN steps \cup {0}
  PROVE  PendingAt(r, steps, n) \subseteq Nat
<1> SUFFICES ASSUME n # 0 PROVE DOMAIN steps[n] \subseteq Nat
  BY DEF PendingAt
<1>1. steps[n] \in Seq(BucketPlan)
  BY TypeFacts
<1> QED BY <1>1, LenProperties

\* When the device begins the next step, every bucket of this one was updated.
LEMMA BackwardSeesUpdates ==
  ASSUME IInv, OInv, NEW n \in DOMAIN steps, device.caller # <<>>,
         Head(device.caller).waits \subseteq ran, Id(Head(device.caller)) = Backward(n),
         Backward(n) \notin ran
  PROVE  n = Begun + 1 /\ Pending = {}
<1> DEFINE c == device.caller
<1>1. c \in Seq(Op)
  BY FitQueues DEF IInv
<1>2. /\ Begun \in 0 .. Len(steps) /\ BegunSteps = 1 .. Begun
      /\ DOMAIN steps = 1 .. Len(steps) /\ Len(steps) \in Nat
  BY BegunFacts
<1>3. n > Begun
  BY <1>2 DEF BegunSteps
<1>4. n > 1 => n - 1 \in BegunSteps
  <2> SUFFICES ASSUME n > 1 PROVE n - 1 \in BegunSteps
    OBVIOUS
  <2>1. n - 1 \in DOMAIN steps
    BY <1>2
  <2>2. After(ran, c, Backward(n - 1), Backward(n))
    BY <2>1 DEF OInv, Ordered
  <2>3. Backward(n - 1) \in ran
    BY <1>1, <2>2, AfterHead
  <2> QED BY <2>1, <2>3 DEF BegunSteps
<1>5. n = Begun + 1
  BY <1>2, <1>3, <1>4
<1>6. Pending = {}
  <2>0. Pending = PendingAt(ran, steps, Begun)
    BY PendingNames DEF Pending
  <2> SUFFICES ASSUME Begun # 0, NEW p \in Pending PROVE FALSE
    BY <2>0 DEF PendingAt
  <2> DEFINE a == <<Begun, p>>
  <2>1. /\ Begun \in DOMAIN steps /\ p \in DOMAIN steps[Begun] /\ p \in Nat /\ Begun \in Nat
        /\ Local(a) \notin ran /\ Returned(a) \notin ran
    <3>1. Begun \in DOMAIN steps /\ Begun \in Nat
      BY <1>2
    <3>2. Pending \subseteq Nat
      BY <2>0, <3>1, PendingFacts DEF IInv
    <3> QED BY <2>0, <3>1, <3>2 DEF PendingAt
  <2>2. a \in BucketsOf(steps) /\ a[1] + 1 = n
    BY <1>5, <2>1 DEF BucketsOf
  <2>3. After(ran, c, Updated(steps, a), Backward(n))
    BY <2>2 DEF OInv, Ordered
  <2>4. Updated(steps, a) \in ran
    BY <1>1, <2>3, AfterHead
  <2> QED BY <2>1, <2>4 DEF Updated
<1> QED BY <1>5, <1>6

\* What the device runs is a step of MuonStep, or none.
LEMMA StreamKeepsPromise ==
  ASSUME IInv, OInv, UNCHANGED <<steps, host>>,
         NEW q \in {device.caller, device.transfer}, q # <<>>, Head(q).waits \subseteq ran,
         Ran(Head(q))
  PROVE  [Promise!Next]_(Promise!vars)
<1> DEFINE h == Head(q)
           c == device.caller
           t == device.transfer
<1>1. ran' = ran \cup {Id(h)}
  BY DEF Ran
<1>2. c \in Seq(Op) /\ t \in Seq(Op)
  BY FitQueues DEF IInv
<1>3. Core(ran, c, t, steps)
  BY DEF OInv, Core
<1>4. /\ h \in Op /\ OpOf(steps, h) /\ (q = t => h.kind \in TransferKinds)
      /\ (h.kind # "wait" => Id(h) \notin ran)
  BY <1>2, <1>3, HeadFacts
<1>5. steps' = steps /\ (host'.at = "raised") = (host.at = "raised")
  OBVIOUS
<1>6. /\ Begun \in Nat /\ Begun = Cardinality(BegunSteps) /\ IsFiniteSet(BegunSteps)
      /\ Begun' = Cardinality(BegunSteps') /\ DOMAIN steps \subseteq Nat
  <2>1. Begun' = Cardinality(BegunSteps')
    BY <1>5 DEF Begun, BegunSteps, Backward
  <2> QED BY <2>1, BegunFacts
<1>10. /\ Pending = PendingAt(ran, steps, Begun)
       /\ Pending' = PendingAt(ran', steps, Begun')
  BY <1>5, PendingNames DEF Pending
<1>7. BegunSteps' = {n \in DOMAIN steps : Backward(n) \in ran \/ Backward(n) = Id(h)}
  BY <1>1, <1>5 DEF BegunSteps
<1> HIDE DEF h, c, t
<1>8. CASE \E n \in DOMAIN steps : Id(h) = Backward(n)
  <2>1. PICK n \in DOMAIN steps : Id(h) = Backward(n)
    BY <1>8
  <2>2. h.kind = "backward"
    BY <2>1 DEF Id, Backward
  <2>3. q = c /\ Backward(n) \notin ran
    BY <1>4, <2>1, <2>2 DEF TransferKinds, c, t
  <2>4. n = Begun + 1 /\ Pending = {}
    BY <2>1, <2>3, BackwardSeesUpdates DEF c, h
  <2>5. BegunSteps' = BegunSteps \cup {n} /\ n \notin BegunSteps
    <3>1. \A m \in DOMAIN steps : Backward(m) = Backward(n) => m = n
      BY DEF Backward
    <3> QED BY <1>7, <2>1, <2>3, <3>1 DEF BegunSteps
  <2>6. Begun' = Begun + 1
    BY <1>6, <2>5, FS_AddElement
  <2>7. Pending' \in SUBSET Nat
    BY <1>10, <2>4, <2>6, PendingFacts DEF IInv
  <2> QED BY <1>5, <2>4, <2>6, <2>7 DEF Promise!Next, Promise!Backward
<1>9. CASE ~\E n \in DOMAIN steps : Id(h) = Backward(n)
  <2>1. BegunSteps' = BegunSteps
    BY <1>7, <1>9 DEF BegunSteps
  <2>2. Begun' = Begun
    BY <1>6, <2>1
  <2>3. Begun = 0 \/ Begun \in DOMAIN steps
    BY BegunFacts
  <2>4. CASE \E p \in Pending : Id(h) \in {Local(<<Begun, p>>), Returned(<<Begun, p>>)}
    <3>1. PICK p \in Pending : Id(h) \in {Local(<<Begun, p>>), Returned(<<Begun, p>>)}
      BY <2>4
    <3>2. \A x : Id(h) \in {Local(<<Begun, x>>), Returned(<<Begun, x>>)} => x = p
      BY <3>1 DEF Local, Returned
    <3>3. Pending' = Pending \ {p}
      BY <1>1, <1>10, <2>2, <3>1, <3>2 DEF PendingAt
    <3> QED BY <1>5, <2>2, <3>1, <3>3 DEF Promise!Next, Promise!Update
  <2>5. CASE ~\E p \in Pending : Id(h) \in {Local(<<Begun, p>>), Returned(<<Begun, p>>)}
    <3>1. Pending' = Pending
      BY <1>1, <1>10, <2>2, <2>5 DEF PendingAt
    <3> QED BY <1>5, <2>2, <3>1 DEF Promise!vars
  <2> QED BY <2>4, <2>5
<1> QED BY <1>8, <1>9

\* What run() and the training loop queue is no step of MuonStep, and an exception
\* ends it.
LEMMA HostKeepsPromise ==
  ASSUME IInv, OInv, [Next]_vars, ~CallerRuns, ~TransferRuns
  PROVE  [Promise!Next]_(Promise!vars)
<1>1. ran' = ran
  BY DEF Next, vars, Plan, Step, RunStep, RunLocalBucket, StartRedistributedBucket,
         ComputeRedistributedBucket, PrefetchNext, EndBucket, EndStep, Raise
<1>2. steps' = steps \/ Step
  BY DEF Next, vars, Plan, RunStep, RunLocalBucket, StartRedistributedBucket,
         ComputeRedistributedBucket, PrefetchNext, EndBucket, EndStep, Raise
<1>3. BegunSteps' = BegunSteps /\ \A n \in BegunSteps : steps'[n] = steps[n]
  <2>1. CASE steps' = steps
    BY <1>1, <2>1 DEF BegunSteps
  <2>2. CASE Step
    <3> DEFINE k == Len(steps)
    <3>1. k \in Nat /\ DOMAIN steps = 1 .. k /\ steps \in Seq(Plans) /\ plans \in Plans
      BY <2>2, TypeFacts DEF IInv, TypeOK, Step
    <3>2. steps' = Append(steps, plans)
      BY <2>2 DEF Step
    <3>3. DOMAIN steps' = 1 .. k + 1 /\ \A i \in 1 .. k : steps'[i] = steps[i]
      BY <3>1, <3>2, AppendProperties, LenProperties
    <3>4. Backward(k + 1) \notin ran
      BY <3>1 DEF OInv, Progress, OfSteps, Has, Known
    <3> HIDE DEF k
    <3> QED BY <1>1, <3>1, <3>3, <3>4 DEF BegunSteps
  <2> QED BY <1>2, <2>1, <2>2
<1>4. Begun' = Begun
  BY <1>3 DEF Begun, BegunSteps, Backward
<1>5. Pending' = Pending
  <2>1. Pending = PendingAt(ran, steps, Begun) /\ Pending' = PendingAt(ran', steps', Begun')
    BY PendingNames DEF Pending
  <2>2. Begun = 0 \/ Begun \in BegunSteps
    <3>1. Begun \in Nat /\ BegunSteps = 1 .. Begun
      BY BegunFacts
    <3> HIDE DEF BegunSteps, Begun
    <3> QED BY <3>1
  <2> QED BY <1>1, <1>3, <1>4, <2>1, <2>2 DEF PendingAt
<1>6. CASE Raise
  <2>1. host \in Host
    BY DEF IInv, TypeOK
  <2>2. host.at # "raised" /\ host'.at = "raised"
    BY <1>6, <2>1 DEF Raise, Host
  <2> QED BY <1>4, <1>5, <2>2 DEF Promise!Next, Promise!Raise
<1>7. CASE ~Raise
  <2>1. host \in Host
    BY DEF IInv, TypeOK
  <2>2. (host'.at = "raised") <=> (host.at = "raised")
    <3>1. CASE UNCHANGED host
      BY <3>1
    <3>2. CASE Step
      BY <3>2 DEF Step
    <3>3. CASE RunStep
      BY <2>1, <3>3 DEF RunStep, AtBucket, RunLocalBucket, StartRedistributedBucket,
         ComputeRedistributedBucket, PrefetchNext, EndBucket, EndStep, Host
    <3> QED BY <1>7, <3>1, <3>2, <3>3 DEF Next, vars, Plan
  <2> QED BY <1>4, <1>5, <2>2 DEF Promise!vars
<1> QED BY <1>6, <1>7

\* The pipeline's steps are steps of MuonStep, for every list of plans and every
\* interleaving: the device begins a step only when every bucket of the step before
\* was updated, it updates a bucket once, and an exception ends it all.
THEOREM StepsKeepPromise == Spec => Promise!Init /\ [][Promise!Next]_(Promise!vars)
<1>1. Init => Promise!Init
  <2> SUFFICES ASSUME Init PROVE Promise!Init
    OBVIOUS
  <2>1. {n \in DOMAIN steps : <<"backward", n, 0>> \in ran} = {} /\ host.at = "idle"
    BY DEF Init
  <2>2. Begun = 0
    BY <2>1, FS_EmptySet DEF Begun
  <2> QED BY <2>1, <2>2 DEF Promise!Init, Pending
<1>2. IInv /\ OInv /\ [Next]_vars => [Promise!Next]_(Promise!vars)
  <2> SUFFICES ASSUME IInv, OInv, [Next]_vars PROVE [Promise!Next]_(Promise!vars)
    OBVIOUS
  <2>1. CASE CallerRuns
    BY <2>1, StreamKeepsPromise DEF CallerRuns, Runnable, Ran
  <2>2. CASE TransferRuns
    BY <2>2, StreamKeepsPromise DEF TransferRuns, Runnable, Ran
  <2> QED BY <2>1, <2>2, HostKeepsPromise
<1> QED BY <1>1, <1>2, OrderInvariance, PTL DEF Spec

=============================================================================
