----------------------------- MODULE BucketStreams -----------------------------
(***************************************************************************)
(* The device streams behind the buckets of one rank (bucket_comm.py, and  *)
(* its callers in bucket_runtime.py): which buffer is used on which        *)
(* stream, which events order the streams, and when the allocator may give *)
(* a buffer's memory away.                                                 *)
(*                                                                         *)
(* The host queues everything at once; the model keeps, for every stream,  *)
(* the uses of buffers that what it runs next may overtake.                *)
(***************************************************************************)
EXTENDS Naturals, Sequences, FiniteSets, SequencesExt

CONSTANTS
  Buckets,
  Setups,        \* [buckets, fillInFinish, explicit, oneRank, maxPending, reductions]
  MaxReductions  \* bound on reductions not waited for, or stored; setup.reductions
                 \* is a setup's own

ASSUME StreamsAssumption ==
  /\ Setups \subseteq [buckets : SUBSET Buckets, fillInFinish : SUBSET Buckets,
                       explicit : SUBSET Buckets, oneRank : BOOLEAN, maxPending : Nat,
                       reductions : Nat]
  /\ MaxReductions \in Nat

VARIABLES
  setup,       \* how the model was sharded, and where it runs
  device,      \* [behind, events, raced, stolen]: see below
  live,        \* buffers something refers to
  created,     \* buckets with unsharded params
  unsharded,   \* is_unsharded
  pending,     \* bucket -> how its unshard in flight was begun
  reductions,  \* reduce_grad_states: numbers, oldest first
  retired,     \* retired_reduce_grad_states
  stored       \* bucket -> number of the reduction that is its shards' grad

vars == <<setup, device, live, created, unsharded, pending, reductions, retired, stored>>
grads == <<reductions, retired, stored>>
params == <<created, unsharded, pending>>

FillInFinish == setup.fillInFinish  \* buckets whose placement refills the full params in finish only
Explicit == setup.explicit          \* buckets the program may unshard by unshard(async_op=True)
OneRank == setup.oneRank            \* whether the mesh has one rank
MaxPending == setup.maxPending      \* max_pending_reduce_grads; 0: no bound

Streams == {"caller", "unshard", "reduce", "release", "collective"}

\* Where a reduction runs.
ReduceStream == IF OneRank THEN "caller" ELSE "reduce"

Numbers == 1 .. MaxReductions

Buffers == ({"shard", "full", "gather", "gather_here", "grad"} \X Buckets)
           \cup ({"copied_in", "reduced"} \X Numbers)

\* The stream a buffer is allocated on, whose pool takes it back.
Pool(buffer) == CASE buffer[1] = "gather" -> "unshard"
                  [] buffer[1] = "reduced" -> ReduceStream
                  [] OTHER -> "caller"
\* A use: the last on a stream of a buffer, or of its memory's allocation.
Uses == Buffers \X Streams
Events == ({"gathered"} \X Buckets) \cup ({"reduced"} \X Numbers)
None == 0

----------------------------------------------------------------------------
(* Streams. behind: the uses a stream's next work is not ordered after;     *)
(* events: the same for work ordered after an event; raced, stolen: buffers *)
(* used, or whose memory was given away, too early.                         *)

Use(d, stream, buffers) ==
  LET others == buffers \X (Streams \ {stream})
      added == buffers \X {stream}
  IN  [behind |-> [t \in Streams |-> IF t = stream THEN d.behind[t] ELSE d.behind[t] \cup added],
       events |-> [e \in Events |-> d.events[e] \cup added],
       raced |-> d.raced \cup {b \in buffers : \E t \in Streams : <<b, t>> \in d.behind[stream]},
       stolen |-> d.stolen]

WaitEvents(d, stream, events) ==
  [d EXCEPT !.behind[stream] = {use \in @ : \A e \in events : use \in d.events[e]}]
Forget(d, events) == [d EXCEPT !.events = [e \in Events |-> IF e \in events THEN {} ELSE @[e]]]
Record(d, event, stream) == [d EXCEPT !.events[event] = d.behind[stream]]

\* An event recorded on one stream, which others wait for at once.
StreamsWait(d, waiting, stream) ==
  [d EXCEPT !.behind = [t \in Streams |-> IF t \in waiting THEN @[t] \cap d.behind[stream] ELSE @[t]]]

\* Memory comes from the pool of the stream: any buffer freed into it.
Allocate(d, held, buffer) ==
  LET stream == Pool(buffer)
      free == {b \in Buffers \ held : Pool(b) = stream}
      early == {b \in free : \E t \in Streams : <<b, t>> \in d.behind[stream]}
      old == {buffer} \X Streams
  IN  Use([d EXCEPT !.behind = [t \in Streams |-> @[t] \ old],
                    !.events = [e \in Events |-> @[e] \ old],
                    !.stolen = @ \cup early],
          stream, {buffer})

----------------------------------------------------------------------------
(* Unshard. *)

Full(b) == <<"full", b>>
Shard(b) == <<"shard", b>>
Gather(b) == IF pending[b] = "shared" THEN <<"gather", b>> ELSE <<"gather_here", b>>

\* Buffers that running an unshard of a bucket writes besides the gathered ones.
RunWrites(b) == IF b \in created \ FillInFinish THEN {Full(b)} ELSE {}

Init ==
  /\ setup \in Setups
  /\ device = [behind |-> [t \in Streams |-> {}], events |-> [e \in Events |-> {}],
               raced |-> {}, stolen |-> {}]
  /\ live = {"shard"} \X setup.buckets
  /\ created = {} /\ unsharded = {}
  /\ pending = [b \in Buckets |-> "none"]
  /\ reductions = <<>> /\ retired = {}
  /\ stored = [b \in Buckets |-> None]

\* A refill has its storage allocated here unless finish alone writes it.
Refilled(b) == IF RunWrites(b) = {} THEN device ELSE Allocate(device, live, Full(b))

\* On the unshard stream, after everything the caller queued; explicit lists
\* keep several in flight there.
BeginUnshard(b) ==
  LET gather == <<"gather", b>>
      ordered == StreamsWait(Refilled(b), {"unshard"}, "caller")
      allocated == Allocate(ordered, live \cup RunWrites(b), gather)
      run == Use(allocated, "unshard", {Shard(b), gather} \cup RunWrites(b))
  IN  /\ b \notin unsharded /\ pending[b] = "none"
      /\ device' = Record(run, <<"gathered", b>>, "unshard")
      /\ live' = live \cup RunWrites(b) \cup {gather}
      /\ pending' = [pending EXCEPT ![b] = "shared"]
      /\ UNCHANGED <<setup, created, unsharded, grads>>

\* On the caller's stream, whose collective runs beside it until it waits.
BeginExplicitUnshard(b) ==
  LET gather == <<"gather_here", b>>
      allocated == Allocate(Refilled(b), live \cup RunWrites(b), gather)
      copied == Use(allocated, "caller", {Shard(b), gather})
      run == Use(StreamsWait(copied, {"collective"}, "caller"), "collective",
                 {gather} \cup RunWrites(b))
  IN  /\ b \in Explicit \ unsharded /\ pending[b] = "none"
      /\ device' = Record(run, <<"gathered", b>>, "collective")
      /\ live' = live \cup RunWrites(b) \cup {gather}
      /\ pending' = [pending EXCEPT ![b] = "explicit"]
      /\ UNCHANGED <<setup, created, unsharded, grads>>

\* StreamHandoff: the streams a buffer came from wait for its last use here.
HandedBack(d, b) ==
  Forget(IF pending[b] = "shared" THEN StreamsWait(d, {"unshard"}, "caller") ELSE d,
         {<<"gathered", b>>})

\* Waits for the gather and copies out, into storage of its own at first.
FinishUnshard(b) ==
  LET gathered == WaitEvents(device, "caller", {<<"gathered", b>>})
      fills == b \in FillInFinish \/ b \notin created
      allocated == IF fills THEN Allocate(gathered, live, Full(b)) ELSE gathered
      copied == Use(allocated, "caller", {Gather(b), Full(b)})
  IN  /\ pending[b] # "none"
      /\ device' = HandedBack(copied, b)
      /\ live' = (live \cup {Full(b)}) \ {Gather(b)}
      /\ created' = created \cup {b} /\ unsharded' = unsharded \cup {b}
      /\ pending' = [pending EXCEPT ![b] = "none"]
      /\ UNCHANGED <<setup, grads>>

\* An unused prefetch: its buffers, and the storage it filled.
ReleasePrefetch(b) ==
  /\ pending[b] # "none"
  /\ device' = HandedBack(WaitEvents(device, "caller", {<<"gathered", b>>}), b)
  /\ live' = live \ {Gather(b), Full(b)}
  /\ pending' = [pending EXCEPT ![b] = "none"]
  /\ UNCHANGED <<setup, created, unsharded, grads>>

Reshard(b) ==
  /\ b \in unsharded
  /\ live' = live \ {Full(b)}
  /\ unsharded' = unsharded \ {b}
  /\ UNCHANGED <<setup, device, created, pending, grads>>

----------------------------------------------------------------------------
(* The program, on the caller's stream. *)

\* A module's backward accumulates a grad; its forward only reads.
Run(b) ==
  LET grad == <<"grad", b>>
      held == IF grad \in live THEN device ELSE Allocate(device, live, grad)
  IN  /\ b \in unsharded
      /\ device' = Use(held, "caller", {Full(b), grad})
      /\ live' = live \cup {grad}
      /\ UNCHANGED <<setup, params, grads>>

\* Once the reductions were waited for; the grads go after the step.  No hook's
\* gather is in flight: the backward before it released them (ReadyForStep of
\* BucketRuntime).
OptimizerStep ==
  LET stepped == {b \in Buckets : stored[b] # None}
      read == {<<"reduced", stored[b]>> : b \in stepped}
  IN  /\ reductions = <<>> /\ retired = {} /\ stepped # {}
      /\ \A b \in Buckets : pending[b] # "shared"
      /\ device' = Use(device, "caller", {Shard(b) : b \in stepped} \cup read)
      /\ live' = live \ read
      /\ stored' = [b \in Buckets |-> None]
      /\ UNCHANGED <<setup, params, reductions, retired>>

----------------------------------------------------------------------------
(* Reductions. *)

StoredNumbers == {stored[b] : b \in Buckets}

ReducedEvents(numbers) == {"reduced"} \X numbers

\* Mutant of Released: leaves out the stream the copies were allocated on.
MutReleasedOnReduce(d, numbers) ==
  StreamsWait(WaitEvents(d, "release", ReducedEvents(numbers)), {ReduceStream}, "release")

\* The release stream waits for the reductions, the allocation streams for it.
Released(d, numbers) ==
  StreamsWait(WaitEvents(d, "release", ReducedEvents(numbers)), {"caller", ReduceStream}, "release")

ReleasedBuffers(n) ==
  {<<"copied_in", n>>} \cup (IF n \in StoredNumbers THEN {} ELSE {<<"reduced", n>>})

\* drain_reduce_grad_states_if_needed takes one: a pass leaves room for one.
MustDrain == MaxPending > 0 /\ Len(reductions) >= MaxPending

Drained ==
  IF MustDrain
  THEN [device |-> Released(device, {Head(reductions)}),
        live |-> live \ ReleasedBuffers(Head(reductions)),
        reductions |-> Tail(reductions),
        retired |-> retired \cup {Head(reductions)}]
  ELSE [device |-> device, live |-> live, reductions |-> reductions, retired |-> retired]

\* The numbers in use.
Numbered == StoredNumbers \cup Drained.retired \cup ToSet(Drained.reductions)

\* Mutant of Accumulated: keeps the event of the reduction alone.
MutAccumulatedUnrecorded(d, b, n) ==
  IF stored[b] = None THEN d
  ELSE Use(d, ReduceStream, {<<"reduced", stored[b]>>, <<"reduced", n>>})

\* record_sharded_grads: the event moves past the accumulation.
Accumulated(d, b, n) ==
  LET added == IF stored[b] = None THEN d
               ELSE Use(d, ReduceStream, {<<"reduced", stored[b]>>, <<"reduced", n>>})
  IN  Record(added, <<"reduced", n>>, ReduceStream)

\* Drains, reshards, copies the grads in on the caller's stream, then reduces
\* and accumulates on the other.
ReduceGrads(b) ==
  \E n \in Numbers :
    LET full == IF b \in unsharded THEN {Full(b)} ELSE {}
        held == Drained.live \ full
        copy == <<"copied_in", n>>
        result == <<"reduced", n>>
        copied == Use(Allocate(Drained.device, held, copy), "caller", {<<"grad", b>>, copy})
        ordered == StreamsWait(copied, {ReduceStream}, "caller")
        reduced == Use(Allocate(ordered, held \cup {copy}, result), ReduceStream, {copy, result})
    IN  /\ <<"grad", b>> \in live
        /\ n <= setup.reductions /\ n \notin Numbered /\ 1 .. n - 1 \subseteq Numbered
        /\ device' = Accumulated(Record(reduced, <<"reduced", n>>, ReduceStream), b, n)
        /\ live' = (held \ {<<"grad", b>>}) \cup {copy, result}
        /\ unsharded' = unsharded \ {b}
        /\ reductions' = Append(Drained.reductions, n)
        /\ retired' = Drained.retired
        /\ stored' = IF stored[b] = None THEN [stored EXCEPT ![b] = n] ELSE stored
        /\ UNCHANGED <<setup, created, pending>>

\* wait_and_clear_reduce_grad_states: the caller waits for everything, and what
\* was not retired is released, one after the other in the code.
WaitAndClear ==
  LET running == ToSet(reductions)
      late == WaitEvents(device, "caller", ReducedEvents(retired \cup running))
  IN  /\ reductions # <<>> \/ retired # {}
      /\ device' = Forget(Released(late, running), ReducedEvents(Numbers))
      /\ live' = live \ UNION {ReleasedBuffers(n) : n \in running}
      /\ reductions' = <<>> /\ retired' = {}
      /\ UNCHANGED <<setup, params, stored>>

Next ==
  \/ OptimizerStep
  \/ WaitAndClear
  \/ \E b \in setup.buckets :
       \/ BeginUnshard(b)
       \/ BeginExplicitUnshard(b)
       \/ FinishUnshard(b)
       \/ ReleasePrefetch(b)
       \/ Reshard(b)
       \/ Run(b)
       \/ ReduceGrads(b)

Spec == Init /\ [][Next]_vars

----------------------------------------------------------------------------
(* Properties. *)

\* No stream reads or writes a buffer while another may still be using it:
\* a shard being gathered, a param being filled, a grad being accumulated.
NoRace == device.raced = {}

\* No allocation gets memory that work queued on some stream still uses.
NoEarlyReuse == device.stolen = {}

================================================================================
