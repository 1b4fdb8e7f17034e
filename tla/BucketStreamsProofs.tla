------------------------- MODULE BucketStreamsProofs -------------------------
(***************************************************************************)
(* The streams never race and no memory is given away too early, for any   *)
(* buckets and any way to shard them.                                      *)
(*                                                                         *)
(* The invariant is about what the caller's stream may overtake: it is the *)
(* one that every other stream waits for before it starts anything.        *)
(***************************************************************************)
EXTENDS BucketStreams, TLAPS

----------------------------------------------------------------------------
(* The invariant *)

\* The streams that use a buffer.
UsedOn(x) ==
  {"caller"}
  \cup (IF x[1] \in {"full", "gather", "shard"}
        THEN {"unshard"} ELSE {})
  \cup (IF x[1] \in {"full", "gather_here"} THEN {"collective"} ELSE {})
  \cup (IF x[1] \in {"copied_in", "reduced"} THEN {ReduceStream} ELSE {})

Dev == [behind : [Streams -> SUBSET Uses], events : [Events -> SUBSET Uses],
        raced : SUBSET Buffers, stolen : SUBSET Buffers]

\* What stream s runs next may overtake the use of x on v; and so what waits for e.
Past(d, s, x, v) == <<x, v>> \in d.behind[s]
PastEvent(d, e, x, v) == <<x, v>> \in d.events[e]

\* The caller's stream overtakes no use of x.
Clean(d, x) == \A v \in Streams : ~Past(d, "caller", x, v)

Gathered(b) == <<"gathered", b>>
SharedGather(b) == <<"gather", b>>
OwnGather(b) == <<"gather_here", b>>
Copy(n) == <<"copied_in", n>>
Result(n) == <<"reduced", n>>

\* A stream may overtake only others, and only those that use the buffer.
Users(d) ==
  \A s \in Streams : \A x \in Buffers : \A v \in Streams :
    Past(d, s, x, v) => v # s /\ v \in UsedOn(x)

\* Another stream uses a bucket's buffers only while its unshard is in flight (p),
\* and the event of that says when it is done; only the storage of created params
\* (filled) is written there.
BucketAwaited(d, b, p, filled, held) ==
  \A v \in Streams :
    /\ Past(d, "caller", Full(b), v) =>
         /\ p # "none" /\ filled /\ Full(b) \in held
         /\ ~PastEvent(d, Gathered(b), Full(b), v)
    /\ Past(d, "caller", Shard(b), v) => p = "shared" /\ ~PastEvent(d, Gathered(b), Shard(b), v)
    /\ Past(d, "caller", SharedGather(b), v) =>
         p = "shared" /\ ~PastEvent(d, Gathered(b), SharedGather(b), v)
    /\ Past(d, "caller", OwnGather(b), v) =>
         p = "explicit" /\ OwnGather(b) \in held /\ ~PastEvent(d, Gathered(b), OwnGather(b), v)

\* Another stream uses copied grads only in a reduction, whose event says when it
\* is done.
CopyAwaited(d, n, running, held) ==
  \A v \in Streams :
    Past(d, "caller", Copy(n), v) =>
      n \in running /\ Copy(n) \in held /\ ~PastEvent(d, Result(n), Copy(n), v)

\* The newest reduction's event says when all are done.
ReductionsAwaited(d, list) ==
  \A x \in Buffers :
    IF list = <<>> THEN ~Past(d, "caller", x, "reduce")
    ELSE ~PastEvent(d, Result(list[Len(list)]), x, "reduce")

\* A stored grad is used on the stream of the reductions alone.
ResultAlone(d, n) == \A v \in Streams : ~Past(d, ReduceStream, Result(n), v)

Typed ==
  /\ setup \in Setups
  /\ device \in Dev
  /\ created \subseteq Buckets /\ unsharded \subseteq Buckets
  /\ pending \in [Buckets -> {"none", "shared", "explicit"}]
  /\ reductions \in Seq(Numbers) /\ retired \subseteq Numbers
  /\ stored \in [Buckets -> Numbers \cup {None}]

InFlight ==
  /\ \A b \in Buckets : /\ pending[b] = "explicit" => b \in Explicit
                        /\ pending[b] # "none" => b \in setup.buckets
                        /\ b \in unsharded => pending[b] = "none"
  /\ {"shard"} \X setup.buckets \subseteq live

Awaited ==
  /\ \A b \in Buckets : BucketAwaited(device, b, pending[b], b \in created \ FillInFinish, live)
  /\ \A n \in Numbers : CopyAwaited(device, n, ToSet(reductions), live)
  /\ ReductionsAwaited(device, reductions)
  /\ \A n \in Numbers : n \in StoredNumbers => ResultAlone(device, n)

SInv == Typed /\ InFlight /\ Users(device) /\ Awaited /\ NoRace /\ NoEarlyReuse

----------------------------------------------------------------------------
(* Buffers *)

\* The buffers by kind, with the stream that allocates each and those that use it.
LEMMA BufferFacts ==
  /\ \A b \in Buckets :
       /\ {Full(b), Shard(b), SharedGather(b), OwnGather(b), <<"grad", b>>} \subseteq Buffers
       /\ Pool(Full(b)) = "caller" /\ Pool(Shard(b)) = "caller" /\ Pool(SharedGather(b)) = "unshard"
       /\ Pool(OwnGather(b)) = "caller" /\ Pool(<<"grad", b>>) = "caller"
       /\ UsedOn(Full(b)) = {"caller", "unshard", "collective"}
       /\ UsedOn(Shard(b)) = {"caller", "unshard"}
       /\ UsedOn(SharedGather(b)) = {"caller", "unshard"}
       /\ UsedOn(OwnGather(b)) = {"caller", "collective"}
       /\ UsedOn(<<"grad", b>>) = {"caller"}
       /\ Gathered(b) \in Events
  /\ \A n \in Numbers :
       /\ Copy(n) \in Buffers /\ Result(n) \in Buffers /\ Result(n) \in Events
       /\ Pool(Copy(n)) = "caller" /\ Pool(Result(n)) = ReduceStream
       /\ UsedOn(Copy(n)) = {"caller", ReduceStream} /\ UsedOn(Result(n)) = {"caller", ReduceStream}
  /\ \A x \in Buffers :
       \/ \E b \in Buckets : x \in {Full(b), Shard(b), SharedGather(b), OwnGather(b), <<"grad", b>>}
       \/ \E n \in Numbers : x \in {Copy(n), Result(n)}
  /\ ReduceStream \in {"caller", "reduce"} /\ "caller" \in Streams /\ ReduceStream \in Streams
  /\ {"unshard", "collective", "release"} \subseteq Streams
<1>1. /\ ReduceStream \in {"caller", "reduce"} /\ "caller" \in Streams /\ ReduceStream \in Streams
      /\ {"unshard", "collective", "release"} \subseteq Streams
  BY DEF ReduceStream, Streams
<1>2. ASSUME NEW b \in Buckets
      PROVE  /\ {Full(b), Shard(b), SharedGather(b), OwnGather(b), <<"grad", b>>} \subseteq Buffers
             /\ Gathered(b) \in Events
  BY DEF Buffers, Events, Full, Shard, SharedGather, OwnGather, Gathered
<1>3. ASSUME NEW b \in Buckets
      PROVE  /\ Pool(Full(b)) = "caller" /\ Pool(Shard(b)) = "caller" /\ Pool(SharedGather(b)) = "unshard"
             /\ Pool(OwnGather(b)) = "caller" /\ Pool(<<"grad", b>>) = "caller"
  BY DEF Pool, Full, Shard, SharedGather, OwnGather
<1>4. ASSUME NEW b \in Buckets
      PROVE  /\ UsedOn(Full(b)) = {"caller", "unshard", "collective"}
             /\ UsedOn(Shard(b)) = {"caller", "unshard"}
             /\ UsedOn(SharedGather(b)) = {"caller", "unshard"}
             /\ UsedOn(OwnGather(b)) = {"caller", "collective"}
             /\ UsedOn(<<"grad", b>>) = {"caller"}
  <2>1. Full(b)[1] = "full" /\ Shard(b)[1] = "shard" /\ SharedGather(b)[1] = "gather"
        /\ OwnGather(b)[1] = "gather_here" /\ <<"grad", b>>[1] = "grad"
    BY DEF Full, Shard, SharedGather, OwnGather
  <2> QED BY <2>1 DEF UsedOn
<1>5. ASSUME NEW n \in Numbers
      PROVE  /\ Copy(n) \in Buffers /\ Result(n) \in Buffers /\ Result(n) \in Events
             /\ Pool(Copy(n)) = "caller" /\ Pool(Result(n)) = ReduceStream
             /\ UsedOn(Copy(n)) = {"caller", ReduceStream} /\ UsedOn(Result(n)) = {"caller", ReduceStream}
  <2>1. Copy(n)[1] = "copied_in" /\ Result(n)[1] = "reduced"
    BY DEF Copy, Result
  <2>2. UsedOn(Copy(n)) = {"caller", ReduceStream} /\ UsedOn(Result(n)) = {"caller", ReduceStream}
    BY <2>1 DEF UsedOn
  <2>3. Pool(Copy(n)) = "caller" /\ Pool(Result(n)) = ReduceStream
    BY <2>1 DEF Pool
  <2> QED BY <2>2, <2>3 DEF Copy, Result, Buffers, Events
<1>6. ASSUME NEW x \in Buffers
      PROVE  \/ \E b \in Buckets : x \in {Full(b), Shard(b), SharedGather(b), OwnGather(b), <<"grad", b>>}
             \/ \E n \in Numbers : x \in {Copy(n), Result(n)}
  BY DEF Buffers, Full, Shard, SharedGather, OwnGather, Copy, Result
<1> QED BY <1>1, <1>2, <1>3, <1>4, <1>5, <1>6

\* Buffers of different names.
LEMMA Apart ==
  ASSUME NEW b, NEW c, NEW m, NEW n
  PROVE  /\ Full(b) = Full(c) <=> b = c
         /\ Shard(b) = Shard(c) <=> b = c
         /\ SharedGather(b) = SharedGather(c) <=> b = c
         /\ OwnGather(b) = OwnGather(c) <=> b = c
         /\ Gathered(b) = Gathered(c) <=> b = c
         /\ Copy(m) = Copy(n) <=> m = n
         /\ Result(m) = Result(n) <=> m = n
         /\ Full(b) \notin {Shard(c), SharedGather(c), OwnGather(c), <<"grad", c>>, Copy(n), Result(n)}
         /\ Shard(b) \notin {SharedGather(c), OwnGather(c), <<"grad", c>>, Copy(n), Result(n)}
         /\ SharedGather(b) \notin {OwnGather(c), <<"grad", c>>, Copy(n), Result(n)}
         /\ OwnGather(b) \notin {<<"grad", c>>, Copy(n), Result(n)}
         /\ Copy(m) \notin {Result(n), <<"grad", c>>} /\ Result(m) # <<"grad", c>>
         /\ Gathered(b) # Result(n)
BY DEF Full, Shard, SharedGather, OwnGather, Gathered, Copy, Result

----------------------------------------------------------------------------
(* What the operations do to the streams *)

\* From d to e only the uses A were added, and the events R recorded anew; no
\* stream raced and no memory was given away too early.
Adds(d, e, A, R) ==
  /\ e \in Dev /\ e.raced = d.raced /\ e.stolen = d.stolen
  /\ \A s \in Streams : \A x, v : Past(e, s, x, v) => Past(d, s, x, v) \/ (s # v /\ <<x, v>> \in A)
  /\ \A ev \in Events \ R : \A x, v : PastEvent(e, ev, x, v) => PastEvent(d, ev, x, v) \/ <<x, v>> \in A

LEMMA DevFacts ==
  ASSUME NEW d \in Dev
  PROVE  /\ d.behind \in [Streams -> SUBSET Uses] /\ d.events \in [Events -> SUBSET Uses]
         /\ d.raced \subseteq Buffers /\ d.stolen \subseteq Buffers
         /\ d = [behind |-> d.behind, events |-> d.events, raced |-> d.raced, stolen |-> d.stolen]
         /\ \A s \in Streams : \A x, v : Past(d, s, x, v) => x \in Buffers /\ v \in Streams
         /\ \A e \in Events : \A x, v : PastEvent(d, e, x, v) => x \in Buffers /\ v \in Streams
BY DEF Dev, Uses, Past, PastEvent

LEMMA AddsTwice ==
  ASSUME NEW d, NEW e, NEW f, NEW A, NEW B, NEW R, NEW Q, Adds(d, e, A, R), Adds(e, f, B, Q)
  PROVE  Adds(d, f, A \cup B, R \cup Q)
BY DEF Adds

LEMMA AddsMore ==
  ASSUME NEW d, NEW e, NEW A, NEW B, NEW R, NEW Q, Adds(d, e, A, R), A \subseteq B, R \subseteq Q
  PROVE  Adds(d, e, B, Q)
BY DEF Adds

LEMMA UseFacts ==
  ASSUME NEW d \in Dev, NEW s \in Streams, NEW B \in SUBSET Buffers,
         \A x \in B : \A v \in Streams : ~Past(d, s, x, v)
  PROVE  /\ Use(d, s, B) \in Dev
         /\ Adds(d, Use(d, s, B), B \X {s}, {})
<1> DEFINE u == Use(d, s, B)
           added == B \X {s}
           raced == {x \in B : \E v \in Streams : <<x, v>> \in d.behind[s]}
<1>1. u = [behind |-> [t \in Streams |-> IF t = s THEN d.behind[t] ELSE d.behind[t] \cup added],
           events |-> [e \in Events |-> d.events[e] \cup added],
           raced |-> d.raced \cup raced, stolen |-> d.stolen]
  BY DEF Use
<1>2. raced = {}
  BY DEF Past
<1>3. added \subseteq Uses
  BY DEF Uses
<1>4. d.behind \in [Streams -> SUBSET Uses] /\ d.events \in [Events -> SUBSET Uses]
      /\ d.raced \subseteq Buffers /\ d.stolen \subseteq Buffers
  BY DevFacts
<1> HIDE DEF added, raced
<1>5. /\ u.behind = [t \in Streams |-> IF t = s THEN d.behind[t] ELSE d.behind[t] \cup added]
      /\ u.events = [e \in Events |-> d.events[e] \cup added]
      /\ u.raced = d.raced /\ u.stolen = d.stolen
  BY <1>1, <1>2
<1>6. u \in Dev
  <2>1. /\ [t \in Streams |-> IF t = s THEN d.behind[t] ELSE d.behind[t] \cup added]
             \in [Streams -> SUBSET Uses]
        /\ [e \in Events |-> d.events[e] \cup added] \in [Events -> SUBSET Uses]
    BY <1>3, <1>4
  <2> QED BY <1>1, <1>2, <1>4, <2>1 DEF Dev
<1> HIDE DEF u
<1>7. \A t \in Streams : \A x, v :
        Past(u, t, x, v) => Past(d, t, x, v) \/ (t # v /\ <<x, v>> \in added)
  <2>1. \A x, v : <<x, v>> \in added => v = s
    BY DEF added
  <2> QED BY <1>5, <2>1 DEF Past
<1>8. \A e \in Events : \A x, v : PastEvent(u, e, x, v) => PastEvent(d, e, x, v) \/ <<x, v>> \in added
  BY <1>5 DEF PastEvent
<1> QED BY <1>5, <1>6, <1>7, <1>8 DEF Adds, u, added

LEMMA WaitFacts ==
  ASSUME NEW d \in Dev, NEW s \in Streams, NEW E \in SUBSET Events
  PROVE  /\ Adds(d, WaitEvents(d, s, E), {}, {})
         /\ \A e \in E : \A x, v : Past(WaitEvents(d, s, E), s, x, v) => PastEvent(d, e, x, v)
<1> DEFINE kept == {use \in d.behind[s] : \A e \in E : use \in d.events[e]}
           w == WaitEvents(d, s, E)
<1>1. /\ d.behind \in [Streams -> SUBSET Uses] /\ d.events \in [Events -> SUBSET Uses]
      /\ d.raced \subseteq Buffers /\ d.stolen \subseteq Buffers
  BY DevFacts
<1>2. kept \subseteq d.behind[s] /\ \A e \in E : kept \subseteq d.events[e]
  OBVIOUS
<1>3. w = [d EXCEPT !.behind[s] = kept]
  BY DEF WaitEvents
<1> HIDE DEF kept
<1>4. /\ w.behind = [d.behind EXCEPT ![s] = kept] /\ w.events = d.events
      /\ w.raced = d.raced /\ w.stolen = d.stolen
      /\ w = [behind |-> w.behind, events |-> w.events, raced |-> w.raced, stolen |-> w.stolen]
  BY <1>3 DEF Dev
<1> HIDE DEF w
<1>5. [d.behind EXCEPT ![s] = kept] \in [Streams -> SUBSET Uses]
  BY <1>1, <1>2
<1>6. w \in Dev
  BY <1>1, <1>4, <1>5 DEF Dev
<1>7. \A t \in Streams : w.behind[t] = IF t = s THEN kept ELSE d.behind[t]
  BY <1>1, <1>4
<1> QED BY <1>2, <1>4, <1>6, <1>7 DEF Adds, Past, PastEvent, w

LEMMA StreamsWaitFacts ==
  ASSUME NEW d \in Dev, NEW s \in Streams, NEW T \in SUBSET Streams
  PROVE  /\ Adds(d, StreamsWait(d, T, s), {}, {})
         /\ \A t \in T : \A x, v : Past(StreamsWait(d, T, s), t, x, v) => Past(d, s, x, v)
         /\ StreamsWait(d, T, s).events = d.events
<1> DEFINE f == [t \in Streams |-> IF t \in T THEN d.behind[t] \cap d.behind[s] ELSE d.behind[t]]
           w == StreamsWait(d, T, s)
<1>1. /\ d.behind \in [Streams -> SUBSET Uses] /\ d.events \in [Events -> SUBSET Uses]
      /\ d.raced \subseteq Buffers /\ d.stolen \subseteq Buffers
  BY DevFacts
<1>2. w = [d EXCEPT !.behind = f]
  BY DEF StreamsWait
<1>3. f \in [Streams -> SUBSET Uses]
  BY <1>1
<1>4. \A t \in Streams : f[t] = IF t \in T THEN d.behind[t] \cap d.behind[s] ELSE d.behind[t]
  OBVIOUS
<1> HIDE DEF f
<1>5. /\ w.behind = f /\ w.events = d.events /\ w.raced = d.raced /\ w.stolen = d.stolen
      /\ w = [behind |-> w.behind, events |-> w.events, raced |-> w.raced, stolen |-> w.stolen]
  BY <1>2 DEF Dev
<1> HIDE DEF w
<1>6. w \in Dev
  BY <1>1, <1>3, <1>5 DEF Dev
<1> QED BY <1>4, <1>5, <1>6 DEF Adds, Past, PastEvent, w

LEMMA ForgetFacts ==
  ASSUME NEW d \in Dev, NEW E
  PROVE  Adds(d, Forget(d, E), {}, {}) /\ Forget(d, E).behind = d.behind
<1> DEFINE f == [e \in Events |-> IF e \in E THEN {} ELSE d.events[e]]
           w == Forget(d, E)
<1>1. /\ d.behind \in [Streams -> SUBSET Uses] /\ d.events \in [Events -> SUBSET Uses]
      /\ d.raced \subseteq Buffers /\ d.stolen \subseteq Buffers
  BY DevFacts
<1>2. w = [d EXCEPT !.events = f]
  BY DEF Forget
<1>3. f \in [Events -> SUBSET Uses] /\ \A e \in Events : f[e] \subseteq d.events[e]
  BY <1>1
<1> HIDE DEF f
<1>4. /\ w.behind = d.behind /\ w.events = f /\ w.raced = d.raced /\ w.stolen = d.stolen
      /\ w = [behind |-> w.behind, events |-> w.events, raced |-> w.raced, stolen |-> w.stolen]
  BY <1>2 DEF Dev
<1> HIDE DEF w
<1>5. w \in Dev
  BY <1>1, <1>3, <1>4 DEF Dev
<1> QED BY <1>3, <1>4, <1>5 DEF Adds, Past, PastEvent, w

LEMMA RecordFacts ==
  ASSUME NEW d \in Dev, NEW s \in Streams, NEW ev \in Events
  PROVE  /\ Adds(d, Record(d, ev, s), {}, {ev}) /\ Record(d, ev, s).behind = d.behind
         /\ \A x, v : PastEvent(Record(d, ev, s), ev, x, v) => Past(d, s, x, v)
<1> DEFINE w == Record(d, ev, s)
<1>1. /\ d.behind \in [Streams -> SUBSET Uses] /\ d.events \in [Events -> SUBSET Uses]
      /\ d.raced \subseteq Buffers /\ d.stolen \subseteq Buffers
  BY DevFacts
<1>2. w = [d EXCEPT !.events[ev] = d.behind[s]]
  BY DEF Record
<1>3. /\ w.behind = d.behind /\ w.events = [d.events EXCEPT ![ev] = d.behind[s]]
      /\ w.raced = d.raced /\ w.stolen = d.stolen
      /\ w = [behind |-> w.behind, events |-> w.events, raced |-> w.raced, stolen |-> w.stolen]
  BY <1>2 DEF Dev
<1> HIDE DEF w
<1>4. w.events \in [Events -> SUBSET Uses]
  BY <1>1, <1>3
<1>5. w \in Dev
  BY <1>1, <1>3, <1>4 DEF Dev
<1>6. \A e \in Events : w.events[e] = IF e = ev THEN d.behind[s] ELSE d.events[e]
  BY <1>1, <1>3
<1> QED BY <1>3, <1>5, <1>6 DEF Adds, Past, PastEvent, w

\* Memory freed to the pool that no other stream still uses may be taken.
LEMMA AllocateFacts ==
  ASSUME NEW d \in Dev, NEW held, NEW x \in Buffers, Pool(x) \in Streams,
         \A y \in Buffers \ held : Pool(y) = Pool(x) =>
           \A v \in Streams : ~Past(d, Pool(x), y, v)
  PROVE  /\ Adds(d, Allocate(d, held, x), {<<x, Pool(x)>>}, {})
         /\ \A t \in Streams : \A v : Past(Allocate(d, held, x), t, x, v) => v = Pool(x) /\ t # v
<1> DEFINE s == Pool(x)
           early == {y \in {z \in Buffers \ held : Pool(z) = s} : \E v \in Streams : <<y, v>> \in d.behind[s]}
           old == {x} \X Streams
           f == [t \in Streams |-> d.behind[t] \ old]
           g == [e \in Events |-> d.events[e] \ old]
           r == [d EXCEPT !.behind = f, !.events = g, !.stolen = @ \cup early]
           w == Allocate(d, held, x)
<1>1. /\ d.behind \in [Streams -> SUBSET Uses] /\ d.events \in [Events -> SUBSET Uses]
      /\ d.raced \subseteq Buffers /\ d.stolen \subseteq Buffers
  BY DevFacts
<1>2. early = {}
  BY DEF Past
<1>3. f \in [Streams -> SUBSET Uses] /\ g \in [Events -> SUBSET Uses]
  BY <1>1
<1>4. /\ \A t \in Streams : f[t] = d.behind[t] \ old
      /\ \A e \in Events : g[e] = d.events[e] \ old
  OBVIOUS
<1>5. w = Use(r, s, {x})
  BY DEF Allocate
<1>6. \A v : v \in Streams => <<x, v>> \in old
  OBVIOUS
<1>7. s \in Streams
  OBVIOUS
<1> HIDE DEF s, early, old, f, g
<1>8. /\ r.behind = f /\ r.events = g /\ r.raced = d.raced /\ r.stolen = d.stolen
      /\ r = [behind |-> r.behind, events |-> r.events, raced |-> r.raced, stolen |-> r.stolen]
  <2>1. DOMAIN d = {"behind", "events", "raced", "stolen"}
    BY DEF Dev
  <2>2. d.stolen \cup early = d.stolen
    BY <1>2
  <2>3. /\ r.behind = f /\ r.events = g /\ r.raced = d.raced /\ r.stolen = d.stolen
    BY <2>1, <2>2
  <2>4. r = [k \in DOMAIN d |-> r[k]]
    OBVIOUS
  <2> HIDE DEF r
  <2> QED BY <2>1, <2>3, <2>4
<1> HIDE DEF r, w
<1>9. r \in Dev
  BY <1>1, <1>3, <1>8 DEF Dev
<1>10. Adds(d, r, {}, {})
  BY <1>4, <1>8, <1>9 DEF Adds, Past, PastEvent
<1>11. \A t \in Streams : \A v : ~Past(r, t, x, v)
  <2> SUFFICES ASSUME NEW t \in Streams, NEW v, Past(r, t, x, v) PROVE FALSE
    OBVIOUS
  <2>1. v \in Streams
    BY <1>9, DevFacts
  <2> QED BY <1>4, <1>6, <1>8, <2>1 DEF Past
<1>12. Adds(r, w, {x} \X {s}, {})
  BY <1>5, <1>7, <1>9, <1>11, UseFacts
<1>13. {x} \X {s} = {<<x, s>>}
  OBVIOUS
<1>14. Adds(d, w, {<<x, s>>}, {})
  <2>1. Adds(d, w, {} \cup ({x} \X {s}), {} \cup {})
    BY <1>10, <1>12, AddsTwice
  <2> QED BY <1>13, <2>1
<1>15. \A t \in Streams : \A v : Past(w, t, x, v) => v = s /\ t # v
  <2>1. \A v : <<x, v>> \in {x} \X {s} => v = s
    OBVIOUS
  <2> QED BY <1>11, <1>12, <2>1 DEF Adds
<1> QED BY <1>14, <1>15 DEF s, w

----------------------------------------------------------------------------
(* What keeps the parts of the invariant *)

\* Uses by streams that use the buffer.
Usual(A) == \A x, v : <<x, v>> \in A => x \in Buffers /\ v \in UsedOn(x)
ByCaller(A) == \A x, v : <<x, v>> \in A => v = "caller"

LEMMA UsersKeep ==
  ASSUME NEW d, NEW e, NEW A, NEW R, Users(d), Adds(d, e, A, R), Usual(A)
  PROVE  Users(e)
BY DEF Users, Adds, Usual

LEMMA CleanKeeps ==
  ASSUME NEW d, NEW e, NEW A, NEW R, Adds(d, e, A, R), NEW x, Clean(d, x),
         \A v : <<x, v>> \in A => v = "caller"
  PROVE  Clean(e, x)
BY BufferFacts DEF Clean, Adds

LEMMA BucketKeeps ==
  ASSUME NEW d, NEW e, NEW A, NEW R, Adds(d, e, A, R), NEW b \in Buckets, Gathered(b) \notin R,
         Users(d),
         \A x \in {Full(b), Shard(b), SharedGather(b), OwnGather(b)} :
           \A v : <<x, v>> \in A => v = "caller",
         NEW p, NEW filled, NEW held, NEW kept, BucketAwaited(d, b, p, filled, held),
         \A x \in {Full(b), OwnGather(b)} : x \in held => x \in kept
  PROVE  BucketAwaited(e, b, p, filled, kept)
<1>1. "caller" \in Streams /\ Gathered(b) \in Events \ R
      /\ {Full(b), Shard(b), SharedGather(b), OwnGather(b)} \subseteq Buffers
  BY BufferFacts
<1>2. ASSUME NEW x \in {Full(b), Shard(b), SharedGather(b), OwnGather(b)}, NEW v \in Streams,
             Past(e, "caller", x, v)
      PROVE  /\ Past(d, "caller", x, v)
             /\ ~PastEvent(d, Gathered(b), x, v) => ~PastEvent(e, Gathered(b), x, v)
  <2>1. Past(d, "caller", x, v) \/ ("caller" # v /\ <<x, v>> \in A)
    BY <1>1, <1>2 DEF Adds
  <2>2. Past(d, "caller", x, v)
    BY <2>1
  <2>3. v # "caller"
    BY <1>1, <2>2 DEF Users
  <2>4. PastEvent(e, Gathered(b), x, v) => PastEvent(d, Gathered(b), x, v) \/ <<x, v>> \in A
    BY <1>1 DEF Adds
  <2> QED BY <2>2, <2>3, <2>4
<1> QED BY <1>2 DEF BucketAwaited

LEMMA CleanBucket ==
  ASSUME NEW d, NEW b, \A x \in {Full(b), Shard(b), SharedGather(b), OwnGather(b)} : Clean(d, x),
         NEW p, NEW filled, NEW held
  PROVE  BucketAwaited(d, b, p, filled, held)
BY DEF Clean, BucketAwaited

LEMMA CopyKeeps ==
  ASSUME NEW d, NEW e, NEW A, NEW R, Adds(d, e, A, R), NEW n \in Numbers, Result(n) \notin R,
         Users(d), \A v : <<Copy(n), v>> \in A => v = "caller",
         NEW running, NEW held, NEW still, NEW kept, CopyAwaited(d, n, running, held),
         n \in running => n \in still, Copy(n) \in held => Copy(n) \in kept
  PROVE  CopyAwaited(e, n, still, kept)
<1>1. "caller" \in Streams /\ Result(n) \in Events \ R /\ Copy(n) \in Buffers
  BY BufferFacts
<1> SUFFICES ASSUME NEW v \in Streams, Past(e, "caller", Copy(n), v)
             PROVE  n \in still /\ Copy(n) \in kept /\ ~PastEvent(e, Result(n), Copy(n), v)
  BY DEF CopyAwaited
<1>2. Past(d, "caller", Copy(n), v)
  BY <1>1 DEF Adds
<1>3. v # "caller"
  BY <1>1, <1>2 DEF Users
<1>4. PastEvent(e, Result(n), Copy(n), v) => PastEvent(d, Result(n), Copy(n), v)
  BY <1>1, <1>3 DEF Adds
<1> QED BY <1>2, <1>4 DEF CopyAwaited

LEMMA ReductionsKeep ==
  ASSUME NEW d, NEW e, NEW A, NEW R, Adds(d, e, A, R), NEW list \in Seq(Numbers),
         \A n \in Numbers : Result(n) \notin R, \A x : <<x, "reduce">> \notin A,
         ReductionsAwaited(d, list)
  PROVE  ReductionsAwaited(e, list)
<1>1. "caller" \in Streams
  BY BufferFacts
<1> SUFFICES ASSUME NEW x \in Buffers
             PROVE  IF list = <<>> THEN ~Past(e, "caller", x, "reduce")
                    ELSE ~PastEvent(e, Result(list[Len(list)]), x, "reduce")
  BY DEF ReductionsAwaited
<1>2. CASE list = <<>>
  BY <1>1, <1>2 DEF ReductionsAwaited, Adds
<1>3. CASE list # <<>>
  <2>1. list[Len(list)] \in Numbers
    BY <1>3
  <2>2. Result(list[Len(list)]) \in Events \ R
    BY <2>1, BufferFacts
  <2> QED BY <1>3, <2>2 DEF ReductionsAwaited, Adds
<1> QED BY <1>2, <1>3

LEMMA ResultKeeps ==
  ASSUME NEW d, NEW e, NEW A, NEW R, Adds(d, e, A, R), NEW n,
         \A v : <<Result(n), v>> \in A => v = ReduceStream, ResultAlone(d, n)
  PROVE  ResultAlone(e, n)
BY BufferFacts DEF Adds, ResultAlone

\* What is not live may be taken by the caller's stream.
LEMMA FreeClean ==
  ASSUME SInv, NEW x \in Buffers, x \notin live, Pool(x) = "caller"
  PROVE  Clean(device, x)
<1> SUFFICES ASSUME NEW v \in Streams, Past(device, "caller", x, v) PROVE FALSE
  BY DEF Clean
<1>1. v # "caller" /\ v \in UsedOn(x)
  BY BufferFacts DEF SInv, Users
<1>2. ASSUME NEW b \in Buckets PROVE x # Full(b) /\ x # OwnGather(b)
  BY DEF SInv, Awaited, BucketAwaited
<1>3. ASSUME NEW b \in Buckets PROVE x # Shard(b)
  <2> SUFFICES ASSUME x = Shard(b) PROVE FALSE
    OBVIOUS
  <2>1. pending[b] = "shared"
    BY DEF SInv, Awaited, BucketAwaited
  <2>2. b \in setup.buckets
    BY <2>1 DEF SInv, InFlight
  <2> QED BY <2>2 DEF SInv, InFlight, Shard
<1>4. ASSUME NEW b \in Buckets PROVE x # SharedGather(b) /\ x # <<"grad", b>>
  <2>1. Pool(SharedGather(b)) = "unshard" /\ UsedOn(<<"grad", b>>) = {"caller"}
    BY BufferFacts
  <2> QED BY <1>1, <2>1
<1>5. ASSUME NEW n \in Numbers PROVE x # Copy(n)
  BY DEF SInv, Awaited, CopyAwaited
<1>6. ASSUME NEW n \in Numbers PROVE x # Result(n)
  <2> SUFFICES ASSUME x = Result(n) PROVE FALSE
    OBVIOUS
  <2>1. Pool(Result(n)) = ReduceStream /\ UsedOn(Result(n)) = {"caller", ReduceStream}
    BY BufferFacts
  <2> QED BY <1>1, <2>1
<1> QED BY <1>2, <1>3, <1>4, <1>5, <1>6, BufferFacts

----------------------------------------------------------------------------
(* The actions *)

\* What SInv says of a device on its own.
LEMMA DeviceOK ==
  ASSUME SInv
  PROVE  /\ device \in Dev /\ device.raced = {} /\ device.stolen = {} /\ Users(device)
         /\ \A x \in Buffers : \A v : Past(device, "caller", x, v) => v # "caller" /\ v \in UsedOn(x)
BY BufferFacts, DevFacts DEF SInv, Typed, NoRace, NoEarlyReuse, Users

\* The buffers of a bucket without an unshard in flight.
LEMMA QuietBucket ==
  ASSUME SInv, NEW b \in Buckets, pending[b] = "none"
  PROVE  \A x \in {Full(b), Shard(b), SharedGather(b), OwnGather(b)} : Clean(device, x)
BY DEF SInv, Awaited, BucketAwaited, Clean

\* What only the caller's stream uses it need not wait for.
LEMMA CallerOnlyClean ==
  ASSUME SInv, NEW x \in Buffers, UsedOn(x) = {"caller"}
  PROVE  Clean(device, x)
BY DeviceOK DEF Clean

\* A step that keeps every part of the invariant, with the parts named.
LEMMA StepKeeps ==
  ASSUME SInv, NEW A, NEW R, Adds(device, device', A, R), Usual(A), UNCHANGED setup,
         created' \subseteq Buckets, unsharded' \subseteq Buckets,
         pending' \in [Buckets -> {"none", "shared", "explicit"}],
         reductions' \in Seq(Numbers), retired' \subseteq Numbers,
         stored' \in [Buckets -> Numbers \cup {None}], InFlight',
         \A b \in Buckets :
           BucketAwaited(device', b, pending'[b], b \in created' \ FillInFinish', live'),
         \A n \in Numbers : CopyAwaited(device', n, ToSet(reductions'), live'),
         ReductionsAwaited(device', reductions'),
         \A n \in Numbers : n \in StoredNumbers' => ResultAlone(device', n)
  PROVE  SInv'
<1>1. device' \in Dev /\ device'.raced = {} /\ device'.stolen = {} /\ Users(device')
  BY DeviceOK, UsersKeep DEF Adds
<1>2. Typed'
  BY <1>1 DEF SInv, Typed, Numbers
<1>3. UNCHANGED ReduceStream /\ \A x : UNCHANGED UsedOn(x)
  BY DEF ReduceStream, OneRank, UsedOn, Explicit
<1>4. Users(device)' /\ Awaited'
  BY <1>1, <1>3
     DEF Awaited, Users, ResultAlone, Numbers, CopyAwaited, ReductionsAwaited, BucketAwaited,
         Past, PastEvent, Buffers
<1> QED BY <1>1, <1>2, <1>4 DEF SInv, NoRace, NoEarlyReuse

\* Steps that leave the reductions alone.
LEMMA UnshardStep ==
  ASSUME SInv, NEW A, NEW R, Adds(device, device', A, R), Usual(A),
         \A x, v : <<x, v>> \in A => v # "reduce", \A n \in Numbers : Result(n) \notin R,
         UNCHANGED <<setup, reductions, retired>>, stored' \in [Buckets -> Numbers \cup {None}],
         \A n \in StoredNumbers' \ {None} : n \in StoredNumbers /\ \A v : <<Result(n), v>> \notin A,
         created' \subseteq Buckets, unsharded' \subseteq Buckets,
         pending' \in [Buckets -> {"none", "shared", "explicit"}],
         InFlight', \A n \in Numbers : Copy(n) \in live => Copy(n) \in live',
         \A b \in Buckets :
           BucketAwaited(device', b, pending'[b], b \in created' \ FillInFinish', live')
  PROVE  SInv'
<1>1. \A n \in Numbers : CopyAwaited(device', n, ToSet(reductions), live')
  <2> SUFFICES ASSUME NEW n \in Numbers PROVE CopyAwaited(device', n, ToSet(reductions), live')
    OBVIOUS
  <2>1. CopyAwaited(device, n, ToSet(reductions), live) /\ Users(device)
    BY DEF SInv, Awaited
  <2>2. \A v : <<Copy(n), v>> \in A => v = "caller"
    <3>1. UsedOn(Copy(n)) = {"caller", ReduceStream} /\ ReduceStream \in {"caller", "reduce"}
      BY BufferFacts
    <3> QED BY <3>1 DEF Usual
  <2> QED BY <2>1, <2>2, CopyKeeps
<1>2. ReductionsAwaited(device', reductions)
  <2>1. \A x : <<x, "reduce">> \notin A
    OBVIOUS
  <2>2. reductions \in Seq(Numbers) /\ ReductionsAwaited(device, reductions)
    BY DEF SInv, Typed, Awaited
  <2> QED BY <2>1, <2>2, ReductionsKeep
<1>3. \A n \in Numbers : n \in StoredNumbers' => ResultAlone(device', n)
  <2> SUFFICES ASSUME NEW n \in Numbers, n \in StoredNumbers' PROVE ResultAlone(device', n)
    OBVIOUS
  <2>1. n # None
    BY DEF Numbers, None
  <2>2. ResultAlone(device, n)
    BY <2>1 DEF SInv, Awaited
  <2> QED BY <2>1, <2>2, ResultKeeps
<1> QED BY <1>1, <1>2, <1>3, StepKeeps DEF SInv, Typed

\* Steps of the caller's stream that leave the reductions alone.
LEMMA CallerStep ==
  ASSUME SInv, NEW A, Adds(device, device', A, {}), Usual(A), ByCaller(A),
         UNCHANGED <<setup, reductions, retired>>, stored' \in [Buckets -> Numbers \cup {None}],
         \A n \in StoredNumbers' \ {None} : n \in StoredNumbers /\ \A v : <<Result(n), v>> \notin A,
         created' \subseteq Buckets, unsharded' \subseteq Buckets,
         pending' \in [Buckets -> {"none", "shared", "explicit"}],
         InFlight', \A n \in Numbers : Copy(n) \in live => Copy(n) \in live',
         \A b \in Buckets :
           BucketAwaited(device', b, pending'[b], b \in created' \ FillInFinish', live')
  PROVE  SInv'
<1>1. \A x, v : <<x, v>> \in A => v # "reduce"
  BY DEF ByCaller
<1> QED BY <1>1, UnshardStep

LEMMA SetupFacts ==
  ASSUME SInv
  PROVE  setup.buckets \subseteq Buckets /\ Explicit \subseteq Buckets /\ FillInFinish \subseteq Buckets
BY StreamsAssumption DEF SInv, Typed, Explicit, FillInFinish

LEMMA ReshardKeeps ==
  ASSUME SInv, NEW b \in setup.buckets, Reshard(b)
  PROVE  SInv'
<1>1. /\ b \in unsharded /\ live' = live \ {Full(b)} /\ unsharded' = unsharded \ {b}
      /\ UNCHANGED <<setup, device, created, pending, reductions, retired, stored>>
  BY DEF Reshard, grads
<1>2. b \in Buckets /\ pending[b] = "none"
  BY <1>1, SetupFacts DEF SInv, InFlight
<1>3. Adds(device, device', {}, {})
  BY <1>1, DeviceOK DEF Adds
<1>4. ASSUME NEW c \in Buckets
      PROVE  BucketAwaited(device', c, pending'[c], c \in created' \ FillInFinish', live')
  <2>1. FillInFinish' = FillInFinish
    BY <1>1 DEF FillInFinish
  <2>2. CASE c = b
    BY <1>1, <1>2, <2>2, QuietBucket, CleanBucket
  <2>3. CASE c # b
    <3>1. BucketAwaited(device, c, pending[c], c \in created \ FillInFinish, live)
      BY DEF SInv, Awaited
    <3>2. \A x \in {Full(c), OwnGather(c)} : x \in live => x \in live'
      BY <1>1, <2>3, Apart
    <3>3. BucketAwaited(device', c, pending[c], c \in created \ FillInFinish, live')
      BY <1>3, <3>1, <3>2, DeviceOK, BucketKeeps
    <3> QED BY <1>1, <2>1, <3>3
  <2> QED BY <2>2, <2>3
<1>5. InFlight'
  <2>1. {"shard"} \X setup.buckets \subseteq live'
    BY <1>1, Apart DEF SInv, InFlight, Shard, Full
  <2> QED BY <1>1, <2>1 DEF SInv, InFlight, Explicit
<1>6. \A n \in Numbers : Copy(n) \in live => Copy(n) \in live'
  BY <1>1, Apart
<1>7. StoredNumbers' = StoredNumbers
  BY <1>1 DEF StoredNumbers
<1> QED BY <1>1, <1>3, <1>4, <1>5, <1>6, <1>7, CallerStep DEF SInv, Typed, Usual, ByCaller

\* Steps that queue work of the caller's stream alone.
LEMMA CallerWorks ==
  ASSUME SInv, NEW A, Adds(device, device', A, {}), ByCaller(A),
         UNCHANGED <<setup, created, unsharded, pending>>,
         \A b \in Buckets : \A x \in {Shard(b), Full(b), OwnGather(b)} : x \in live => x \in live'
  PROVE  /\ \A b \in Buckets :
              BucketAwaited(device', b, pending'[b], b \in created' \ FillInFinish', live')
         /\ InFlight'
<1>1. ASSUME NEW b \in Buckets
      PROVE  BucketAwaited(device', b, pending[b], b \in created \ FillInFinish, live')
  <2>1. BucketAwaited(device, b, pending[b], b \in created \ FillInFinish, live)
    BY DEF SInv, Awaited
  <2> QED BY <2>1, DeviceOK, BucketKeeps DEF ByCaller
<1>2. {"shard"} \X setup.buckets \subseteq live'
  BY SetupFacts DEF SInv, InFlight, Shard
<1> QED BY <1>1, <1>2 DEF SInv, InFlight, FillInFinish, Explicit

LEMMA RunKeeps ==
  ASSUME SInv, NEW b \in setup.buckets, Run(b)
  PROVE  SInv'
<1> DEFINE grad == <<"grad", b>>
           held == IF grad \in live THEN device ELSE Allocate(device, live, grad)
           A == {Full(b), grad} \X {"caller"}
<1>1. /\ b \in unsharded /\ device' = Use(held, "caller", {Full(b), grad})
      /\ live' = live \cup {grad}
      /\ UNCHANGED <<setup, created, unsharded, pending, reductions, retired, stored>>
  BY DEF Run, grads, params
<1>2. /\ b \in Buckets /\ Full(b) \in Buffers /\ grad \in Buffers /\ Pool(grad) = "caller"
      /\ UsedOn(grad) = {"caller"} /\ "caller" \in UsedOn(Full(b)) /\ "caller" \in Streams
  BY SetupFacts, BufferFacts
<1>3. Clean(device, Full(b)) /\ Clean(device, grad)
  <2>1. pending[b] = "none"
    BY <1>1, <1>2 DEF SInv, InFlight
  <2> QED BY <1>2, <2>1, QuietBucket, CallerOnlyClean
<1>4. Adds(device, held, {<<grad, "caller">>}, {})
  <2>1. CASE grad \in live
    BY <2>1, DeviceOK DEF Adds
  <2>2. CASE grad \notin live
    <3>1. \A y \in Buffers \ live : Pool(y) = "caller" => \A v \in Streams : ~Past(device, "caller", y, v)
      BY FreeClean DEF Clean
    <3>2. Adds(device, Allocate(device, live, grad), {<<grad, "caller">>}, {})
      BY <1>2, <3>1, DeviceOK, AllocateFacts
    <3> QED BY <2>2, <3>2
  <2> QED BY <2>1, <2>2
<1> HIDE DEF held, grad
<1>5. Clean(held, Full(b)) /\ Clean(held, grad)
  BY <1>3, <1>4, CleanKeeps
<1>6. Adds(held, device', A, {})
  <2>1. held \in Dev /\ {Full(b), grad} \in SUBSET Buffers
    BY <1>2, <1>4 DEF Adds
  <2>2. \A x \in {Full(b), grad} : \A v \in Streams : ~Past(held, "caller", x, v)
    BY <1>5 DEF Clean
  <2> QED BY <1>1, <1>2, <2>1, <2>2, UseFacts
<1>7. Adds(device, device', A, {})
  <2>1. Adds(device, device', {<<grad, "caller">>} \cup A, {} \cup {})
    BY <1>4, <1>6, AddsTwice
  <2>2. {<<grad, "caller">>} \cup A = A
    OBVIOUS
  <2> QED BY <2>1, <2>2
<1>8. Usual(A) /\ ByCaller(A) /\ \A n, v : <<Result(n), v>> \notin A
  BY <1>2, Apart DEF Usual, ByCaller, grad
<1>9. StoredNumbers' = StoredNumbers
  BY <1>1 DEF StoredNumbers
<1> HIDE DEF A
<1> QED BY <1>1, <1>7, <1>8, <1>9, CallerWorks, CallerStep DEF SInv, Typed

LEMMA OptimizerStepKeeps ==
  ASSUME SInv, OptimizerStep
  PROVE  SInv'
<1> DEFINE stepped == {b \in Buckets : stored[b] # None}
           read == {<<"reduced", stored[b]>> : b \in stepped}
           B == {Shard(b) : b \in stepped} \cup read
           A == B \X {"caller"}
<1>1. /\ reductions = <<>> /\ \A b \in Buckets : pending[b] # "shared"
      /\ device' = Use(device, "caller", B) /\ live' = live \ read
      /\ stored' = [b \in Buckets |-> None]
      /\ UNCHANGED <<setup, created, unsharded, pending, reductions, retired>>
  BY DEF OptimizerStep, params
<1>2. \A x \in B : (\E b \in Buckets : x = Shard(b)) \/ (\E n \in Numbers : x = Result(n))
  BY DEF SInv, Typed, Result
<1>3. \A x \in read : \E n \in Numbers : x = Result(n)
  BY DEF SInv, Typed, Result
<1> HIDE DEF B, read
<1>4. ASSUME NEW x \in B PROVE x \in Buffers /\ Clean(device, x) /\ "caller" \in UsedOn(x)
  <2>1. ASSUME NEW b \in Buckets, x = Shard(b)
        PROVE  x \in Buffers /\ Clean(device, x) /\ "caller" \in UsedOn(x)
    BY <1>1, <2>1, BufferFacts DEF SInv, Awaited, BucketAwaited, Clean
  <2>2. ASSUME NEW n \in Numbers, x = Result(n)
        PROVE  x \in Buffers /\ Clean(device, x) /\ "caller" \in UsedOn(x)
    <3>1. x \in Buffers /\ UsedOn(x) = {"caller", ReduceStream} /\ ReduceStream \in {"caller", "reduce"}
      BY <2>2, BufferFacts
    <3>2. ~Past(device, "caller", x, "reduce")
      BY <1>1, <3>1 DEF SInv, Awaited, ReductionsAwaited
    <3> QED BY <3>1, <3>2, DeviceOK DEF Clean
  <2> QED BY <1>2, <2>1, <2>2
<1>5. Adds(device, device', A, {})
  <2>1. B \in SUBSET Buffers /\ \A x \in B : \A v \in Streams : ~Past(device, "caller", x, v)
    BY <1>4 DEF Clean
  <2> QED BY <1>1, <2>1, DeviceOK, BufferFacts, UseFacts
<1>6. Usual(A) /\ ByCaller(A)
  BY <1>4 DEF Usual, ByCaller
<1>7. StoredNumbers' \ {None} = {} /\ stored' \in [Buckets -> Numbers \cup {None}]
  BY <1>1 DEF StoredNumbers
<1>8. /\ \A b \in Buckets : \A x \in {Shard(b), Full(b), OwnGather(b)} : x \in live => x \in live'
      /\ \A n \in Numbers : Copy(n) \in live => Copy(n) \in live'
  <2>1. \A b, n : Result(n) \notin {Shard(b), Full(b), OwnGather(b)}
    BY Apart
  <2>2. \A m, n : Result(n) # Copy(m)
    BY Apart
  <2> QED BY <1>1, <1>3, <2>1, <2>2
<1> HIDE DEF A
<1> QED BY <1>1, <1>5, <1>6, <1>7, <1>8, CallerWorks, CallerStep DEF SInv, Typed

\* The caller's stream after it waited for an unshard.
LEMMA UnshardAwaited ==
  ASSUME SInv, NEW b \in Buckets
  PROVE  LET g == WaitEvents(device, "caller", {Gathered(b)})
         IN  /\ Adds(device, g, {}, {})
             /\ \A x \in {Full(b), Shard(b), SharedGather(b), OwnGather(b)} : Clean(g, x)
<1> DEFINE g == WaitEvents(device, "caller", {Gathered(b)})
<1>1. /\ Adds(device, g, {}, {})
      /\ \A x, v : Past(g, "caller", x, v) => PastEvent(device, Gathered(b), x, v)
  <2>1. {Gathered(b)} \in SUBSET Events /\ "caller" \in Streams
    BY BufferFacts
  <2> QED BY <2>1, DeviceOK, WaitFacts
<1> HIDE DEF g
<1>2. ASSUME NEW x \in {Full(b), Shard(b), SharedGather(b), OwnGather(b)}
      PROVE  Clean(g, x)
  <2> SUFFICES ASSUME NEW v \in Streams, Past(g, "caller", x, v) PROVE FALSE
    BY DEF Clean
  <2>1. Past(device, "caller", x, v) /\ PastEvent(device, Gathered(b), x, v)
    BY <1>1, BufferFacts DEF Adds
  <2> QED BY <2>1 DEF SInv, Awaited, BucketAwaited
<1> QED BY <1>1, <1>2 DEF g

LEMMA HandedBackFacts ==
  ASSUME NEW d \in Dev, NEW b
  PROVE  Adds(d, HandedBack(d, b), {}, {})
<1> DEFINE w == StreamsWait(d, {"unshard"}, "caller")
           h == IF pending[b] = "shared" THEN w ELSE d
<1>1. Adds(d, w, {}, {})
  BY BufferFacts, StreamsWaitFacts
<1>2. Adds(d, h, {}, {}) /\ h \in Dev
  BY <1>1 DEF Adds
<1>3. HandedBack(d, b) = Forget(h, {<<"gathered", b>>})
  BY DEF HandedBack
<1> HIDE DEF h, w
<1>4. Adds(h, HandedBack(d, b), {}, {})
  BY <1>2, <1>3, ForgetFacts
<1>5. Adds(d, HandedBack(d, b), {} \cup {}, {} \cup {})
  BY <1>2, <1>4, AddsTwice
<1> QED BY <1>5

\* A bucket whose unshard ended, beside others that it does not concern.
LEMMA UnshardEnds ==
  ASSUME SInv, NEW b \in setup.buckets, NEW A, Adds(device, device', A, {}), ByCaller(A),
         \A x \in {Full(b), Shard(b), SharedGather(b), OwnGather(b)} : Clean(device', x),
         \A c \in Buckets \ {b} : \A x \in {Full(c), OwnGather(c)} : x \in live => x \in live',
         {"shard"} \X setup.buckets \subseteq live',
         created' \in {created, created \cup {b}}, unsharded' \in {unsharded, unsharded \cup {b}},
         pending' = [pending EXCEPT ![b] = "none"], UNCHANGED setup
  PROVE  /\ \A c \in Buckets :
              BucketAwaited(device', c, pending'[c], c \in created' \ FillInFinish', live')
         /\ InFlight' /\ created' \subseteq Buckets /\ unsharded' \subseteq Buckets
         /\ pending' \in [Buckets -> {"none", "shared", "explicit"}]
<1>1. /\ b \in Buckets /\ pending \in [Buckets -> {"none", "shared", "explicit"}]
      /\ created \subseteq Buckets /\ unsharded \subseteq Buckets
  BY SetupFacts DEF SInv, Typed
<1>2. /\ pending' \in [Buckets -> {"none", "shared", "explicit"}] /\ pending'[b] = "none"
      /\ \A c \in Buckets \ {b} : pending'[c] = pending[c]
  BY <1>1
<1>3. FillInFinish' = FillInFinish
  BY DEF FillInFinish
<1>4. ASSUME NEW c \in Buckets
      PROVE  BucketAwaited(device', c, pending'[c], c \in created' \ FillInFinish', live')
  <2>1. CASE c = b
    BY <2>1, CleanBucket
  <2>2. CASE c # b
    <3>1. BucketAwaited(device, c, pending[c], c \in created \ FillInFinish, live)
      BY DEF SInv, Awaited
    <3>2. BucketAwaited(device', c, pending[c], c \in created \ FillInFinish, live')
      BY <2>2, <3>1, DeviceOK, BucketKeeps DEF ByCaller
    <3>3. c \in created' \ FillInFinish' <=> c \in created \ FillInFinish
      BY <1>3, <2>2
    <3> QED BY <1>2, <2>2, <3>2, <3>3
  <2> QED BY <2>1, <2>2
<1>5. InFlight'
  BY <1>1, <1>2 DEF SInv, InFlight, Explicit
<1> QED BY <1>1, <1>2, <1>4, <1>5

LEMMA FinishUnshardKeeps ==
  ASSUME SInv, NEW b \in setup.buckets, FinishUnshard(b)
  PROVE  SInv'
<1> DEFINE g == WaitEvents(device, "caller", {Gathered(b)})
           fills == b \in FillInFinish \/ b \notin created
           a == IF fills THEN Allocate(g, live, Full(b)) ELSE g
           B == {Gather(b), Full(b)}
           copied == Use(a, "caller", B)
           A == B \X {"caller"}
<1>1. /\ device' = HandedBack(copied, b)
      /\ live' = (live \cup {Full(b)}) \ {Gather(b)}
      /\ created' = created \cup {b} /\ unsharded' = unsharded \cup {b}
      /\ pending' = [pending EXCEPT ![b] = "none"]
      /\ UNCHANGED <<setup, reductions, retired, stored>>
  BY DEF FinishUnshard, grads, Gathered
<1>2. /\ b \in Buckets /\ Gather(b) \in {SharedGather(b), OwnGather(b)} /\ Full(b) \in Buffers
      /\ Gather(b) \in Buffers /\ "caller" \in UsedOn(Full(b)) /\ "caller" \in UsedOn(Gather(b))
      /\ Pool(Full(b)) = "caller" /\ "caller" \in Streams
  <2>1. Gather(b) \in {SharedGather(b), OwnGather(b)}
    BY DEF Gather, SharedGather, OwnGather
  <2> QED BY <2>1, SetupFacts, BufferFacts
<1>3. /\ Adds(device, g, {}, {}) /\ g \in Dev
      /\ \A x \in {Full(b), Shard(b), SharedGather(b), OwnGather(b)} : Clean(g, x)
  BY <1>2, UnshardAwaited DEF Adds
<1>4. Adds(g, a, {<<Full(b), "caller">>}, {})
  <2>1. CASE fills
    <3>1. ASSUME NEW y \in Buffers \ live, Pool(y) = "caller" PROVE Clean(g, y)
      <4>1. Clean(device, y)
        BY <3>1, FreeClean
      <4> QED BY <1>3, <4>1, CleanKeeps
    <3> HIDE DEF g
    <3>2. \A y \in Buffers \ live : Pool(y) = Pool(Full(b)) =>
            \A v \in Streams : ~Past(g, Pool(Full(b)), y, v)
      BY <1>2, <3>1 DEF Clean
    <3>3. Adds(g, Allocate(g, live, Full(b)), {<<Full(b), Pool(Full(b))>>}, {})
      BY <1>2, <1>3, <3>2, AllocateFacts
    <3> QED BY <1>2, <2>1, <3>3
  <2>2. CASE ~fills
    BY <1>3, <2>2 DEF Adds
  <2> QED BY <2>1, <2>2
<1> HIDE DEF g, a, fills
<1>5. a \in Dev /\ \A x \in {Full(b), Shard(b), SharedGather(b), OwnGather(b)} : Clean(a, x)
  <2>1. \A x, v : <<x, v>> \in {<<Full(b), "caller">>} => v = "caller"
    OBVIOUS
  <2>2. a \in Dev
    BY <1>4 DEF Adds
  <2> QED BY <1>3, <1>4, <2>1, <2>2, CleanKeeps
<1>6. Adds(a, copied, A, {})
  <2>1. B \in SUBSET Buffers /\ \A x \in B : \A v \in Streams : ~Past(a, "caller", x, v)
    BY <1>2, <1>5 DEF Clean
  <2> QED BY <1>2, <1>5, <2>1, UseFacts
<1> HIDE DEF copied
<1>7. Adds(copied, device', {}, {})
  BY <1>1, <1>6, HandedBackFacts DEF Adds
<1>8. Adds(a, device', A, {}) /\ Adds(device, device', A, {})
  <2>1. Adds(a, device', A \cup {}, {} \cup {})
    BY <1>6, <1>7, AddsTwice
  <2>2. Adds(device, a, {} \cup {<<Full(b), "caller">>}, {} \cup {})
    BY <1>3, <1>4, AddsTwice
  <2>3. Adds(device, device', ({} \cup {<<Full(b), "caller">>}) \cup (A \cup {}), ({} \cup {}) \cup ({} \cup {}))
    BY <2>1, <2>2, AddsTwice
  <2>4. ({} \cup {<<Full(b), "caller">>}) \cup (A \cup {}) = A /\ A \cup {} = A
    OBVIOUS
  <2> HIDE DEF A
  <2> QED BY <2>1, <2>3, <2>4
<1>9. Usual(A) /\ ByCaller(A) /\ \A n, v : <<Result(n), v>> \notin A
  BY <1>2, Apart DEF Usual, ByCaller
<1> HIDE DEF A
<1>10. \A x \in {Full(b), Shard(b), SharedGather(b), OwnGather(b)} : Clean(device', x)
  BY <1>5, <1>8, <1>9, CleanKeeps DEF ByCaller
<1>11. /\ \A c \in Buckets \ {b} : \A x \in {Full(c), OwnGather(c)} : x \in live => x \in live'
       /\ {"shard"} \X setup.buckets \subseteq live'
       /\ \A n \in Numbers : Copy(n) \in live => Copy(n) \in live'
  <2>1. /\ \A c : c # b => Gather(b) \notin {Full(c), OwnGather(c)}
        /\ \A c, n : Gather(b) # Shard(c) /\ Gather(b) # Copy(n)
    BY <1>2, Apart
  <2> QED BY <1>1, <2>1 DEF SInv, InFlight, Shard
<1>12. StoredNumbers' = StoredNumbers
  BY <1>1 DEF StoredNumbers
<1> QED BY <1>1, <1>8, <1>9, <1>10, <1>11, <1>12, UnshardEnds, CallerStep DEF SInv, Typed

LEMMA ReleasePrefetchKeeps ==
  ASSUME SInv, NEW b \in setup.buckets, ReleasePrefetch(b)
  PROVE  SInv'
<1> DEFINE g == WaitEvents(device, "caller", {Gathered(b)})
<1>1. /\ device' = HandedBack(g, b) /\ live' = live \ {Gather(b), Full(b)}
      /\ pending' = [pending EXCEPT ![b] = "none"]
      /\ UNCHANGED <<setup, created, unsharded, reductions, retired, stored>>
  BY DEF ReleasePrefetch, grads, Gathered
<1>2. b \in Buckets /\ Gather(b) \in {SharedGather(b), OwnGather(b)}
  BY SetupFacts DEF Gather, SharedGather, OwnGather
<1>3. /\ Adds(device, g, {}, {}) /\ g \in Dev
      /\ \A x \in {Full(b), Shard(b), SharedGather(b), OwnGather(b)} : Clean(g, x)
  BY <1>2, UnshardAwaited DEF Adds
<1> HIDE DEF g
<1>4. Adds(g, device', {}, {})
  BY <1>1, <1>3, HandedBackFacts
<1>5. Adds(device, device', {}, {})
  <2>1. Adds(device, device', {} \cup {}, {} \cup {})
    BY <1>3, <1>4, AddsTwice
  <2> QED BY <2>1
<1>6. \A x \in {Full(b), Shard(b), SharedGather(b), OwnGather(b)} : Clean(device', x)
  BY <1>3, <1>4, CleanKeeps
<1>7. /\ \A c \in Buckets \ {b} : \A x \in {Full(c), OwnGather(c)} : x \in live => x \in live'
      /\ {"shard"} \X setup.buckets \subseteq live'
      /\ \A n \in Numbers : Copy(n) \in live => Copy(n) \in live'
  <2>1. /\ \A c : c # b => Gather(b) \notin {Full(c), OwnGather(c)}
        /\ \A c, n : Gather(b) # Shard(c) /\ Gather(b) # Copy(n)
    BY <1>2, Apart
  <2>2. /\ \A c : c # b => Full(b) \notin {Full(c), OwnGather(c)}
        /\ \A c, n : Full(b) # Shard(c) /\ Full(b) # Copy(n)
    BY Apart
  <2> QED BY <1>1, <2>2, <2>1 DEF SInv, InFlight, Shard
<1>8. StoredNumbers' = StoredNumbers /\ Usual({}) /\ ByCaller({})
  BY <1>1 DEF StoredNumbers, Usual, ByCaller
<1> QED BY <1>1, <1>5, <1>6, <1>7, <1>8, UnshardEnds, CallerStep DEF SInv, Typed

\* A bucket's unshard is begun on stream s, where it uses the bucket's buffers alone.
LEMMA UnshardBegins ==
  ASSUME SInv, NEW b \in setup.buckets, pending[b] = "none", b \notin unsharded,
         NEW s \in {"unshard", "collective"}, NEW A, Adds(device, device', A, {Gathered(b)}), Usual(A),
         \A x, v : <<x, v>> \in A =>
           /\ x \in {Full(b), Shard(b), SharedGather(b), OwnGather(b)}
           /\ \/ v = "caller"
              \/ v = s /\ x \in {Shard(b), SharedGather(b)} /\ s = "unshard"
              \/ v = s /\ x = OwnGather(b) /\ s = "collective"
              \/ v = s /\ x = Full(b) /\ b \in created \ FillInFinish,
         \A x, v : PastEvent(device', Gathered(b), x, v) => v # s,
         s = "collective" => b \in Explicit,
         pending' = [pending EXCEPT ![b] = IF s = "unshard" THEN "shared" ELSE "explicit"],
         NEW gather, gather = IF s = "unshard" THEN SharedGather(b) ELSE OwnGather(b),
         live' = live \cup RunWrites(b) \cup {gather},
         UNCHANGED <<setup, created, unsharded, reductions, retired, stored>>
  PROVE  SInv'
<1>1. /\ b \in Buckets /\ pending \in [Buckets -> {"none", "shared", "explicit"}]
      /\ created \subseteq Buckets /\ unsharded \subseteq Buckets
  BY SetupFacts DEF SInv, Typed
<1>2. /\ pending' \in [Buckets -> {"none", "shared", "explicit"}]
      /\ pending'[b] = (IF s = "unshard" THEN "shared" ELSE "explicit")
      /\ \A c \in Buckets \ {b} : pending'[c] = pending[c]
  BY <1>1
<1>3. FillInFinish' = FillInFinish /\ Explicit' = Explicit /\ StoredNumbers' = StoredNumbers
  BY DEF FillInFinish, Explicit, StoredNumbers
<1>4. live \subseteq live' /\ (b \in created \ FillInFinish => Full(b) \in live') /\ gather \in live'
  BY DEF RunWrites
<1>5. ASSUME NEW c \in Buckets, c # b
      PROVE  BucketAwaited(device', c, pending'[c], c \in created' \ FillInFinish', live')
  <2>1. BucketAwaited(device, c, pending[c], c \in created \ FillInFinish, live)
    BY DEF SInv, Awaited
  <2>2. ASSUME NEW x \in {Full(c), Shard(c), SharedGather(c), OwnGather(c)}
        PROVE  x \notin {Full(b), Shard(b), SharedGather(b), OwnGather(b)}
    BY <1>5, <2>2, Apart
  <2>3. \A x \in {Full(c), Shard(c), SharedGather(c), OwnGather(c)} : \A v : <<x, v>> \in A => v = "caller"
    BY <2>2
  <2>4. Gathered(c) \notin {Gathered(b)}
    BY <1>5, Apart
  <2>5. BucketAwaited(device', c, pending[c], c \in created \ FillInFinish, live')
    BY <1>4, <2>1, <2>3, <2>4, DeviceOK, BucketKeeps
  <2> QED BY <1>2, <1>3, <1>5, <2>5
<1>6. BucketAwaited(device', b, pending'[b], b \in created \ FillInFinish, live')
  <2>1. ASSUME NEW x \in {Full(b), Shard(b), SharedGather(b), OwnGather(b)}, NEW v \in Streams,
               Past(device', "caller", x, v)
        PROVE  <<x, v>> \in A /\ v = s
    <3>1. ~Past(device, "caller", x, v)
      BY <1>1, QuietBucket DEF Clean
    <3>2. "caller" # v /\ <<x, v>> \in A
      BY <2>1, <3>1, BufferFacts DEF Adds
    <3> QED BY <3>2
  <2>2. \A x, v : Past(device', "caller", x, v) /\ v = s => ~PastEvent(device', Gathered(b), x, v)
    OBVIOUS
  <2>3. /\ Full(b) \notin {Shard(b), SharedGather(b), OwnGather(b)}
        /\ Shard(b) \notin {SharedGather(b), OwnGather(b)} /\ SharedGather(b) # OwnGather(b)
    BY Apart
  <2>4. ASSUME NEW v \in Streams, Past(device', "caller", Full(b), v)
        PROVE  /\ pending'[b] # "none" /\ b \in created \ FillInFinish /\ Full(b) \in live'
               /\ ~PastEvent(device', Gathered(b), Full(b), v)
    <3>1. <<Full(b), v>> \in A /\ v = s
      BY <2>1, <2>4
    <3>2. b \in created \ FillInFinish
      BY <2>3, <3>1
    <3>3. pending'[b] # "none"
      BY <1>2
    <3> QED BY <1>4, <2>2, <2>4, <3>1, <3>2, <3>3
  <2>5. ASSUME NEW v \in Streams, Past(device', "caller", Shard(b), v)
        PROVE  pending'[b] = "shared" /\ ~PastEvent(device', Gathered(b), Shard(b), v)
    BY <1>2, <2>1, <2>2, <2>3, <2>5
  <2>6. ASSUME NEW v \in Streams, Past(device', "caller", SharedGather(b), v)
        PROVE  pending'[b] = "shared" /\ ~PastEvent(device', Gathered(b), SharedGather(b), v)
    BY <1>2, <2>1, <2>2, <2>3, <2>6
  <2>7. ASSUME NEW v \in Streams, Past(device', "caller", OwnGather(b), v)
        PROVE  /\ pending'[b] = "explicit" /\ OwnGather(b) \in live'
               /\ ~PastEvent(device', Gathered(b), OwnGather(b), v)
    <3>1. <<OwnGather(b), v>> \in A /\ v = s
      BY <2>1, <2>7
    <3>2. s = "collective"
      BY <2>3, <3>1
    <3>3. pending'[b] = "explicit" /\ gather = OwnGather(b)
      BY <1>2, <3>2
    <3> QED BY <1>4, <2>2, <2>7, <3>1, <3>3
  <2> QED BY <2>4, <2>5, <2>6, <2>7 DEF BucketAwaited
<1>7. \A c \in Buckets :
        BucketAwaited(device', c, pending'[c], c \in created' \ FillInFinish', live')
  BY <1>3, <1>5, <1>6
<1>8. InFlight'
  BY <1>2, <1>3, <1>4 DEF SInv, InFlight
<1>9. /\ \A n \in Numbers : Result(n) \notin {Gathered(b)}
      /\ \A n \in Numbers : Copy(n) \in live => Copy(n) \in live'
  BY <1>4, Apart
<1>10. /\ \A n, v : <<Result(n), v>> \notin A
       /\ \A x, v : <<x, v>> \in A => v # "reduce"
  <2>1. \A n : Result(n) \notin {Full(b), Shard(b), SharedGather(b), OwnGather(b)}
    BY Apart
  <2>2. "caller" # "reduce" /\ s # "reduce"
    OBVIOUS
  <2> QED BY <2>1, <2>2
<1> QED BY <1>1, <1>2, <1>3, <1>7, <1>8, <1>9, <1>10, UnshardStep DEF SInv, Typed

\* The storage that running an unshard writes, with what the caller's stream may
\* overtake then.
LEMMA RefilledFacts ==
  ASSUME SInv, NEW b \in Buckets
  PROVE  /\ Adds(device, Refilled(b), {<<Full(b), "caller">>}, {})
         /\ RunWrites(b) \subseteq {Full(b)} /\ (RunWrites(b) # {} <=> b \in created \ FillInFinish)
         /\ \A x \in RunWrites(b) : Clean(Refilled(b), x)
<1>1. RunWrites(b) = IF b \in created \ FillInFinish THEN {Full(b)} ELSE {}
  BY DEF RunWrites
<1>2. Full(b) \in Buffers /\ Pool(Full(b)) = "caller" /\ "caller" \in Streams
  BY BufferFacts
<1>3. CASE b \in created \ FillInFinish
  <2>1. Refilled(b) = Allocate(device, live, Full(b)) /\ RunWrites(b) = {Full(b)}
    BY <1>1, <1>3 DEF Refilled
  <2>2. \A y \in Buffers \ live : Pool(y) = "caller" => \A v \in Streams : ~Past(device, "caller", y, v)
    BY FreeClean DEF Clean
  <2>3. /\ Adds(device, Allocate(device, live, Full(b)), {<<Full(b), "caller">>}, {})
        /\ \A t \in Streams : \A v :
             Past(Allocate(device, live, Full(b)), t, Full(b), v) => v = "caller" /\ t # v
    BY <1>2, <2>2, DeviceOK, AllocateFacts
  <2> QED BY <1>2, <1>3, <2>1, <2>3 DEF Clean
<1>4. CASE b \notin created \ FillInFinish
  <2>1. Refilled(b) = device /\ RunWrites(b) = {}
    BY <1>1, <1>4 DEF Refilled
  <2>2. Adds(device, device, {<<Full(b), "caller">>}, {})
    BY DeviceOK DEF Adds
  <2> QED BY <1>4, <2>1, <2>2
<1> QED BY <1>3, <1>4

LEMMA BeginUnshardKeeps ==
  ASSUME SInv, NEW b \in setup.buckets, BeginUnshard(b)
  PROVE  SInv'
<1> DEFINE gather == SharedGather(b)
           r == Refilled(b)
           ordered == StreamsWait(r, {"unshard"}, "caller")
           held == live \cup RunWrites(b)
           allocated == Allocate(ordered, held, gather)
           B == {Shard(b), gather} \cup RunWrites(b)
           ran == Use(allocated, "unshard", B)
           A1 == {<<Full(b), "caller">>}
           A2 == {<<gather, "unshard">>}
           A3 == B \X {"unshard"}
           A == A1 \cup A2 \cup A3
<1>1. /\ b \notin unsharded /\ pending[b] = "none"
      /\ device' = Record(ran, Gathered(b), "unshard")
      /\ live' = live \cup RunWrites(b) \cup {gather}
      /\ pending' = [pending EXCEPT ![b] = "shared"]
      /\ UNCHANGED <<setup, created, unsharded, reductions, retired, stored>>
  BY DEF BeginUnshard, grads, SharedGather, Gathered
<1>2. /\ b \in Buckets /\ {Full(b), Shard(b), gather} \subseteq Buffers
      /\ UsedOn(Shard(b)) = {"caller", "unshard"} /\ UsedOn(gather) = {"caller", "unshard"}
      /\ UsedOn(Full(b)) = {"caller", "unshard", "collective"}
      /\ Pool(gather) = "unshard" /\ Gathered(b) \in Events
      /\ {"caller", "unshard"} \subseteq Streams
  BY <1>1, SetupFacts, BufferFacts
<1>3. /\ Adds(device, r, A1, {}) /\ r \in Dev /\ Users(r)
      /\ RunWrites(b) \subseteq {Full(b)} /\ (RunWrites(b) # {} <=> b \in created \ FillInFinish)
      /\ \A x \in RunWrites(b) : Clean(r, x)
  <2>1. Adds(device, r, A1, {})
    BY <1>2, RefilledFacts
  <2>2. Usual(A1)
    BY <1>2 DEF Usual
  <2> QED BY <1>2, <2>1, <2>2, RefilledFacts, DeviceOK, UsersKeep DEF Adds
<1> HIDE DEF r, held
<1>4. /\ Adds(r, ordered, {}, {}) /\ ordered \in Dev
      /\ \A x, v : Past(ordered, "unshard", x, v) => Past(r, "caller", x, v) /\ Past(r, "unshard", x, v)
  BY <1>2, <1>3, StreamsWaitFacts DEF Adds
<1> HIDE DEF ordered
<1>5. ASSUME NEW x \in Buffers, NEW v \in Streams, UsedOn(x) = {"caller", "unshard"}
      PROVE  ~Past(ordered, "unshard", x, v)
  BY <1>2, <1>3, <1>4, <1>5 DEF Users
<1>6. ASSUME NEW y \in Buffers, Pool(y) = "unshard" PROVE UsedOn(y) = {"caller", "unshard"}
  <2>1. ReduceStream # "unshard"
    BY BufferFacts
  <2> QED BY <1>6, <2>1, BufferFacts
<1>7. Adds(ordered, allocated, A2, {}) /\ allocated \in Dev
  <2>1. \A y \in Buffers \ held : Pool(y) = Pool(gather) =>
          \A v \in Streams : ~Past(ordered, Pool(gather), y, v)
    BY <1>2, <1>5, <1>6
  <2>2. Pool(gather) \in Streams
    BY <1>2
  <2>3. Adds(ordered, allocated, {<<gather, Pool(gather)>>}, {})
    BY <1>2, <1>4, <2>1, <2>2, AllocateFacts
  <2> QED BY <1>2, <2>3 DEF Adds
<1> HIDE DEF allocated
<1>8. Adds(allocated, ran, A3, {}) /\ ran \in Dev
  <2>1. ASSUME NEW x \in B, NEW v \in Streams PROVE ~Past(allocated, "unshard", x, v)
    <3>1. ~Past(ordered, "unshard", x, v)
      <4>1. CASE x \in RunWrites(b)
        BY <1>3, <1>4, <4>1 DEF Clean
      <4>2. CASE x \notin RunWrites(b)
        BY <1>2, <1>5, <4>2
      <4> QED BY <4>1, <4>2
    <3> QED BY <1>2, <1>7, <3>1 DEF Adds
  <2>2. B \in SUBSET Buffers
    BY <1>2, <1>3
  <2>3. Adds(allocated, ran, A3, {})
    BY <1>2, <1>7, <2>1, <2>2, UseFacts
  <2> QED BY <2>3 DEF Adds
<1> HIDE DEF ran
<1>9. Adds(device, ran, A, {})
  <2>1. Adds(device, ordered, A1 \cup {}, {} \cup {})
    BY <1>3, <1>4, AddsTwice
  <2>2. Adds(device, allocated, (A1 \cup {}) \cup A2, ({} \cup {}) \cup {})
    BY <1>7, <2>1, AddsTwice
  <2>3. Adds(device, ran, ((A1 \cup {}) \cup A2) \cup A3, (({} \cup {}) \cup {}) \cup {})
    BY <1>8, <2>2, AddsTwice
  <2>4. ((A1 \cup {}) \cup A2) \cup A3 = A /\ (({} \cup {}) \cup {}) \cup {} = {}
    OBVIOUS
  <2> HIDE DEF A, A1, A2, A3
  <2> QED BY <2>3, <2>4
<1>10. \A x, v : <<x, v>> \in A =>
         /\ x \in {Full(b), Shard(b), SharedGather(b), OwnGather(b)}
         /\ \/ v = "caller"
            \/ v = "unshard" /\ x \in {Shard(b), SharedGather(b)}
            \/ v = "unshard" /\ x = Full(b) /\ b \in created \ FillInFinish
  BY <1>3
<1>11. Usual(A)
  BY <1>2, <1>10 DEF Usual
<1> HIDE DEF A
<1>12. /\ Adds(device, device', A, {Gathered(b)})
       /\ \A x, v : PastEvent(device', Gathered(b), x, v) => v # "unshard"
  <2>1. Users(ran)
    BY <1>9, <1>11, DeviceOK, UsersKeep
  <2>2. /\ Adds(ran, device', {}, {Gathered(b)})
        /\ \A x, v : PastEvent(device', Gathered(b), x, v) => Past(ran, "unshard", x, v)
    BY <1>1, <1>2, <1>8, RecordFacts
  <2>3. Adds(device, device', A \cup {}, {} \cup {Gathered(b)})
    BY <1>9, <2>2, AddsTwice
  <2>4. \A x, v : Past(ran, "unshard", x, v) => v # "unshard"
    BY <1>2, <1>8, <2>1, DevFacts DEF Users
  <2> QED BY <2>2, <2>3, <2>4
<1> HIDE DEF gather
<1> DEFINE s == "unshard"
<1>13. /\ s \in {"unshard", "collective"} /\ (s = "collective" => b \in Explicit)
       /\ \A x, v : PastEvent(device', Gathered(b), x, v) => v # s
       /\ pending' = [pending EXCEPT ![b] = IF s = "unshard" THEN "shared" ELSE "explicit"]
       /\ gather = IF s = "unshard" THEN SharedGather(b) ELSE OwnGather(b)
       /\ \A x, v : <<x, v>> \in A =>
            /\ x \in {Full(b), Shard(b), SharedGather(b), OwnGather(b)}
            /\ \/ v = "caller"
               \/ v = s /\ x \in {Shard(b), SharedGather(b)} /\ s = "unshard"
               \/ v = s /\ x = OwnGather(b) /\ s = "collective"
               \/ v = s /\ x = Full(b) /\ b \in created \ FillInFinish
  BY <1>1, <1>10, <1>12 DEF gather
<1> HIDE DEF s
<1> QED BY <1>1, <1>11, <1>12, <1>13, UnshardBegins

LEMMA BeginExplicitUnshardKeeps ==
  ASSUME SInv, NEW b \in setup.buckets, BeginExplicitUnshard(b)
  PROVE  SInv'
<1> DEFINE gather == OwnGather(b)
           r == Refilled(b)
           held == live \cup RunWrites(b)
           allocated == Allocate(r, held, gather)
           copied == Use(allocated, "caller", {Shard(b), gather})
           ordered == StreamsWait(copied, {"collective"}, "caller")
           B == {gather} \cup RunWrites(b)
           ran == Use(ordered, "collective", B)
           A1 == {<<Full(b), "caller">>}
           A2 == {<<gather, "caller">>}
           A3 == {Shard(b), gather} \X {"caller"}
           A4 == B \X {"collective"}
           Early == A1 \cup A2 \cup A3
           A == Early \cup A4
           Own == {Full(b), Shard(b), SharedGather(b), OwnGather(b)}
<1>1. /\ b \in Explicit /\ b \notin unsharded /\ pending[b] = "none"
      /\ device' = Record(ran, Gathered(b), "collective")
      /\ live' = live \cup RunWrites(b) \cup {gather}
      /\ pending' = [pending EXCEPT ![b] = "explicit"]
      /\ UNCHANGED <<setup, created, unsharded, reductions, retired, stored>>
  BY DEF BeginExplicitUnshard, grads, OwnGather, Gathered
<1>2. /\ b \in Buckets /\ {Full(b), Shard(b), gather} \subseteq Buffers
      /\ "caller" \in UsedOn(Shard(b)) /\ UsedOn(gather) = {"caller", "collective"}
      /\ UsedOn(Full(b)) = {"caller", "unshard", "collective"}
      /\ Pool(gather) = "caller" /\ Gathered(b) \in Events
      /\ {"caller", "collective"} \subseteq Streams
  BY <1>1, SetupFacts, BufferFacts
<1>3. /\ Adds(device, r, A1, {}) /\ r \in Dev
      /\ RunWrites(b) \subseteq {Full(b)} /\ (RunWrites(b) # {} <=> b \in created \ FillInFinish)
  BY <1>2, RefilledFacts DEF Adds
<1> HIDE DEF r
<1>4. Adds(r, allocated, A2, {}) /\ allocated \in Dev
  <2>1. ASSUME NEW y \in Buffers \ held, Pool(y) = "caller" PROVE Clean(r, y)
    <3>1. Clean(device, y)
      BY <2>1, FreeClean
    <3>2. \A v : <<y, v>> \in A1 => v = "caller"
      OBVIOUS
    <3> QED BY <1>3, <3>1, <3>2, CleanKeeps
  <2>2. \A y \in Buffers \ held : Pool(y) = Pool(gather) =>
          \A v \in Streams : ~Past(r, Pool(gather), y, v)
    BY <1>2, <2>1 DEF Clean
  <2>3. Adds(r, allocated, {<<gather, Pool(gather)>>}, {})
    BY <1>2, <1>3, <2>2, AllocateFacts
  <2> QED BY <1>2, <2>3 DEF Adds
<1> HIDE DEF allocated, held
<1>5. \A x \in Own : Clean(allocated, x)
  <2> SUFFICES ASSUME NEW x \in Own PROVE Clean(allocated, x)
    OBVIOUS
  <2>1. Clean(device, x)
    BY <1>1, <1>2, QuietBucket
  <2>2. (\A v : <<x, v>> \in A1 => v = "caller") /\ (\A v : <<x, v>> \in A2 => v = "caller")
    OBVIOUS
  <2>3. Clean(r, x)
    BY <1>3, <2>1, <2>2, CleanKeeps
  <2> QED BY <1>4, <2>2, <2>3, CleanKeeps
<1>6. Adds(allocated, copied, A3, {}) /\ copied \in Dev
  <2>1. {Shard(b), gather} \in SUBSET Buffers
    BY <1>2
  <2>2. \A x \in {Shard(b), gather} : \A v \in Streams : ~Past(allocated, "caller", x, v)
    BY <1>5 DEF Clean
  <2>3. Adds(allocated, copied, A3, {})
    BY <1>2, <1>4, <2>1, <2>2, UseFacts
  <2> QED BY <2>3 DEF Adds
<1> HIDE DEF copied
<1>7. \A x \in Own : Clean(copied, x)
  <2>1. \A x, v : <<x, v>> \in A3 => v = "caller"
    OBVIOUS
  <2> QED BY <1>5, <1>6, <2>1, CleanKeeps
<1>8. /\ Adds(copied, ordered, {}, {}) /\ ordered \in Dev
      /\ \A x, v : Past(ordered, "collective", x, v) => Past(copied, "caller", x, v)
  BY <1>2, <1>6, StreamsWaitFacts DEF Adds
<1> HIDE DEF ordered
<1>9. Adds(ordered, ran, A4, {}) /\ ran \in Dev
  <2>1. B \in SUBSET Buffers /\ B \subseteq Own
    BY <1>2, <1>3
  <2>2. \A x \in B : \A v \in Streams : ~Past(ordered, "collective", x, v)
    BY <1>7, <1>8, <2>1 DEF Clean
  <2>3. Adds(ordered, ran, A4, {})
    BY <1>2, <1>8, <2>1, <2>2, UseFacts
  <2> QED BY <2>3 DEF Adds
<1> HIDE DEF ran
<1>10. Adds(device, ran, A, {})
  <2>1. Adds(device, allocated, A1 \cup A2, {} \cup {})
    BY <1>3, <1>4, AddsTwice
  <2>2. Adds(device, copied, Early, ({} \cup {}) \cup {})
    <3> HIDE DEF A1, A2, A3
    <3> QED BY <1>6, <2>1, AddsTwice
  <2>3. Adds(device, ordered, Early \cup {}, (({} \cup {}) \cup {}) \cup {})
    <3> HIDE DEF Early
    <3> QED BY <1>8, <2>2, AddsTwice
  <2>4. Adds(device, ran, (Early \cup {}) \cup A4, ((({} \cup {}) \cup {}) \cup {}) \cup {})
    <3> HIDE DEF Early, A4
    <3> QED BY <1>9, <2>3, AddsTwice
  <2>5. (Early \cup {}) \cup A4 = A /\ ((({} \cup {}) \cup {}) \cup {}) \cup {} = {}
    OBVIOUS
  <2> HIDE DEF A, Early, A4
  <2> QED BY <2>4, <2>5
<1> HIDE DEF gather
<1> DEFINE s == "collective"
<1>11. /\ s \in {"unshard", "collective"} /\ (s = "collective" => b \in Explicit)
       /\ pending' = [pending EXCEPT ![b] = IF s = "unshard" THEN "shared" ELSE "explicit"]
       /\ gather = IF s = "unshard" THEN SharedGather(b) ELSE OwnGather(b)
       /\ \A x, v : <<x, v>> \in A =>
            /\ x \in {Full(b), Shard(b), SharedGather(b), OwnGather(b)}
            /\ \/ v = "caller"
               \/ v = s /\ x \in {Shard(b), SharedGather(b)} /\ s = "unshard"
               \/ v = s /\ x = OwnGather(b) /\ s = "collective"
               \/ v = s /\ x = Full(b) /\ b \in created \ FillInFinish
  BY <1>1, <1>3 DEF gather
<1>12. Usual(A)
  <2>1. /\ \A x \in Own : x \in Buffers /\ "caller" \in UsedOn(x)
        /\ "collective" \in UsedOn(OwnGather(b)) /\ "collective" \in UsedOn(Full(b))
    BY <1>2, BufferFacts
  <2> HIDE DEF A
  <2> QED BY <1>11, <2>1 DEF Usual
<1> HIDE DEF A
<1>13. /\ Adds(device, device', A, {Gathered(b)})
       /\ \A x, v : PastEvent(device', Gathered(b), x, v) => v # s
  <2>1. Users(ran)
    BY <1>10, <1>12, DeviceOK, UsersKeep
  <2>2. /\ Adds(ran, device', {}, {Gathered(b)})
        /\ \A x, v : PastEvent(device', Gathered(b), x, v) => Past(ran, "collective", x, v)
    BY <1>1, <1>2, <1>9, RecordFacts
  <2>3. Adds(device, device', A \cup {}, {} \cup {Gathered(b)})
    BY <1>10, <2>2, AddsTwice
  <2>4. \A x, v : Past(ran, "collective", x, v) => v # "collective"
    BY <1>2, <1>9, <2>1, DevFacts DEF Users
  <2> QED BY <2>2, <2>3, <2>4
<1> HIDE DEF s
<1> QED BY <1>1, <1>11, <1>12, <1>13, UnshardBegins DEF gather

\* The streams of a released reduction's buffers, once released.
LEMMA ReleasedFacts ==
  ASSUME NEW d \in Dev, NEW N \in SUBSET Numbers
  PROVE  /\ Adds(d, Released(d, N), {}, {})
         /\ \A n \in N : \A x, v : Past(Released(d, N), "caller", x, v) => PastEvent(d, Result(n), x, v)
<1> DEFINE w == WaitEvents(d, "release", ReducedEvents(N))
           T == {"caller", ReduceStream}
<1>1. Released(d, N) = StreamsWait(w, T, "release")
  BY DEF Released
<1>2. "release" \in Streams /\ T \in SUBSET Streams
  BY BufferFacts
<1>3. ReducedEvents(N) \in SUBSET Events /\ \A n \in N : Result(n) \in ReducedEvents(N)
  BY DEF ReducedEvents, Events, Result
<1>4. /\ Adds(d, w, {}, {}) /\ w \in Dev
      /\ \A n \in N : \A x, v : Past(w, "release", x, v) => PastEvent(d, Result(n), x, v)
  BY <1>2, <1>3, WaitFacts DEF Adds
<1> HIDE DEF w
<1>5. /\ Adds(w, Released(d, N), {}, {})
      /\ \A x, v : Past(Released(d, N), "caller", x, v) => Past(w, "release", x, v)
  BY <1>1, <1>2, <1>4, StreamsWaitFacts
<1>6. Adds(d, Released(d, N), {} \cup {}, {} \cup {})
  BY <1>4, <1>5, AddsTwice
<1> QED BY <1>4, <1>5, <1>6

\* A released reduction's buffers are those of reductions alone.
LEMMA ReleasedApart ==
  ASSUME NEW n
  PROVE  /\ \A b : {Full(b), Shard(b), OwnGather(b), <<"grad", b>>} \cap ReleasedBuffers(n) = {}
         /\ \A m : Copy(m) \in ReleasedBuffers(n) <=> m = n
         /\ ReleasedBuffers(n) \subseteq {Copy(n), Result(n)}
<1>1. ReleasedBuffers(n) \subseteq {Copy(n), Result(n)} /\ Copy(n) \in ReleasedBuffers(n)
  BY DEF ReleasedBuffers, Copy, Result
<1>2. \A b : \A x \in {Full(b), Shard(b), OwnGather(b), <<"grad", b>>} : x # Copy(n) /\ x # Result(n)
  BY Apart
<1>3. \A m : Copy(m) # Result(n) /\ (Copy(m) = Copy(n) <=> m = n)
  BY Apart
<1> QED BY <1>1, <1>2, <1>3

LEMMA WaitAndClearKeeps ==
  ASSUME SInv, WaitAndClear
  PROVE  SInv'
<1> DEFINE running == ToSet(reductions)
           late == WaitEvents(device, "caller", ReducedEvents(retired \cup running))
           released == Released(late, running)
<1>1. /\ device' = Forget(released, ReducedEvents(Numbers))
      /\ live' = live \ UNION {ReleasedBuffers(n) : n \in running}
      /\ reductions' = <<>> /\ retired' = {}
      /\ UNCHANGED <<setup, created, unsharded, pending, stored>>
  BY DEF WaitAndClear, params
<1>2. running \subseteq Numbers /\ retired \subseteq Numbers /\ reductions \in Seq(Numbers)
  BY DEF SInv, Typed, ToSet
<1>3. /\ ReducedEvents(retired \cup running) \in SUBSET Events
      /\ \A n \in retired \cup running : Result(n) \in ReducedEvents(retired \cup running)
  BY <1>2 DEF ReducedEvents, Events, Result
<1>4. /\ Adds(device, late, {}, {}) /\ late \in Dev
      /\ \A n \in running : \A x, v : Past(late, "caller", x, v) => PastEvent(device, Result(n), x, v)
  BY <1>3, BufferFacts, DeviceOK, WaitFacts DEF Adds
<1> HIDE DEF late
<1>5. Adds(late, released, {}, {}) /\ released \in Dev
  BY <1>2, <1>4, ReleasedFacts DEF Adds
<1> HIDE DEF released
<1>6. Adds(released, device', {}, {})
  BY <1>1, <1>5, ForgetFacts
<1>7. Adds(late, device', {}, {}) /\ Adds(device, device', {}, {})
  <2>1. Adds(late, device', {} \cup {}, {} \cup {})
    BY <1>5, <1>6, AddsTwice
  <2>2. Adds(device, device', {} \cup ({} \cup {}), {} \cup ({} \cup {}))
    BY <1>4, <2>1, AddsTwice
  <2> QED BY <2>1, <2>2
<1>8. ASSUME NEW x, NEW v, Past(device', "caller", x, v)
      PROVE  Past(device, "caller", x, v) /\ \A n \in running : PastEvent(device, Result(n), x, v)
  BY <1>4, <1>7, <1>8, BufferFacts DEF Adds
<1>9. \A n \in Numbers : CopyAwaited(device', n, ToSet(reductions'), live')
  <2> SUFFICES ASSUME NEW n \in Numbers, NEW v \in Streams, Past(device', "caller", Copy(n), v)
               PROVE  FALSE
    BY DEF CopyAwaited
  <2>1. CopyAwaited(device, n, running, live)
    BY DEF SInv, Awaited
  <2> QED BY <1>8, <2>1 DEF CopyAwaited
<1>10. ReductionsAwaited(device', reductions')
  <2> SUFFICES ASSUME NEW x \in Buffers, Past(device', "caller", x, "reduce") PROVE FALSE
    BY <1>1 DEF ReductionsAwaited
  <2>1. ReductionsAwaited(device, reductions)
    BY DEF SInv, Awaited
  <2>2. reductions # <<>>
    BY <1>8, <2>1 DEF ReductionsAwaited
  <2>3. reductions[Len(reductions)] \in running
    BY <1>2, <2>2 DEF ToSet
  <2> QED BY <1>8, <2>1, <2>2, <2>3 DEF ReductionsAwaited
<1>11. \A n \in Numbers : n \in StoredNumbers' => ResultAlone(device', n)
  <2>1. StoredNumbers' = StoredNumbers
    BY <1>1 DEF StoredNumbers
  <2> QED BY <1>7, <2>1, ResultKeeps DEF SInv, Awaited
<1>12. Usual({}) /\ ByCaller({})
  BY DEF Usual, ByCaller
<1>13. \A b \in Buckets : \A x \in {Shard(b), Full(b), OwnGather(b)} : x \in live => x \in live'
  BY <1>1, ReleasedApart
<1>14. /\ InFlight'
       /\ \A b \in Buckets :
            BucketAwaited(device', b, pending'[b], b \in created' \ FillInFinish', live')
  BY <1>1, <1>7, <1>12, <1>13, CallerWorks
<1>15. /\ created' \subseteq Buckets /\ unsharded' \subseteq Buckets
       /\ pending' \in [Buckets -> {"none", "shared", "explicit"}]
       /\ reductions' \in Seq(Numbers) /\ retired' \subseteq Numbers
       /\ stored' \in [Buckets -> Numbers \cup {None}]
  BY <1>1 DEF SInv, Typed
<1> QED BY <1>1, <1>7, <1>9, <1>10, <1>11, <1>12, <1>14, <1>15, StepKeeps

\* The oldest reduction, and the rest.
LEMMA OldestReduction ==
  ASSUME NEW list \in Seq(Numbers), list # <<>>
  PROVE  /\ Head(list) \in Numbers /\ Tail(list) \in Seq(Numbers)
         /\ ToSet(list) = {Head(list)} \cup ToSet(Tail(list))
<1>1. Head(list) \in Numbers /\ Tail(list) \in Seq(Numbers) /\ Len(Tail(list)) = Len(list) - 1
  OBVIOUS
<1>2. \A i \in 1 .. Len(list) : i # 1 => i - 1 \in 1 .. Len(Tail(list)) /\ list[i] = Tail(list)[i - 1]
  OBVIOUS
<1>3. \A i \in 1 .. Len(Tail(list)) : i + 1 \in 1 .. Len(list) /\ Tail(list)[i] = list[i + 1]
  OBVIOUS
<1>4. 1 \in 1 .. Len(list) /\ list[1] = Head(list)
  OBVIOUS
<1>5. ToSet(list) \subseteq {Head(list)} \cup ToSet(Tail(list))
  <2> SUFFICES ASSUME NEW i \in 1 .. Len(list), i # 1 PROVE list[i] \in ToSet(Tail(list))
    BY <1>4 DEF ToSet
  <2>1. i - 1 \in 1 .. Len(Tail(list)) /\ list[i] = Tail(list)[i - 1]
    BY <1>2
  <2>2. DOMAIN Tail(list) = 1 .. Len(Tail(list))
    BY <1>1
  <2>3. ToSet(Tail(list)) = {Tail(list)[k] : k \in DOMAIN Tail(list)}
    BY DEF ToSet
  <2> QED BY <2>1, <2>2, <2>3, Zenon
<1>6. {Head(list)} \cup ToSet(Tail(list)) \subseteq ToSet(list)
  BY <1>1, <1>3, <1>4 DEF ToSet
<1> QED BY <1>1, <1>5, <1>6

\* What a drain leaves to a reduction: whatever is free is clean.
LEMMA DrainedFacts ==
  ASSUME SInv
  PROVE  /\ Adds(device, Drained.device, {}, {})
         /\ Drained.reductions \in Seq(Numbers) /\ Drained.retired \subseteq Numbers
         /\ \A n \in Numbers : CopyAwaited(Drained.device, n, ToSet(Drained.reductions), Drained.live)
         /\ \A y \in Buffers \ Drained.live : Pool(y) = "caller" => Clean(Drained.device, y)
         /\ \A b : \A x \in {Full(b), Shard(b), OwnGather(b)} : x \in live => x \in Drained.live
<1>1. /\ device \in Dev /\ reductions \in Seq(Numbers) /\ retired \subseteq Numbers
      /\ \A n \in Numbers : CopyAwaited(device, n, ToSet(reductions), live)
  BY DEF SInv, Typed, Awaited
<1>2. CASE ~MustDrain
  <2>1. Drained = [device |-> device, live |-> live, reductions |-> reductions, retired |-> retired]
    BY <1>2 DEF Drained
  <2>2. Adds(device, device, {}, {})
    BY <1>1 DEF Adds
  <2> QED BY <1>1, <2>1, <2>2, FreeClean
<1>3. CASE MustDrain
  <2> DEFINE h == Head(reductions)
             d == Released(device, {h})
             l == live \ ReleasedBuffers(h)
  <2>1. reductions # <<>>
    <3>1. MaxPending \in Nat
      BY StreamsAssumption DEF SInv, Typed, MaxPending
    <3> QED BY <1>3, <3>1 DEF MustDrain
  <2>2. Drained = [device |-> d, live |-> l, reductions |-> Tail(reductions),
                   retired |-> retired \cup {h}]
    BY <1>3 DEF Drained
  <2>3. /\ h \in Numbers /\ Tail(reductions) \in Seq(Numbers)
        /\ ToSet(reductions) = {h} \cup ToSet(Tail(reductions))
    BY <1>1, <2>1, OldestReduction
  <2>4. /\ Adds(device, d, {}, {})
        /\ \A x, v : Past(d, "caller", x, v) => PastEvent(device, Result(h), x, v)
    BY <1>1, <2>3, ReleasedFacts
  <2> HIDE DEF d, h, l
  <2>5. Clean(d, Copy(h))
    <3> SUFFICES ASSUME NEW v \in Streams, Past(d, "caller", Copy(h), v) PROVE FALSE
      BY DEF Clean
    <3>1. Past(device, "caller", Copy(h), v)
      BY <2>4, BufferFacts DEF Adds
    <3> QED BY <1>1, <2>3, <2>4, <3>1 DEF CopyAwaited
  <2>6. ASSUME NEW n \in Numbers PROVE CopyAwaited(d, n, ToSet(Tail(reductions)), l)
    <3>1. CASE n = h
      BY <2>5, <3>1 DEF CopyAwaited, Clean
    <3>2. CASE n # h
      <4>1. Copy(n) \in live => Copy(n) \in l
        BY <3>2, ReleasedApart DEF l
      <4>2. n \in ToSet(reductions) => n \in ToSet(Tail(reductions))
        BY <2>3, <3>2
      <4> QED BY <1>1, <2>4, <4>1, <4>2, CopyKeeps, DeviceOK
    <3> QED BY <3>1, <3>2
  <2>7. ASSUME NEW y \in Buffers \ l, Pool(y) = "caller" PROVE Clean(d, y)
    <3>1. CASE y \notin live
      BY <2>4, <2>7, <3>1, FreeClean, CleanKeeps
    <3>2. CASE y \in live
      <4>1. y \in {Copy(h), Result(h)}
        BY <2>7, <3>2, ReleasedApart DEF l
      <4>2. CASE y = Copy(h)
        BY <2>5, <4>2
      <4>3. CASE y = Result(h)
        <5>1. UsedOn(y) = {"caller"}
          BY <2>3, <2>7, <4>3, BufferFacts
        <5> QED BY <2>4, <5>1, CallerOnlyClean, CleanKeeps
      <4> QED BY <4>1, <4>2, <4>3
    <3> QED BY <3>1, <3>2
  <2>8. \A b : \A x \in {Full(b), Shard(b), OwnGather(b)} : x \in live => x \in l
    BY ReleasedApart DEF l
  <2> QED BY <1>1, <2>2, <2>3, <2>4, <2>6, <2>7, <2>8
<1> QED BY <1>2, <1>3

\* The uses that a reduction's grads, copies and results see.
ReductionUses(b, n) ==
  ({<<"grad", b>>, Copy(n)} \X {"caller"})
  \cup (({Copy(n)} \cup {Result(m) : m \in Numbers}) \X {ReduceStream})

LEMMA ReductionUsesFacts ==
  ASSUME NEW b \in Buckets, NEW n \in Numbers
  PROVE  /\ Usual(ReductionUses(b, n))
         /\ \A c, v : \A x \in {Full(c), Shard(c), SharedGather(c), OwnGather(c)} :
              <<x, v>> \notin ReductionUses(b, n)
         /\ \A m, v : <<Copy(m), v>> \in ReductionUses(b, n) => m = n
         /\ \A m, v : <<Result(m), v>> \in ReductionUses(b, n) => v = ReduceStream
<1>1. \A x, v : <<x, v>> \in ReductionUses(b, n) =>
        \/ x \in {<<"grad", b>>, Copy(n)} /\ v = "caller"
        \/ x = Copy(n) /\ v = ReduceStream
        \/ \E m \in Numbers : x = Result(m) /\ v = ReduceStream
  BY DEF ReductionUses
<1>2. Usual(ReductionUses(b, n))
  BY <1>1, BufferFacts DEF Usual
<1>3. \A c : \A x \in {Full(c), Shard(c), SharedGather(c), OwnGather(c)} :
        /\ x # <<"grad", b>> /\ x # Copy(n) /\ \A m : x # Result(m)
  BY Apart
<1>4. \A m, k : /\ Copy(m) # <<"grad", b>> /\ Copy(m) # Result(k) /\ (Copy(m) = Copy(n) => m = n)
                /\ Result(m) # <<"grad", b>> /\ Result(m) # Copy(n)
  BY Apart
<1> HIDE DEF ReductionUses
<1> QED BY <1>1, <1>2, <1>3, <1>4

\* A reduction queued after a drain left d, with what is not held free to take.
LEMMA ReductionQueued ==
  ASSUME SInv, NEW b \in Buckets, NEW n \in Numbers, NEW d, Adds(device, d, {}, {}), NEW held,
         \A y \in Buffers \ held : Pool(y) = "caller" => Clean(d, y)
  PROVE  LET copied == Use(Allocate(d, held, Copy(n)), "caller", {<<"grad", b>>, Copy(n)})
             ordered == StreamsWait(copied, {ReduceStream}, "caller")
             reduced == Use(Allocate(ordered, held \cup {Copy(n)}, Result(n)), ReduceStream,
                            {Copy(n), Result(n)})
             e == Accumulated(Record(reduced, Result(n), ReduceStream), b, n)
         IN  /\ Adds(d, e, ReductionUses(b, n), {Result(n)})
             /\ \A x, v : PastEvent(e, Result(n), x, v) => v # ReduceStream /\ v # "reduce"
             /\ ResultAlone(e, n)
<1> DEFINE grad == <<"grad", b>>
           copy == Copy(n)
           result == Result(n)
           RS == ReduceStream
           a == Allocate(d, held, copy)
           copied == Use(a, "caller", {grad, copy})
           ordered == StreamsWait(copied, {RS}, "caller")
           r == Allocate(ordered, held \cup {copy}, result)
           reduced == Use(r, RS, {copy, result})
           recorded == Record(reduced, result, RS)
           e == Accumulated(recorded, b, n)
           A == ReductionUses(b, n)
<1>1. /\ {grad, copy, result} \subseteq Buffers /\ result \in Events
      /\ Pool(copy) = "caller" /\ Pool(result) = RS /\ UsedOn(grad) = {"caller"}
      /\ "caller" \in Streams /\ RS \in Streams /\ RS \in {"caller", "reduce"}
  BY BufferFacts
<1>2. /\ d \in Dev /\ Users(d) /\ Usual(A)
  BY DeviceOK, UsersKeep, ReductionUsesFacts DEF Adds, Usual
<1>3. /\ Adds(d, a, {<<copy, "caller">>}, {}) /\ a \in Dev
      /\ \A t \in Streams : \A v : Past(a, t, copy, v) => v = "caller" /\ t # v
  <2>1. \A y \in Buffers \ held : Pool(y) = Pool(copy) => \A v \in Streams : ~Past(d, Pool(copy), y, v)
    BY <1>1 DEF Clean
  <2>2. Pool(copy) \in Streams
    BY <1>1
  <2> QED BY <1>1, <1>2, <2>1, <2>2, AllocateFacts DEF Adds
<1> HIDE DEF a
<1>4. Adds(a, copied, {grad, copy} \X {"caller"}, {}) /\ copied \in Dev
  <2>1. Clean(a, grad) /\ Clean(a, copy)
    <3>1. Clean(device, grad)
      BY <1>1, CallerOnlyClean
    <3>2. Clean(d, grad)
      BY <3>1, CleanKeeps
    <3> QED BY <1>1, <1>3, <3>2, CleanKeeps DEF Clean
  <2>2. {grad, copy} \in SUBSET Buffers /\ \A x \in {grad, copy} : \A v \in Streams : ~Past(a, "caller", x, v)
    BY <1>1, <2>1 DEF Clean
  <2> QED BY <1>1, <1>3, <2>2, UseFacts DEF Adds
<1> HIDE DEF copied
<1>5. Adds(d, copied, A, {}) /\ Users(copied) /\ Clean(copied, copy)
  <2>1. Adds(d, copied, {<<copy, "caller">>} \cup ({grad, copy} \X {"caller"}), {} \cup {})
    <3> HIDE DEF grad, copy
    <3> QED BY <1>3, <1>4, AddsTwice
  <2>2. {<<copy, "caller">>} \cup ({grad, copy} \X {"caller"}) \subseteq A /\ {} \cup {} \subseteq {}
    BY DEF ReductionUses
  <2>3. Adds(d, copied, A, {})
    <3> HIDE DEF A
    <3> QED BY <2>1, <2>2, AddsMore
  <2>4. Clean(copied, copy)
    <3>1. Clean(a, copy)
      BY <1>1, <1>3 DEF Clean
    <3>2. \A v : <<copy, v>> \in {grad, copy} \X {"caller"} => v = "caller"
      OBVIOUS
    <3> QED BY <1>4, <3>1, <3>2, CleanKeeps
  <2> QED BY <1>2, <2>3, <2>4, UsersKeep
<1>6. ASSUME NEW y \in Buffers \ held, Pool(y) = "caller" PROVE Clean(copied, y)
  <2>1. Clean(d, y)
    BY <1>6
  <2>2. \A v : <<y, v>> \in {<<copy, "caller">>} => v = "caller"
    OBVIOUS
  <2>3. \A v : <<y, v>> \in {grad, copy} \X {"caller"} => v = "caller"
    OBVIOUS
  <2>4. Clean(a, y)
    BY <1>3, <2>1, <2>2, CleanKeeps
  <2> QED BY <1>4, <2>3, <2>4, CleanKeeps
<1>7. /\ Adds(copied, ordered, {}, {}) /\ ordered \in Dev
      /\ \A x, v : Past(ordered, RS, x, v) => Past(copied, "caller", x, v) /\ Past(copied, RS, x, v)
  BY <1>1, <1>4, StreamsWaitFacts DEF Adds
<1> HIDE DEF ordered
<1>8. ASSUME NEW y \in Buffers \ held, Pool(y) = RS, NEW v \in Streams
      PROVE  ~Past(ordered, RS, y, v)
  <2>1. CASE Pool(y) = "caller"
    BY <1>6, <1>7, <2>1 DEF Clean
  <2>2. CASE Pool(y) # "caller"
    <3>1. \E m \in Numbers : y = Result(m)
      BY <1>1, <1>8, <2>2, BufferFacts
    <3>2. UsedOn(y) = {"caller", RS}
      BY <3>1, BufferFacts
    <3> QED BY <1>1, <1>5, <1>7, <3>2 DEF Users
  <2> QED BY <2>1, <2>2
<1>9. /\ Adds(ordered, r, {<<result, RS>>}, {}) /\ r \in Dev
      /\ \A t \in Streams : \A v : Past(r, t, result, v) => v = RS /\ t # v
  <2>1. \A y \in Buffers \ (held \cup {copy}) : Pool(y) = Pool(result) =>
          \A v \in Streams : ~Past(ordered, Pool(result), y, v)
    BY <1>1, <1>8
  <2>2. Pool(result) \in Streams
    BY <1>1
  <2> HIDE DEF RS
  <2> QED BY <1>1, <1>7, <2>1, <2>2, AllocateFacts DEF Adds
<1> HIDE DEF r
<1>10. Adds(r, reduced, {copy, result} \X {RS}, {}) /\ reduced \in Dev
  <2>1. \A x \in {copy, result} : \A v \in Streams : ~Past(r, RS, x, v)
    <3>1. ASSUME NEW v \in Streams PROVE ~Past(r, RS, result, v)
      BY <1>1, <1>9
    <3>2. ASSUME NEW v \in Streams PROVE ~Past(r, RS, copy, v)
      <4>1. ~Past(ordered, RS, copy, v)
        BY <1>5, <1>7 DEF Clean
      <4>2. copy # result
        BY Apart
      <4> QED BY <1>1, <1>9, <4>1, <4>2 DEF Adds
    <3> QED BY <3>1, <3>2
  <2>2. {copy, result} \in SUBSET Buffers
    BY <1>1
  <2> QED BY <1>1, <1>9, <2>1, <2>2, UseFacts DEF Adds
<1> HIDE DEF reduced
<1>11. ResultAlone(reduced, n)
  <2> SUFFICES ASSUME NEW v \in Streams, Past(reduced, RS, result, v) PROVE FALSE
    BY DEF ResultAlone
  <2> QED BY <1>1, <1>9, <1>10 DEF Adds
<1>12. /\ Adds(reduced, recorded, {}, {result}) /\ recorded \in Dev /\ ResultAlone(recorded, n)
  <2>1. Adds(reduced, recorded, {}, {result})
    BY <1>1, <1>10, RecordFacts
  <2>2. \A v : <<Result(n), v>> \in {} => v = ReduceStream
    OBVIOUS
  <2>3. ResultAlone(recorded, n)
    <3> HIDE DEF recorded
    <3> QED BY <1>11, <2>1, <2>2, ResultKeeps
  <2> QED BY <2>1, <2>3 DEF Adds
<1>13. Adds(d, recorded, A, {result})
  <2>1. Adds(d, ordered, A \cup {}, {} \cup {})
    BY <1>5, <1>7, AddsTwice
  <2>2. Adds(d, r, (A \cup {}) \cup {<<result, RS>>}, ({} \cup {}) \cup {})
    <3> HIDE DEF A, RS, result
    <3> QED BY <1>9, <2>1, AddsTwice
  <2>3. Adds(d, reduced, ((A \cup {}) \cup {<<result, RS>>}) \cup ({copy, result} \X {RS}),
             (({} \cup {}) \cup {}) \cup {})
    <3> HIDE DEF A, RS, result, copy
    <3> QED BY <1>10, <2>2, AddsTwice
  <2>4. Adds(d, recorded, (((A \cup {}) \cup {<<result, RS>>}) \cup ({copy, result} \X {RS})) \cup {},
             ((({} \cup {}) \cup {}) \cup {}) \cup {result})
    <3> HIDE DEF A, RS, result, copy
    <3> QED BY <1>12, <2>3, AddsTwice
  <2>5. {<<result, RS>>} \subseteq A /\ {copy, result} \X {RS} \subseteq A
    BY DEF ReductionUses
  <2> HIDE DEF A, RS, result, copy
  <2> QED BY <2>4, <2>5, AddsMore
<1> HIDE DEF recorded
<1> DEFINE m == stored[b]
           added == IF m = None THEN recorded ELSE Use(recorded, RS, {Result(m), result})
<1>14. Adds(recorded, added, A, {}) /\ added \in Dev
  <2>1. CASE m = None
    BY <1>12, <2>1 DEF Adds
  <2>2. CASE m # None
    <3>1. m \in Numbers /\ m \in StoredNumbers
      BY <2>2 DEF SInv, Typed, StoredNumbers
    <3>2. ResultAlone(device, m)
      BY <3>1 DEF SInv, Awaited
    <3>3. ResultAlone(d, m)
      BY <3>2, ResultKeeps
    <3>4. ResultAlone(recorded, m)
      BY <1>13, <3>3, ResultKeeps, ReductionUsesFacts
    <3>5. \A x \in {Result(m), result} : \A v \in Streams : ~Past(recorded, RS, x, v)
      BY <1>12, <3>4 DEF ResultAlone
    <3>6. {Result(m), result} \in SUBSET Buffers
      BY <1>1, <3>1, BufferFacts
    <3>7. Adds(recorded, added, {Result(m), result} \X {RS}, {})
      BY <1>1, <1>12, <2>2, <3>5, <3>6, UseFacts
    <3>8. {Result(m), result} \X {RS} \subseteq A
      BY <3>1 DEF ReductionUses
    <3> HIDE DEF A, RS, result, added
    <3> QED BY <3>7, <3>8, AddsMore DEF Adds
  <2> QED BY <2>1, <2>2
<1>15. e = Record(added, result, RS)
  BY DEF Accumulated, Result
<1> HIDE DEF added
<1>16. /\ Adds(added, e, {}, {result})
       /\ \A x, v : PastEvent(e, result, x, v) => Past(added, RS, x, v)
  BY <1>1, <1>14, <1>15, RecordFacts
<1> HIDE DEF e
<1>17. Adds(d, added, A, {result})
  <2>1. Adds(d, added, A \cup A, {result} \cup {})
    BY <1>13, <1>14, AddsTwice
  <2> QED BY <2>1
<1>18. Adds(d, e, A, {result})
  <2>1. Adds(d, e, A \cup {}, {result} \cup {result})
    BY <1>16, <1>17, AddsTwice
  <2> QED BY <2>1
<1>19. ASSUME NEW x, NEW v, PastEvent(e, result, x, v) PROVE v # RS /\ v # "reduce"
  <2>1. Past(added, RS, x, v)
    BY <1>16, <1>19
  <2>2. Users(added)
    BY <1>2, <1>17, UsersKeep
  <2>3. x \in Buffers /\ v \in Streams
    BY <1>1, <1>14, <2>1, DevFacts
  <2>4. v # RS /\ v \in UsedOn(x)
    BY <1>1, <2>1, <2>2, <2>3 DEF Users
  <2>5. UsedOn(x) \subseteq {"caller", "unshard", "collective", RS}
    BY DEF UsedOn
  <2> HIDE DEF RS
  <2> QED BY <2>4, <2>5
<1>20. ResultAlone(e, n)
  <2>1. ResultAlone(added, n)
    BY <1>12, <1>14, ResultKeeps, ReductionUsesFacts
  <2> QED BY <1>16, <2>1, ResultKeeps
<1> QED BY <1>18, <1>19, <1>20 DEF e, recorded, reduced, r, ordered, copied, a

LEMMA ReduceGradsKeeps ==
  ASSUME SInv, NEW b \in setup.buckets, ReduceGrads(b)
  PROVE  SInv'
<1> DEFINE d == Drained.device
           rest == Drained.reductions
           full == IF b \in unsharded THEN {Full(b)} ELSE {}
           held == Drained.live \ full
           A(n) == ReductionUses(b, n)
<1>1. PICK n \in Numbers :
        LET copied == Use(Allocate(d, held, Copy(n)), "caller", {<<"grad", b>>, Copy(n)})
            ordered == StreamsWait(copied, {ReduceStream}, "caller")
            reduced == Use(Allocate(ordered, held \cup {Copy(n)}, Result(n)), ReduceStream,
                           {Copy(n), Result(n)})
        IN  /\ n \notin Numbered
            /\ device' = Accumulated(Record(reduced, Result(n), ReduceStream), b, n)
            /\ live' = (held \ {<<"grad", b>>}) \cup {Copy(n), Result(n)}
            /\ unsharded' = unsharded \ {b}
            /\ reductions' = Append(rest, n)
            /\ retired' = Drained.retired
            /\ stored' = IF stored[b] = None THEN [stored EXCEPT ![b] = n] ELSE stored
            /\ UNCHANGED <<setup, created, pending>>
  BY Zenon DEF ReduceGrads, Copy, Result
<1>2. /\ b \in Buckets /\ created \subseteq Buckets /\ unsharded \subseteq Buckets
      /\ pending \in [Buckets -> {"none", "shared", "explicit"}]
      /\ stored \in [Buckets -> Numbers \cup {None}]
  BY SetupFacts DEF SInv, Typed
<1>3. /\ Adds(device, d, {}, {}) /\ rest \in Seq(Numbers) /\ Drained.retired \subseteq Numbers
      /\ \A k \in Numbers : CopyAwaited(d, k, ToSet(rest), Drained.live)
      /\ \A y \in Buffers \ Drained.live : Pool(y) = "caller" => Clean(d, y)
      /\ \A c : \A x \in {Full(c), Shard(c), OwnGather(c)} : x \in live => x \in Drained.live
  BY DrainedFacts
<1>4. b \in unsharded => \A x \in {Full(b), Shard(b), SharedGather(b), OwnGather(b)} : Clean(device, x)
  BY <1>2, QuietBucket DEF SInv, InFlight
<1>5. \A y \in Buffers \ held : Pool(y) = "caller" => Clean(d, y)
  <2> SUFFICES ASSUME NEW y \in Buffers \ held, Pool(y) = "caller", y \in Drained.live
               PROVE  Clean(d, y)
    BY <1>3
  <2>1. b \in unsharded /\ y = Full(b)
    OBVIOUS
  <2> QED BY <1>3, <1>4, <2>1, CleanKeeps
<1> HIDE DEF d, rest, held
<1>6. /\ Adds(d, device', A(n), {Result(n)})
      /\ \A x, v : PastEvent(device', Result(n), x, v) => v # ReduceStream /\ v # "reduce"
      /\ ResultAlone(device', n)
  BY <1>1, <1>2, <1>3, <1>5, ReductionQueued, Zenon
<1>7. Adds(device, device', A(n), {Result(n)}) /\ Usual(A(n)) /\ Users(device') /\ Users(d)
  <2>1. Adds(device, device', {} \cup A(n), {} \cup {Result(n)})
    BY <1>3, <1>6, AddsTwice
  <2>2. Usual(A(n)) /\ Usual({})
    BY <1>2, ReductionUsesFacts DEF Usual
  <2>3. Adds(device, device', A(n), {Result(n)})
    BY <2>1
  <2> HIDE DEF A
  <2> QED BY <1>3, <2>2, <2>3, DeviceOK, UsersKeep
<1>8. /\ \A c, v : \A x \in {Full(c), Shard(c), SharedGather(c), OwnGather(c)} : <<x, v>> \notin A(n)
      /\ \A m, v : <<Copy(m), v>> \in A(n) => m = n
      /\ \A m, v : <<Result(m), v>> \in A(n) => v = ReduceStream
  BY <1>2, ReductionUsesFacts
<1> HIDE DEF A
<1>9. /\ \A c : \A x \in {Full(c), Shard(c), OwnGather(c)} : x \in live /\ x # Full(b) => x \in live'
      /\ Shard(b) \in live => Shard(b) \in live'
      /\ \A k \in Numbers : Copy(k) \in Drained.live => Copy(k) \in live'
      /\ b \notin unsharded /\ Full(b) \in live => Full(b) \in live'
  <2>1. /\ \A c : <<"grad", b>> \notin {Full(c), Shard(c), OwnGather(c)}
        /\ \A k : Copy(k) # Full(b) /\ Copy(k) # <<"grad", b>>
        /\ Shard(b) # Full(b)
    BY Apart
  <2> QED BY <1>1, <1>3, <2>1 DEF held
<1>10. ASSUME NEW c \in Buckets
       PROVE  BucketAwaited(device', c, pending'[c], c \in created' \ FillInFinish', live')
  <2>1. FillInFinish' = FillInFinish /\ pending' = pending /\ created' = created
    BY <1>1 DEF FillInFinish
  <2>2. CASE c = b /\ b \in unsharded
    <3>1. \A x \in {Full(b), Shard(b), SharedGather(b), OwnGather(b)} : Clean(device', x)
      BY <1>4, <1>7, <1>8, <2>2, CleanKeeps
    <3> QED BY <2>1, <2>2, <3>1, CleanBucket
  <2>3. CASE ~(c = b /\ b \in unsharded)
    <3>1. BucketAwaited(device, c, pending[c], c \in created \ FillInFinish, live)
      BY DEF SInv, Awaited
    <3>2. \A x \in {Full(c), OwnGather(c)} : x \in live => x \in live'
      <4>1. c # b => Full(c) # Full(b)
        BY Apart
      <4>2. OwnGather(c) # Full(b)
        BY Apart
      <4> QED BY <1>9, <2>3, <4>1, <4>2
    <3>3. Gathered(c) \notin {Result(n)}
      BY Apart
    <3>4. BucketAwaited(device', c, pending[c], c \in created \ FillInFinish, live')
      BY <1>7, <1>8, <3>1, <3>2, <3>3, DeviceOK, BucketKeeps
    <3> QED BY <2>1, <3>4
  <2> QED BY <2>2, <2>3
<1>11. InFlight'
  <2>1. {"shard"} \X setup.buckets \subseteq live'
    <3>1. \A c : Shard(c) # Full(b)
      BY Apart
    <3> QED BY <1>9, <3>1 DEF SInv, InFlight, Shard
  <2> QED BY <1>1, <2>1 DEF SInv, InFlight, Explicit
<1>12. /\ reductions' \in Seq(Numbers) /\ ToSet(reductions') = ToSet(rest) \cup {n}
       /\ reductions' # <<>> /\ reductions'[Len(reductions')] = n
  <2>1. reductions' = Append(rest, n)
    BY <1>1
  <2>2. reductions' \in Seq(Numbers) /\ Len(reductions') = Len(rest) + 1
    BY <1>3, <2>1
  <2>3. \A i \in 1 .. Len(reductions') : reductions'[i] = IF i = Len(rest) + 1 THEN n ELSE rest[i]
    BY <1>3, <2>1
  <2>4. Len(rest) \in Nat /\ DOMAIN rest = 1 .. Len(rest) /\ DOMAIN reductions' = 1 .. Len(reductions')
    BY <1>3, <2>2
  <2>5. ToSet(reductions') = ToSet(rest) \cup {n}
    BY <2>2, <2>3, <2>4 DEF ToSet
  <2> QED BY <1>3, <2>1, <2>2, <2>3, <2>5
<1>13. ASSUME NEW k \in Numbers PROVE CopyAwaited(device', k, ToSet(reductions'), live')
  <2>1. CASE k = n
    <3> SUFFICES ASSUME NEW v \in Streams, Past(device', "caller", Copy(n), v)
                 PROVE  ~PastEvent(device', Result(n), Copy(n), v)
      BY <1>1, <1>12, <2>1 DEF CopyAwaited
    <3>1. v # "caller" /\ v \in UsedOn(Copy(n))
      BY <1>7, BufferFacts DEF Users
    <3>2. v = ReduceStream
      BY <3>1, BufferFacts
    <3> QED BY <1>6, <3>2
  <2>2. CASE k # n
    <3>1. Result(k) \notin {Result(n)}
      BY <2>2, Apart
    <3>2. CopyAwaited(d, k, ToSet(rest), Drained.live)
      BY <1>3
    <3>3. \A v : <<Copy(k), v>> \in A(n) => v = "caller"
      BY <1>8, <2>2
    <3>4. k \in ToSet(rest) => k \in ToSet(reductions')
      BY <1>12
    <3> QED BY <1>6, <1>7, <1>9, <3>1, <3>2, <3>3, <3>4, CopyKeeps
  <2> QED BY <2>1, <2>2
<1>14. ReductionsAwaited(device', reductions')
  BY <1>6, <1>12 DEF ReductionsAwaited
<1>15. ASSUME NEW k \in Numbers, k \in StoredNumbers' PROVE ResultAlone(device', k)
  <2>1. k \in StoredNumbers \/ k = n
    BY <1>1, <1>2, <1>15 DEF StoredNumbers
  <2>2. CASE k \in StoredNumbers
    <3>1. ResultAlone(device, k)
      BY <2>2 DEF SInv, Awaited
    <3> QED BY <1>7, <1>8, <3>1, ResultKeeps
  <2>3. CASE k = n
    BY <1>6, <2>3
  <2> QED BY <2>1, <2>2, <2>3
<1>16. /\ created' \subseteq Buckets /\ unsharded' \subseteq Buckets
       /\ pending' \in [Buckets -> {"none", "shared", "explicit"}] /\ retired' \subseteq Numbers
       /\ stored' \in [Buckets -> Numbers \cup {None}] /\ UNCHANGED setup
  BY <1>1, <1>2, <1>3
<1> QED BY <1>7, <1>10, <1>11, <1>12, <1>13, <1>14, <1>15, <1>16, StepKeeps

----------------------------------------------------------------------------
(* The theorems *)

LEMMA InitSInv == Init => SInv
<1> SUFFICES ASSUME Init PROVE SInv
  OBVIOUS
<1>1. device = [behind |-> [t \in Streams |-> {}], events |-> [e \in Events |-> {}],
                raced |-> {}, stolen |-> {}]
  BY DEF Init
<1>2. device \in Dev
  BY <1>1 DEF Dev
<1>3. /\ \A s \in Streams : \A x, v : ~Past(device, s, x, v)
      /\ device.raced = {} /\ device.stolen = {}
  BY <1>1 DEF Past
<1>4. reductions = <<>> /\ setup \in Setups
  BY DEF Init
<1>5. Typed
  <2>1. reductions \in Seq(Numbers) /\ retired \subseteq Numbers
    BY DEF Init
  <2>2. created \subseteq Buckets /\ unsharded \subseteq Buckets
        /\ pending \in [Buckets -> {"none", "shared", "explicit"}]
        /\ stored \in [Buckets -> Numbers \cup {None}]
    BY DEF Init
  <2> QED BY <1>2, <1>4, <2>1, <2>2 DEF Typed
<1>6. InFlight
  BY DEF Init, InFlight
<1>7. Awaited
  <2>1. "caller" \in Streams /\ ReduceStream \in Streams
    BY BufferFacts
  <2> QED BY <1>3, <1>4, <2>1 DEF Awaited, BucketAwaited, CopyAwaited, ReductionsAwaited, ResultAlone
<1> QED BY <1>3, <1>5, <1>6, <1>7 DEF SInv, Users, NoRace, NoEarlyReuse

LEMMA NextSInv == SInv /\ [Next]_vars => SInv'
<1> SUFFICES ASSUME SInv, [Next]_vars PROVE SInv'
  OBVIOUS
<1>1. CASE OptimizerStep
  BY <1>1, OptimizerStepKeeps
<1>2. CASE WaitAndClear
  BY <1>2, WaitAndClearKeeps
<1>3. ASSUME NEW b \in setup.buckets,
             \/ BeginUnshard(b) \/ BeginExplicitUnshard(b) \/ FinishUnshard(b)
             \/ ReleasePrefetch(b) \/ Reshard(b) \/ Run(b) \/ ReduceGrads(b)
      PROVE  SInv'
  BY <1>3, BeginUnshardKeeps, BeginExplicitUnshardKeeps, FinishUnshardKeeps, ReleasePrefetchKeeps,
     ReshardKeeps, RunKeeps, ReduceGradsKeeps
<1>4. CASE UNCHANGED vars
  <2>1. UNCHANGED <<setup, device, live, created, unsharded, pending, reductions, retired, stored>>
    BY <1>4 DEF vars
  <2>2. Adds(device, device', {}, {}) /\ Usual({})
    BY <2>1, DeviceOK DEF Adds, Usual
  <2>3. UNCHANGED <<FillInFinish, StoredNumbers, InFlight>>
    BY <2>1 DEF FillInFinish, StoredNumbers, InFlight, Explicit
  <2> QED BY <2>1, <2>2, <2>3, StepKeeps DEF SInv, Typed, Awaited
<1> QED BY <1>1, <1>2, <1>3, <1>4 DEF Next

\* Every reachable state keeps the invariant: the caller's stream may overtake
\* only what an event still to be waited for says the end of.
THEOREM StreamInvariance == Spec => []SInv
<1> QED BY InitSInv, NextSInv, PTL DEF Spec

\* No stream ever uses a buffer while another may still be using it: the events
\* and waits of bucket_comm.py order every two uses, however the buckets were
\* sharded and however unshards and reductions overlap.
THEOREM StreamsNeverRace == Spec => []NoRace
<1>1. SInv => NoRace
  BY DEF SInv
<1> QED BY <1>1, StreamInvariance, PTL

\* No buffer's memory is ever given away before the work queued on it is done:
\* StreamHandoff and release_buffers() keep or hand back every buffer in time.
THEOREM MemoryNeverReusedEarly == Spec => []NoEarlyReuse
<1>1. SInv => NoEarlyReuse
  BY DEF SInv
<1> QED BY <1>1, StreamInvariance, PTL

=============================================================================
