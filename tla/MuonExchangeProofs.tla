-------------------------- MODULE MuonExchangeProofs --------------------------
(***************************************************************************)
(* What holds of MuonExchange for any mesh, bucket, layouts and owners:    *)
(* ranks whose plans differ all raise, and ranks that start expect of each *)
(* other what they are sent.                                               *)
(***************************************************************************)
EXTENDS MuonExchange, SequenceTheorems, FiniteSetTheorems, WellFoundedInduction, TLAPS

----------------------------------------------------------------------------
(* Naturals. *)

\* A non-empty set of naturals has a least element.  (The sets 0 .. u are finite,
\* and strict inclusion is well-founded on finite sets.)
LEMMA LeastNatural ==
  ASSUME NEW U \in SUBSET Nat, U # {}
  PROVE  \E u \in U : \A v \in U : u <= v
<1> DEFINE R == StrictSubsetOrdering(Nat)
           T == {0 .. u : u \in U}
<1>1. T \subseteq FiniteSubsetsOf(Nat) /\ T # {}
  <2>1. \A u \in U : 0 .. u \subseteq Nat /\ IsFiniteSet(0 .. u)
    BY FS_Interval
  <2> QED
    BY <2>1 DEF FiniteSubsetsOf
<1>2. IsWellFoundedOn(R, FiniteSubsetsOf(Nat))
  BY FS_StrictSubsetOrderingWellFounded
<1>3. PICK x \in T : \A y \in T : <<y, x>> \notin R
  <2> HIDE DEF R, T
  <2> QED
    BY <1>1, <1>2, WFMin
<1>4. PICK u \in U : x = 0 .. u
  OBVIOUS
<1>5. ASSUME NEW v \in U, v < u PROVE FALSE
  <2>1. 0 .. v \in SUBSET Nat /\ 0 .. u \in SUBSET Nat
    OBVIOUS
  <2>2. 0 .. v \subseteq 0 .. u /\ u \in 0 .. u /\ u \notin 0 .. v
    BY <1>5
  <2>3. <<0 .. v, 0 .. u>> \in R
    BY <2>1, <2>2 DEF StrictSubsetOrdering
  <2> QED
    BY <1>3, <1>4, <2>3
<1> QED
  BY <1>5

\* Induction, with the numbers that have the property as a set.
LEMMA NaturalInduction ==
  ASSUME NEW Q, 0 \in Q, \A n \in Nat : n \in Q => n + 1 \in Q
  PROVE  \A n \in Nat : n \in Q
<1> DEFINE Bad == {n \in Nat : n \notin Q}
<1>1. ASSUME Bad # {} PROVE FALSE
  <2>1. PICK u \in Bad : \A v \in Bad : u <= v
    BY <1>1, LeastNatural
  <2>2. u - 1 \in Nat /\ u - 1 \in Q
    BY <2>1
  <2> QED
    BY <2>1, <2>2
<1> QED
  BY <1>1

----------------------------------------------------------------------------
(* Sequences. *)

\* What the recursion of FlattenSeq computes of the first n of ss.
Flattens(g, ss, n) == g = [i \in 1 .. n |-> IF i = 1 THEN ss[i] ELSE g[i - 1] \o ss[i]]

LEMMA FlattensAt ==
  ASSUME NEW ss, NEW n \in Nat, NEW g, Flattens(g, ss, n), NEW i \in 1 .. n
  PROVE  g[i] = IF i = 1 THEN ss[i] ELSE g[i - 1] \o ss[i]
BY DEF Flattens

LEMMA FlattensExists ==
  ASSUME NEW S, NEW ss \in Seq(Seq(S))
  PROVE  \A n \in Nat : n <= Len(ss) => \E g \in [1 .. n -> Seq(S)] : Flattens(g, ss, n)
<1> DEFINE Q == {n \in Nat : n <= Len(ss) => \E g \in [1 .. n -> Seq(S)] : Flattens(g, ss, n)}
<1>1. 0 \in Q
  <2> DEFINE g == [i \in 1 .. 0 |-> <<>>]
  <2>1. g \in [1 .. 0 -> Seq(S)] /\ Flattens(g, ss, 0)
    BY DEF Flattens
  <2> QED
    BY <2>1
<1>2. ASSUME NEW n \in Nat, n \in Q PROVE n + 1 \in Q
  <2> SUFFICES ASSUME n + 1 <= Len(ss)
               PROVE  \E g \in [1 .. n + 1 -> Seq(S)] : Flattens(g, ss, n + 1)
    OBVIOUS
  <2>1. PICK g \in [1 .. n -> Seq(S)] : Flattens(g, ss, n)
    BY <1>2
  <2>2. \A i \in 1 .. n : g[i] = IF i = 1 THEN ss[i] ELSE g[i - 1] \o ss[i]
    BY <2>1 DEF Flattens
  <2> DEFINE last == IF n = 0 THEN ss[1] ELSE g[n] \o ss[n + 1]
             h == [i \in 1 .. n + 1 |-> IF i = n + 1 THEN last ELSE g[i]]
  <2>3. last \in Seq(S)
    BY <2>1
  <2>4. h \in [1 .. n + 1 -> Seq(S)]
    BY <2>1, <2>3
  <2>5. ASSUME NEW i \in 1 .. n + 1
        PROVE  h[i] = IF i = 1 THEN ss[i] ELSE h[i - 1] \o ss[i]
    <3>0. \A k \in 1 .. n + 1 : h[k] = IF k = n + 1 THEN last ELSE g[k]
      OBVIOUS
    <3>1. CASE i = n + 1
      <4>1. n # 0 => n \in 1 .. n + 1 /\ n # n + 1
        OBVIOUS
      <4>2. n # 0 => h[n] = g[n]
        BY <3>0, <4>1
      <4>3. h[n + 1] = last
        BY <3>0
      <4> QED
        BY <3>1, <4>2, <4>3
    <3>2. CASE i # n + 1
      <4>1. i \in 1 .. n /\ (i # 1 => i - 1 \in 1 .. n)
        BY <3>2
      <4>2. g[i] = IF i = 1 THEN ss[i] ELSE g[i - 1] \o ss[i]
        BY <4>1, <2>2
      <4>3. h[i] = g[i] /\ (i # 1 => h[i - 1] = g[i - 1])
        <5> HIDE DEF h
        <5> QED
          BY <3>0, <4>1
      <4> QED
        BY <4>2, <4>3
    <3> QED
      BY <3>1, <3>2
  <2>6. Flattens(h, ss, n + 1)
    BY <2>5 DEF Flattens
  <2> QED
    BY <2>4, <2>6
<1>3. \A n \in Nat : n \in Q
  <2> HIDE DEF Q
  <2> QED
    BY <1>1, <1>2, NaturalInduction
<1> QED
  BY <1>3

LEMMA FlattensUnique ==
  ASSUME NEW ss, NEW n \in Nat, NEW g, NEW h, Flattens(g, ss, n), Flattens(h, ss, n)
  PROVE  \A i \in 1 .. n : g[i] = h[i]
<1> DEFINE Q == {i \in Nat : i \in 1 .. n => g[i] = h[i]}
<1>1. 0 \in Q
  OBVIOUS
<1>2. ASSUME NEW i \in Nat, i \in Q PROVE i + 1 \in Q
  <2> SUFFICES ASSUME i + 1 \in 1 .. n PROVE g[i + 1] = h[i + 1]
    OBVIOUS
  <2>1. /\ g[i + 1] = IF i + 1 = 1 THEN ss[i + 1] ELSE g[i + 1 - 1] \o ss[i + 1]
        /\ h[i + 1] = IF i + 1 = 1 THEN ss[i + 1] ELSE h[i + 1 - 1] \o ss[i + 1]
    BY FlattensAt
  <2>2. i + 1 - 1 = i /\ (i + 1 # 1 => i \in 1 .. n)
    OBVIOUS
  <2> QED
    BY <1>2, <2>1, <2>2
<1>3. \A i \in Nat : i \in Q
  <2> HIDE DEF Q
  <2> QED
    BY <1>1, <1>2, NaturalInduction
<1> QED
  BY <1>3

\* Sequences of elements of S, put together, are one.
LEMMA FlattenTyped ==
  ASSUME NEW S, NEW ss \in Seq(Seq(S))
  PROVE  FlattenSeq(ss) \in Seq(S)
<1>1. CASE Len(ss) = 0
  <2>1. ss = <<>> /\ <<>> \in Seq(S)
    BY <1>1, EmptySeq
  <2>2. FlattenSeq(ss) = ss
    BY <1>1 DEF FlattenSeq
  <2> QED
    BY <2>1, <2>2
<1>2. CASE Len(ss) # 0
  <2> DEFINE f == CHOOSE g : Flattens(g, ss, Len(ss))
  <2>1. FlattenSeq(ss) = f[Len(ss)]
    BY <1>2 DEF FlattenSeq, Flattens
  <2>2. PICK g \in [1 .. Len(ss) -> Seq(S)] : Flattens(g, ss, Len(ss))
    BY FlattensExists
  <2>3. Flattens(f, ss, Len(ss))
    BY <2>2
  <2>4. Len(ss) \in Nat /\ Len(ss) \in 1 .. Len(ss)
    BY <1>2
  <2> HIDE DEF f
  <2>5. f[Len(ss)] = g[Len(ss)]
    BY <2>2, <2>3, <2>4, FlattensUnique
  <2> QED
    BY <2>1, <2>2, <2>4, <2>5
<1> QED
  BY <1>1, <1>2

\* A sequence without some of its elements.
LEMMA KeptTyped ==
  ASSUME NEW S, NEW s \in Seq(S), NEW t, DOMAIN t = DOMAIN s,
         t = [i \in DOMAIN s |-> t[i]], \A i \in DOMAIN s : t[i] \in {<<s[i]>>, <<>>}
  PROVE  FlattenSeq(t) \in Seq(S)
<1>1. ASSUME NEW i \in 1 .. Len(s) PROVE t[i] \in Seq(S)
  <2>1. s[i] \in S /\ i \in DOMAIN s
    OBVIOUS
  <2>2. <<s[i]>> \in Seq(S) /\ <<>> \in Seq(S)
    BY <2>1, EmptySeq
  <2>3. t[i] = <<s[i]>> \/ t[i] = <<>>
    BY <2>1
  <2> QED
    BY <2>2, <2>3
<1>2. t \in Seq(Seq(S))
  <2>1. t = [i \in 1 .. Len(s) |-> t[i]]
    OBVIOUS
  <2> QED
    BY <1>1, <2>1
<1> QED
  BY <1>2, FlattenTyped


----------------------------------------------------------------------------
(* Schedules. *)

SameSize(t) == Numel(t.from) = Numel(t.to)

\* The routes of a checked plan, as far as schedules depend on it.
Routable(routes) ==
  /\ routes \in Seq(ToSet(routes))
  /\ \A i \in DOMAIN routes :
       /\ routes[i].sources \in Seq(ToSet(routes[i].sources))
       /\ routes[i].destinations \in Seq(ToSet(routes[i].destinations))
       /\ SameSize(routes[i])

\* Both ends of a transfer have as many elements as its route.
LEMMA TransfersTyped ==
  ASSUME NEW routes, Routable(routes), NEW participants
  PROVE  \E T : Transfers(routes, participants) \in Seq(T) /\ \A t \in T : SameSize(t)
<1> DEFINE One(i, j) == [source      |-> SourceOf(routes[i], routes[i].destinations[j], participants),
                         destination |-> routes[i].destinations[j],
                         from        |-> routes[i].from,
                         to          |-> routes[i].to]
           T == UNION {{One(i, j) : j \in DOMAIN routes[i].destinations} : i \in DOMAIN routes}
           Of(i) == [j \in DOMAIN routes[i].destinations |-> One(i, j)]
           ss == [i \in DOMAIN routes |-> Of(i)]
<1>1. Transfers(routes, participants) = FlattenSeq(ss)
  BY DEF Transfers
<1>2. ASSUME NEW t \in T PROVE SameSize(t)
  <2>1. PICK i \in DOMAIN routes : \E j \in DOMAIN routes[i].destinations : t = One(i, j)
    OBVIOUS
  <2>2. t.from = routes[i].from /\ t.to = routes[i].to
    BY <2>1
  <2> QED
    BY <2>2 DEF Routable, SameSize
<1>3. ASSUME NEW i \in DOMAIN routes PROVE Of(i) \in Seq(T)
  <2> DEFINE m == Len(routes[i].destinations)
  <2>1. m \in Nat /\ DOMAIN routes[i].destinations = 1 .. m
    BY DEF Routable
  <2>2. \A j \in 1 .. m : One(i, j) \in T
    BY <2>1
  <2>3. Of(i) = [j \in 1 .. m |-> One(i, j)]
    BY <2>1
  <2> HIDE DEF m, T, One
  <2> QED
    BY <2>1, <2>2, <2>3
<1>4. Len(routes) \in Nat /\ DOMAIN routes = 1 .. Len(routes)
  BY DEF Routable
<1>5. ss = [i \in 1 .. Len(routes) |-> Of(i)]
  BY <1>4
<1>6. ss \in Seq(Seq(T))
  <2> HIDE DEF T, Of, ss
  <2> QED
    BY <1>3, <1>4, <1>5
<1>7. FlattenSeq(ss) \in Seq(T)
  <2> HIDE DEF T, ss
  <2> QED
    BY <1>6, FlattenTyped
<1> QED
  BY <1>1, <1>2, <1>7

\* So have both ends of what one rank sends another.
LEMMA BetweenTyped ==
  ASSUME NEW transfers, NEW n \in Nat, DOMAIN transfers = 1 .. n, NEW T,
         \A i \in 1 .. n : transfers[i] \in Seq(T), \A t \in T : SameSize(t), NEW a, NEW b
  PROVE  \A k \in DOMAIN Between(transfers, a, b) : SameSize(Between(transfers, a, b)[k])
<1> DEFINE Piece(i, t) == [param |-> i, from |-> t.from, to |-> t.to]
           P == UNION {{Piece(i, t) : t \in T} : i \in 1 .. n}
           Picked(i) == Filter(transfers[i], LAMBDA t : t.source = a /\ t.destination = b)
           Of(i) == [k \in DOMAIN Picked(i) |-> Piece(i, Picked(i)[k])]
           ss == [i \in DOMAIN transfers |-> Of(i)]
<1>1. Between(transfers, a, b) = FlattenSeq(ss)
  BY DEF Between
<1>2. ASSUME NEW i \in 1 .. n PROVE Picked(i) \in Seq(T)
  <2> DEFINE s == transfers[i]
             t == [k \in DOMAIN s |-> IF s[k].source = a /\ s[k].destination = b THEN <<s[k]>> ELSE <<>>]
  <2>1. Picked(i) = FlattenSeq(t)
    BY DEF Filter
  <2>2. DOMAIN t = DOMAIN s /\ t = [k \in DOMAIN s |-> t[k]]
    OBVIOUS
  <2>3. \A k \in DOMAIN s : t[k] \in {<<s[k]>>, <<>>}
    OBVIOUS
  <2> HIDE DEF t
  <2>4. FlattenSeq(t) \in Seq(T)
    BY <2>2, <2>3, KeptTyped
  <2> QED
    BY <2>1, <2>4
<1>3. ASSUME NEW i \in 1 .. n PROVE Of(i) \in Seq(P)
  <2> DEFINE m == Len(Picked(i))
  <2> HIDE DEF Picked
  <2>1. m \in Nat /\ DOMAIN Picked(i) = 1 .. m /\ \A k \in 1 .. m : Picked(i)[k] \in T
    BY <1>2
  <2>2. \A k \in 1 .. m : Piece(i, Picked(i)[k]) \in P
    <3>1. ASSUME NEW t \in T PROVE Piece(i, t) \in P
      <4>1. Piece(i, t) \in {Piece(i, u) : u \in T}
        OBVIOUS
      <4> HIDE DEF Piece
      <4> QED
        BY <4>1
    <3> HIDE DEF m, P, Piece
    <3> QED
      BY <2>1, <3>1
  <2>3. Of(i) = [k \in 1 .. m |-> Piece(i, Picked(i)[k])]
    BY <2>1
  <2> HIDE DEF m, P, Piece
  <2> QED
    BY <2>1, <2>2, <2>3
<1>4. ss \in Seq(Seq(P))
  <2>1. ss = [i \in 1 .. n |-> Of(i)]
    OBVIOUS
  <2> HIDE DEF ss, P, Of
  <2> QED
    BY <1>3, <2>1
<1>5. FlattenSeq(ss) \in Seq(P)
  <2> HIDE DEF P, ss
  <2> QED
    BY <1>4, FlattenTyped
<1>6. ASSUME NEW x \in P PROVE SameSize(x)
  <2>1. PICK i \in 1 .. n, t \in T : x = Piece(i, t)
    OBVIOUS
  <2>2. x.from = t.from /\ x.to = t.to
    BY <2>1
  <2> QED
    BY <2>2 DEF SameSize
<1> HIDE DEF P, ss
<1> QED
  BY <1>1, <1>5, <1>6

\* Two plans of parameters for the same group: what one rank expects to send
\* another, in either direction, is what the other expects of it.
LEMMA SchedulesMeet ==
  ASSUME NEW plans, NEW n \in Nat \ {0}, DOMAIN plans = 1 .. n,
         \A i \in 1 .. n : Routable(plans[i].routes),
         NEW direction, NEW r \in ToSet(plans[1].participants), NEW s \in ToSet(plans[1].participants)
  PROVE  PackedSchedule(plans, direction, r).inputSplits[PositionIn(plans[1].participants, s)]
           = PackedSchedule(plans, direction, s).outputSplits[PositionIn(plans[1].participants, r)]
<1> DEFINE ps == plans[1].participants
           transfers == [i \in DOMAIN plans |-> Transfers(RoutesIn(direction, plans[i]), ps)]
           at(x) == PositionIn(ps, x)
           B == Between(transfers, r, s)
<1>1. ASSUME NEW x \in ToSet(ps) PROVE at(x) \in DOMAIN ps /\ ps[at(x)] = x
  BY DEF PositionIn, ToSet
<1>2. ASSUME NEW i \in 1 .. n PROVE Routable(RoutesIn(direction, plans[i]))
  <2> DEFINE routes == plans[i].routes
             back == [k \in DOMAIN routes |-> InverseRoute(routes[k])]
  <2>1. CASE direction = "storage_to_compute"
    BY <2>1 DEF RoutesIn
  <2>2. CASE direction # "storage_to_compute"
    <3>1. RoutesIn(direction, plans[i]) = back
      BY <2>2 DEF RoutesIn
    <3>2. Routable(routes)
      OBVIOUS
    <3>3. Len(routes) \in Nat /\ DOMAIN routes = 1 .. Len(routes)
      BY <3>2 DEF Routable
    <3>4. DOMAIN back = 1 .. Len(routes) /\ \A k \in 1 .. Len(routes) : back[k] = InverseRoute(routes[k])
      BY <3>3
    <3>5. back \in Seq(ToSet(back))
      <4>1. \A k \in 1 .. Len(routes) : back[k] \in ToSet(back)
        BY <3>4 DEF ToSet
      <4>2. back = [k \in 1 .. Len(routes) |-> back[k]]
        BY <3>3
      <4> HIDE DEF back
      <4> QED
        BY <3>3, <4>1, <4>2
    <3>6. ASSUME NEW k \in DOMAIN back
          PROVE  /\ back[k].sources = routes[k].destinations /\ back[k].destinations = routes[k].sources
                 /\ back[k].from = routes[k].to /\ back[k].to = routes[k].from
      BY <3>3, <3>4 DEF InverseRoute, Route
    <3> HIDE DEF back
    <3> QED
      BY <3>1, <3>2, <3>3, <3>4, <3>5, <3>6 DEF Routable, SameSize
  <2> QED
    BY <2>1, <2>2
<1>3. \A k \in DOMAIN B : SameSize(B[k])
  <2> DEFINE Good(i, T) == transfers[i] \in Seq(T) /\ \A t \in T : SameSize(t)
             T == UNION {CHOOSE U : Good(i, U) : i \in 1 .. n}
  <2>1. ASSUME NEW i \in 1 .. n PROVE \E U : Good(i, U)
    BY <1>2, TransfersTyped
  <2>2. ASSUME NEW i \in 1 .. n PROVE Good(i, CHOOSE U : Good(i, U))
    <3> HIDE DEF Good
    <3> QED
      BY <2>1
  <2>3. ASSUME NEW i \in 1 .. n PROVE transfers[i] \in Seq(T)
    <3>1. (CHOOSE U : Good(i, U)) \subseteq T
      OBVIOUS
    <3>2. transfers[i] \in Seq(CHOOSE U : Good(i, U))
      BY <2>2
    <3> HIDE DEF T, Good, transfers
    <3> QED
      BY <3>1, <3>2, SeqMonotonic
  <2>4. ASSUME NEW t \in T PROVE SameSize(t)
    BY <2>2
  <2>5. DOMAIN transfers = 1 .. n
    OBVIOUS
  <2> HIDE DEF transfers, T
  <2> QED
    BY <2>3, <2>4, <2>5, BetweenTyped
<1> DEFINE sent == [k \in DOMAIN B |-> Numel(B[k].from)]
           received == [k \in DOMAIN B |-> Numel(B[k].to)]
<1>4. sent = received
  BY <1>3 DEF SameSize
<1>5. PackedSchedule(plans, direction, r).inputSplits[at(s)] = SumSeq(sent)
  BY <1>1 DEF PackedSchedule
<1>6. PackedSchedule(plans, direction, s).outputSplits[at(r)] = SumSeq(received)
  BY <1>1 DEF PackedSchedule
<1> QED
  BY <1>4, <1>5, <1>6


----------------------------------------------------------------------------
(* Plans. *)

LEMMA OwnElements ==
  ASSUME NEW S, NEW s \in Seq(S)
  PROVE  s \in Seq(ToSet(s)) /\ Len(s) \in Nat /\ DOMAIN s = 1 .. Len(s) /\ ToSet(s) \subseteq S
<1>1. Len(s) \in Nat /\ DOMAIN s = 1 .. Len(s) /\ \A i \in 1 .. Len(s) : s[i] \in ToSet(s) /\ s[i] \in S
  BY DEF ToSet
<1>2. s = [i \in 1 .. Len(s) |-> s[i]]
  OBVIOUS
<1> QED
  BY <1>1, <1>2 DEF ToSet

LEMMA FiniteElements ==
  ASSUME NEW S, NEW s \in Seq(S)
  PROVE  IsFiniteSet(ToSet(s)) /\ Cardinality(ToSet(s)) \in Nat
<1>1. IsFiniteSet(1 .. Len(s)) /\ DOMAIN s = 1 .. Len(s)
  BY FS_Interval
<1>2. s \in Surjection(1 .. Len(s), ToSet(s))
  BY <1>1, OwnElements DEF Surjection, ToSet
<1>3. IsFiniteSet(ToSet(s))
  BY <1>1, <1>2, FS_Surjection
<1> QED
  BY <1>3, FS_CardinalityType

\* A finite set of ranks has one with any number of smaller ones.
LEMMA RankOfNumber ==
  ASSUME NEW S \in SUBSET Nat, IsFiniteSet(S)
  PROVE  \A i \in Nat : i < Cardinality(S) => \E r \in S : Cardinality({q \in S : q < r}) = i
<1> DEFINE Below(r) == {q \in S : q < r}
           Q == {i \in Nat : i < Cardinality(S) => \E r \in S : Cardinality(Below(r)) = i}
<1>0. Cardinality(S) \in Nat /\ \A T \in SUBSET S : IsFiniteSet(T)
  BY FS_CardinalityType, FS_Subset
<1>1. 0 \in Q
  <2> SUFFICES ASSUME 0 < Cardinality(S) PROVE \E r \in S : Cardinality(Below(r)) = 0
    OBVIOUS
  <2>1. S # {}
    BY FS_EmptySet
  <2>2. PICK r \in S : \A q \in S : r <= q
    BY <2>1, LeastNatural
  <2>3. Below(r) = {}
    <3>1. ASSUME NEW q \in S PROVE ~(q < r)
      <4>1. r <= q /\ q \in Nat /\ r \in Nat
        BY <2>2
      <4> QED
        BY <4>1
    <3> QED
      BY <3>1
  <2> QED
    BY <2>3, FS_EmptySet
<1>2. ASSUME NEW i \in Nat, i \in Q PROVE i + 1 \in Q
  <2> SUFFICES ASSUME i + 1 < Cardinality(S) PROVE \E r \in S : Cardinality(Below(r)) = i + 1
    OBVIOUS
  <2>1. PICK r \in S : Cardinality(Below(r)) = i
    BY <1>0, <1>2
  <2> DEFINE upTo == Below(r) \cup {r}
             above == {q \in S : q > r}
  <2>2. IsFiniteSet(Below(r)) /\ r \notin Below(r)
    BY <1>0
  <2>3. Cardinality(upTo) = i + 1
    BY <2>1, <2>2, FS_AddElement
  <2>4. above # {}
    <3> SUFFICES ASSUME above = {} PROVE FALSE
      OBVIOUS
    <3>1. ASSUME NEW q \in S PROVE q \in upTo
      <4>1. ~(q > r) /\ q \in Nat /\ r \in Nat
        OBVIOUS
      <4>2. q < r \/ q = r
        BY <4>1
      <4> QED
        BY <4>2
    <3>2. S = upTo
      BY <3>1
    <3> QED
      BY <1>0, <2>3, <3>2
  <2>5. PICK u \in above : \A q \in above : u <= q
    BY <2>4, LeastNatural
  <2>6. ASSUME NEW q \in S PROVE q < u <=> q \in upTo
    <3>1. u \in Nat /\ r \in Nat /\ q \in Nat /\ r < u
      BY <2>5
    <3>2. q > r => u <= q
      BY <2>5
    <3>3. q \in upTo <=> q < r \/ q = r
      OBVIOUS
    <3> HIDE DEF upTo
    <3> QED
      BY <3>1, <3>2, <3>3
  <2>7. Below(u) = upTo
    BY <2>6
  <2> QED
    BY <2>3, <2>5, <2>7
<1>3. \A i \in Nat : i \in Q
  <2> HIDE DEF Q
  <2> QED
    BY <1>1, <1>2, NaturalInduction
<1> QED
  BY <1>3

LEMMA ByNumberTyped ==
  ASSUME NEW S \in SUBSET Nat, IsFiniteSet(S)
  PROVE  ByNumber(S) \in Seq(S)
<1> DEFINE n == Cardinality(S)
           At(i) == CHOOSE r \in S : Cardinality({q \in S : q < r}) = i - 1
<1>1. n \in Nat
  BY FS_CardinalityType
<1>2. ASSUME NEW i \in 1 .. n PROVE At(i) \in S
  <2>1. i - 1 \in Nat /\ i - 1 < n
    BY <1>1
  <2> QED
    BY <2>1, RankOfNumber
<1>3. ByNumber(S) = [i \in 1 .. n |-> At(i)]
  BY DEF ByNumber
<1> HIDE DEF n, At
<1> QED
  BY <1>1, <1>2, <1>3

\* The ranks of a group are those of its mesh axis.
LEMMA GroupTyped ==
  ASSUME NEW mesh, mesh.ranks \in Seq(Nat), NEW axis, NEW rank, NEW group,
         group = RedistributionGroup(mesh, axis, rank)
  PROVE  /\ group.meshOrder \in Seq(Nat)
         /\ group.participants \in Seq(ToSet(group.meshOrder))
         /\ ToSet(group.participants) \subseteq ToSet(group.meshOrder)
<1> DEFINE OfAxis(r) == \A a \in DOMAIN mesh.sizes \ {axis} :
                          MeshCoordinate(mesh, r)[a] = MeshCoordinate(mesh, rank)[a]
           s == mesh.ranks
           t == [i \in DOMAIN s |-> IF OfAxis(s[i]) THEN <<s[i]>> ELSE <<>>]
<1>1. AxisRanks(mesh, axis, rank) = FlattenSeq(t)
  BY DEF AxisRanks, Filter
<1>2. DOMAIN t = DOMAIN s /\ t = [i \in DOMAIN s |-> t[i]] /\ \A i \in DOMAIN s : t[i] \in {<<s[i]>>, <<>>}
  OBVIOUS
<1>3. FlattenSeq(t) \in Seq(Nat)
  <2> HIDE DEF t
  <2> QED
    BY <1>2, KeptTyped
<1>4. group.meshOrder \in Seq(Nat) /\ group.participants = ByNumber(ToSet(group.meshOrder))
  BY <1>1, <1>3 DEF RedistributionGroup
<1>5. ToSet(group.meshOrder) \in SUBSET Nat /\ IsFiniteSet(ToSet(group.meshOrder))
  BY <1>4, OwnElements, FiniteElements
<1>6. group.participants \in Seq(ToSet(group.meshOrder))
  BY <1>4, <1>5, ByNumberTyped
<1> QED
  BY <1>4, <1>6, OwnElements

\* What a group stores: regions one after the other, with the ranks that hold them.
LEMMA DomainTyped ==
  ASSUME NEW S, NEW participants \in Seq(S), NEW p, NEW axis
  PROVE  LET regions == StorageDomain(p, axis, participants).regions
         IN  /\ Len(regions) \in Nat /\ DOMAIN regions = 1 .. Len(regions)
             /\ \A i \in DOMAIN regions : regions[i].holders \in Seq(S)
<1> DEFINE preserved == UNION {{p.placements[a].dim} : a \in PreservedAxes(p, axis)}
           mine      == StorageRegion(p, participants[1])
           origin    == [d \in DOMAIN p.shape |-> IF d \in preserved THEN mine.offsets[d] ELSE 0]
           region    == [q \in ToSet(participants) |-> Relative(StorageRegion(p, q), origin)]
           IsFirst(q) == \A i \in 1 .. PositionIn(participants, q) - 1 : region[participants[i]] # region[q]
           firsts    == Filter(participants, IsFirst)
           Holders(i) == Filter(participants, LAMBDA q : region[q] = region[firsts[i]])
           regions   == StorageDomain(p, axis, participants).regions
<1>1. regions = [i \in DOMAIN firsts |-> [holders |-> Holders(i), region |-> region[firsts[i]]]]
  BY DEF StorageDomain
<1>2. firsts \in Seq(S)
  <2> HIDE DEF region
  <2> DEFINE t == [k \in DOMAIN participants |-> IF IsFirst(participants[k]) THEN <<participants[k]>> ELSE <<>>]
  <2>1. firsts = FlattenSeq(t)
    BY DEF Filter
  <2>2. DOMAIN t = DOMAIN participants /\ t = [k \in DOMAIN participants |-> t[k]]
        /\ \A k \in DOMAIN participants : t[k] \in {<<participants[k]>>, <<>>}
    OBVIOUS
  <2> HIDE DEF t, firsts
  <2> QED
    BY <2>1, <2>2, KeptTyped
<1>3. ASSUME NEW i \in DOMAIN firsts PROVE Holders(i) \in Seq(S)
  <2> HIDE DEF region, firsts
  <2> DEFINE t == [k \in DOMAIN participants |->
                     IF region[participants[k]] = region[firsts[i]] THEN <<participants[k]>> ELSE <<>>]
  <2>1. Holders(i) = FlattenSeq(t)
    BY DEF Filter
  <2>2. DOMAIN t = DOMAIN participants /\ t = [k \in DOMAIN participants |-> t[k]]
        /\ \A k \in DOMAIN participants : t[k] \in {<<participants[k]>>, <<>>}
    OBVIOUS
  <2> HIDE DEF t
  <2> QED
    BY <2>1, <2>2, KeptTyped
<1> HIDE DEF region, firsts, Holders, regions
<1>4. Len(firsts) \in Nat /\ DOMAIN firsts = 1 .. Len(firsts)
  BY <1>2
<1>5. DOMAIN regions = 1 .. Len(firsts) /\ \A i \in DOMAIN regions : regions[i].holders = Holders(i)
  BY <1>1, <1>4
<1>6. Len(regions) = Len(firsts)
  BY <1>4, <1>5, <1>1
<1> QED
  BY <1>3, <1>4, <1>5, <1>6 DEF regions


\* What the recursion of SumSeq computes.
Sums(g, s) == g = [i \in 0 .. Len(s) |-> IF i = 0 THEN 0 ELSE g[i - 1] + s[i]]

LEMMA SumsExists ==
  ASSUME NEW s \in Seq(Nat \ {0})
  PROVE  \E g : Sums(g, s)
<1> DEFINE Upto(g, n) == \A i \in 0 .. n : g[i] = IF i = 0 THEN 0 ELSE g[i - 1] + s[i]
           Q == {n \in Nat : n <= Len(s) => \E g \in [0 .. n -> Nat] : Upto(g, n)}
<1>1. 0 \in Q
  <2> DEFINE g == [i \in 0 .. 0 |-> 0]
  <2>1. g \in [0 .. 0 -> Nat] /\ Upto(g, 0)
    OBVIOUS
  <2> QED
    BY <2>1
<1>2. ASSUME NEW n \in Nat, n \in Q PROVE n + 1 \in Q
  <2> SUFFICES ASSUME n + 1 <= Len(s) PROVE \E g \in [0 .. n + 1 -> Nat] : Upto(g, n + 1)
    <3> HIDE DEF Upto
    <3> QED
      OBVIOUS
  <2>0. n <= Len(s)
    OBVIOUS
  <2>1. PICK g \in [0 .. n -> Nat] : Upto(g, n)
    <3> HIDE DEF Upto
    <3> QED
      BY <1>2, <2>0
  <2> DEFINE last == g[n] + s[n + 1]
             h == [i \in 0 .. n + 1 |-> IF i = n + 1 THEN last ELSE g[i]]
  <2>2. last \in Nat
    BY <2>1
  <2>3. h \in [0 .. n + 1 -> Nat]
    BY <2>1, <2>2
  <2>4. h[n + 1] = last /\ \A i \in 0 .. n : h[i] = g[i]
    OBVIOUS
  <2>5. ASSUME NEW i \in 0 .. n + 1 PROVE h[i] = IF i = 0 THEN 0 ELSE h[i - 1] + s[i]
    <3> HIDE DEF h
    <3>1. CASE i = n + 1
      BY <2>4, <3>1
    <3>2. CASE i # n + 1
      <4>1. i \in 0 .. n /\ (i # 0 => i - 1 \in 0 .. n)
        BY <3>2
      <4>2. g[i] = IF i = 0 THEN 0 ELSE g[i - 1] + s[i]
        BY <4>1, <2>1
      <4> QED
        BY <4>1, <4>2, <2>4
    <3> QED
      BY <3>1, <3>2
  <2> QED
    BY <2>3, <2>5
<1>3. \A n \in Nat : n \in Q
  <2> HIDE DEF Q
  <2> QED
    BY <1>1, <1>2, NaturalInduction
<1>4. PICK g \in [0 .. Len(s) -> Nat] : Upto(g, Len(s))
  BY <1>3
<1>5. g = [i \in 0 .. Len(s) |-> IF i = 0 THEN 0 ELSE g[i - 1] + s[i]]
  BY <1>4
<1> QED
  BY <1>5 DEF Sums

\* Positive numbers have a positive sum.
LEMMA SumPositive ==
  ASSUME NEW s \in Seq(Nat \ {0}), s # <<>>
  PROVE  SumSeq(s) \in Nat \ {0}
<1> DEFINE f == CHOOSE g : Sums(g, s)
           Q == {i \in Nat : i <= Len(s) => f[i] \in Nat /\ (i # 0 => f[i] # 0)}
<1>1. SumSeq(s) = f[Len(s)]
  BY DEF SumSeq, Sums
<1>2. \A i \in 0 .. Len(s) : f[i] = IF i = 0 THEN 0 ELSE f[i - 1] + s[i]
  <2>1. Sums(f, s)
    BY SumsExists
  <2> HIDE DEF f
  <2> QED
    BY <2>1 DEF Sums
<1> HIDE DEF f
<1>3. 0 \in Q
  BY <1>2
<1>4. ASSUME NEW i \in Nat, i \in Q PROVE i + 1 \in Q
  <2> SUFFICES ASSUME i + 1 <= Len(s) PROVE f[i + 1] \in Nat /\ f[i + 1] # 0
    OBVIOUS
  <2>1. f[i + 1] = f[i] + s[i + 1] /\ i + 1 \in 1 .. Len(s)
    BY <1>2
  <2>2. f[i] \in Nat /\ s[i + 1] \in Nat \ {0}
    BY <1>4, <2>1
  <2> QED
    BY <2>1, <2>2
<1>5. \A i \in Nat : i \in Q
  <2> HIDE DEF Q
  <2> QED
    BY <1>3, <1>4, NaturalInduction
<1>6. Len(s) \in Nat /\ Len(s) # 0
  BY EmptySeq
<1> QED
  BY <1>1, <1>5, <1>6

Counted(f) == \E m \in Nat : DOMAIN f = 1 .. m

\* The routes that pieces are cut into.
LEMMA CutRoutesTyped ==
  ASSUME NEW S, NEW participants \in Seq(S), NEW domain, NEW computed, NEW pieces,
         Len(domain.regions) \in Nat, DOMAIN domain.regions = 1 .. Len(domain.regions),
         \A i \in DOMAIN domain.regions : domain.regions[i].holders \in Seq(S),
         \A p \in ToSet(participants) : Counted(pieces[p])
  PROVE  \E R : /\ CutRoutes(domain, participants, computed, pieces) \in Seq(R)
                /\ \A route \in R : route.sources \in Seq(S) /\ route.destinations \in Seq(S)
<1> DEFINE Cut(stored, p, piece) ==
             Route(Intersection(stored.region, piece),
                   Relative(Intersection(stored.region, piece), stored.region.offsets),
                   stored.holders,
                   Relative(Intersection(stored.region, piece), computed[p].offsets), <<p>>)
           regions == domain.regions
           Here(i, p) == {Cut(regions[i], p, pieces[p][k]) : k \in DOMAIN pieces[p]}
           R == UNION {UNION {Here(i, p) : p \in ToSet(participants)} : i \in DOMAIN regions}
           ToRank(stored, p) == [k \in DOMAIN pieces[p] |-> Cut(stored, p, pieces[p][k])]
           ToEach(stored) == [j \in DOMAIN participants |-> ToRank(stored, participants[j])]
           ss == [i \in DOMAIN regions |-> FlattenSeq(ToEach(regions[i]))]
           s == FlattenSeq(ss)
           t == [k \in DOMAIN s |-> IF Numel(s[k].region) > 0 THEN <<s[k]>> ELSE <<>>]
<1>1. CutRoutes(domain, participants, computed, pieces) = FlattenSeq(t)
  BY DEF CutRoutes, Filter
<1>2. ASSUME NEW route \in R PROVE route.sources \in Seq(S) /\ route.destinations \in Seq(S)
  <2>1. PICK i \in DOMAIN regions : \E p \in ToSet(participants) : route \in Here(i, p)
    OBVIOUS
  <2>2. PICK p \in ToSet(participants) : route \in Here(i, p)
    BY <2>1
  <2>3. PICK k \in DOMAIN pieces[p] : route = Cut(regions[i], p, pieces[p][k])
    BY <2>2
  <2>4. route.sources = regions[i].holders /\ route.destinations = <<p>>
    BY <2>3 DEF Route
  <2>5. p \in S
    BY OwnElements
  <2> QED
    BY <2>4, <2>5
<1>3. ASSUME NEW i \in DOMAIN regions, NEW p \in ToSet(participants)
      PROVE  ToRank(regions[i], p) \in Seq(R)
  <2>1. PICK m \in Nat : DOMAIN pieces[p] = 1 .. m
    BY DEF Counted
  <2>2. Here(i, p) \subseteq R
    <3> HIDE DEF Here
    <3> QED
      OBVIOUS
  <2>3. \A k \in 1 .. m : Cut(regions[i], p, pieces[p][k]) \in Here(i, p)
    BY <2>1
  <2>4. ToRank(regions[i], p) = [k \in 1 .. m |-> Cut(regions[i], p, pieces[p][k])]
    BY <2>1
  <2> HIDE DEF R, Here, Cut, ToRank
  <2> QED
    BY <2>1, <2>2, <2>3, <2>4
<1>4. ASSUME NEW i \in DOMAIN regions PROVE ToEach(regions[i]) \in Seq(Seq(R))
  <2>1. \A j \in 1 .. Len(participants) : participants[j] \in ToSet(participants)
    BY OwnElements
  <2>2. ToEach(regions[i]) = [j \in 1 .. Len(participants) |-> ToRank(regions[i], participants[j])]
    BY OwnElements
  <2> HIDE DEF R, ToRank, ToEach
  <2> QED
    BY <1>3, <2>1, <2>2
<1>5. ASSUME NEW i \in DOMAIN regions PROVE FlattenSeq(ToEach(regions[i])) \in Seq(R)
  <2> HIDE DEF R, ToEach
  <2> QED
    BY <1>4, FlattenTyped
<1>6. ss \in Seq(Seq(R))
  <2>1. ss = [i \in 1 .. Len(regions) |-> FlattenSeq(ToEach(regions[i]))]
    OBVIOUS
  <2>2. Len(regions) \in Nat /\ DOMAIN regions = 1 .. Len(regions)
    OBVIOUS
  <2> HIDE DEF R, ToEach, ss, regions
  <2> QED
    BY <1>5, <2>1, <2>2
<1>7. s \in Seq(R)
  <2> HIDE DEF R, ss
  <2> QED
    BY <1>6, FlattenTyped
<1>8. DOMAIN t = DOMAIN s /\ t = [k \in DOMAIN s |-> t[k]] /\ \A k \in DOMAIN s : t[k] \in {<<s[k]>>, <<>>}
  <2> HIDE DEF s
  <2> QED
    OBVIOUS
<1>9. FlattenSeq(t) \in Seq(R)
  <2> HIDE DEF R, s, t
  <2> QED
    BY <1>7, <1>8, KeptTyped
<1> HIDE DEF R, t
<1> QED
  BY <1>1, <1>2, <1>9


\* What a layout is resolved to, as far as plans depend on it.
Plannable(sharding, p) ==
  \/ sharding.kind \in {"owned", "shard"}
  \/ /\ sharding.kind = "block"
     /\ sharding.sizes \in Seq(Nat \ {0}) \ {<<>>}
     /\ Len(p.shape) = 2

LEMMA ResolvedPlannable ==
  ASSUME NEW p, NEW layout,
         \A s \in Range(layout.shardings) :
            s.kind = "block" => s.sizes \in Seq(Nat \ {0}) \ {<<>>},
         Resolve(p, layout).sharding # Rejected
  PROVE  Plannable(Resolve(p, layout).sharding, p)
<1> DEFINE sharding == ComputeSharding(p, layout)
           owned == {layout.shardings[a] : a \in OwnedAxes(p, layout)}
           owner == IF owned = {} THEN Rejected ELSE CHOOSE o \in owned : TRUE
<1>1. Resolve(p, layout).sharding = sharding /\ BlocksFit(p, layout)
  BY DEF Resolve
<1>2. ASSUME sharding = owner PROVE sharding.kind = "owned"
  <2>1. owned # {}
    BY <1>1, <1>2
  <2>2. owner \in owned
    BY <2>1
  <2>3. \A o \in owned : o.kind = "owned"
    BY DEF OwnedAxes, DeclaredAs
  <2> QED
    BY <1>2, <2>2, <2>3
<1>3. CASE sharding = Shard(1)
  <2>1. sharding.kind = "shard"
    BY <1>3 DEF Shard
  <2> QED
    BY <1>1, <2>1 DEF Plannable
<1>4. CASE sharding = BlockShard(BlockSizes(p, layout)) /\ IsBlocked(p, layout)
  <2> DEFINE a == CHOOSE a \in BlockAxes(p, layout) : TRUE
  <2>1. a \in BlockAxes(p, layout)
    BY <1>4 DEF IsBlocked
  <2>2. a \in DOMAIN layout.shardings /\ layout.shardings[a].kind = "block"
    BY <2>1 DEF BlockAxes, DeclaredAs, Declared
  <2>3. layout.shardings[a] \in Range(layout.shardings)
    BY <2>2 DEF Range
  <2>4. BlockSizes(p, layout) = layout.shardings[a].sizes
    BY DEF BlockSizes
  <2>5. BlockSizes(p, layout) \in Seq(Nat \ {0}) \ {<<>>}
    BY <2>2, <2>3, <2>4
  <2>6. Len(p.shape) = 2
    BY <1>1, <1>4 DEF BlocksFit, Rank
  <2>7. sharding.kind = "block" /\ sharding.sizes = BlockSizes(p, layout)
    BY <1>4 DEF BlockShard
  <2> QED
    BY <1>1, <2>5, <2>6, <2>7 DEF Plannable
<1>5. sharding = owner \/ sharding = Shard(1) \/ sharding = Rejected
      \/ (sharding = BlockShard(BlockSizes(p, layout)) /\ IsBlocked(p, layout))
  BY DEF ComputeSharding
<1> QED
  BY <1>1, <1>2, <1>3, <1>4, <1>5 DEF Plannable

\* A valid plan's routes are routable once they are routes between some ranks.
LEMMA ValidRoutable ==
  ASSUME NEW checked, ValidPlan(checked), NEW R, NEW S, checked.routes \in Seq(R),
         \A i \in DOMAIN checked.routes : checked.routes[i].sources \in Seq(S)
                                        /\ checked.routes[i].destinations \in Seq(S)
  PROVE  Routable(checked.routes)
<1> DEFINE routes == checked.routes
<1>1. routes \in Seq(ToSet(routes))
  BY OwnElements
<1>2. ASSUME NEW i \in DOMAIN routes
      PROVE  /\ routes[i].sources \in Seq(ToSet(routes[i].sources))
             /\ routes[i].destinations \in Seq(ToSet(routes[i].destinations))
             /\ SameSize(routes[i])
  <2>1. SameSize(routes[i])
    BY DEF ValidPlan, SameSize
  <2> QED
    BY <2>1, OwnElements
<1> QED
  BY <1>1, <1>2 DEF Routable

\* Blocks are counted with integers.
LEMMA BlocksCounted ==
  ASSUME NEW sizes \in Seq(Nat \ {0}), sizes # <<>>, NEW shape, shape[1] \in Nat,
         NEW group, Len(group.participants) \in Nat \ {0}, NEW r, MeshIndex(group, r) \in Nat, NEW first
  PROVE  Counted(Blocks(sizes, shape, first,
                        ChunkSize(NumBlocks(sizes, shape[1]), Len(group.participants),
                                  MeshIndex(group, r))))
<1> DEFINE n == Len(group.participants)
           i == MeshIndex(group, r)
           blocks == NumBlocks(sizes, shape[1])
           count == ChunkSize(blocks, n, i)
<1>1. SumSeq(sizes) \in Nat \ {0} /\ Len(sizes) \in Nat
  BY SumPositive
<1>2. blocks \in Int
  <2>1. shape[1] \div SumSeq(sizes) \in Int
    BY <1>1
  <2> QED
    BY <1>1, <2>1 DEF NumBlocks
<1>3. (blocks + n - 1) \div n \in Int
  BY <1>2
<1>4. \A j \in Nat : ChunkStart(blocks, n, j) \in Int
  <2> HIDE DEF blocks
  <2>1. ASSUME NEW j \in Nat PROVE j * ((blocks + n - 1) \div n) \in Int
    BY <1>3
  <2> QED
    BY <1>2, <2>1 DEF ChunkStart, Smaller
<1>5. count \in Int
  <2>1. i + 1 \in Nat
    OBVIOUS
  <2> HIDE DEF blocks
  <2> QED
    BY <1>4, <2>1 DEF ChunkSize
<1>6. DOMAIN Blocks(sizes, shape, first, count) = 1 .. count
  BY DEF Blocks
<1>7. Counted(Blocks(sizes, shape, first, count))
  <2> HIDE DEF count
  <2>1. CASE count >= 0
    BY <1>5, <1>6, <2>1 DEF Counted
  <2>2. CASE count < 0
    <3>1. 1 .. count = 1 .. 0
      BY <1>5, <2>2
    <3> QED
      BY <1>6, <3>1 DEF Counted
  <2> QED
    BY <1>5, <2>1, <2>2
<1> QED
  BY <1>7

\* The ranks a plan is for, and its routes once it is found valid.
LEMMA PlanRoutable ==
  ASSUME NEW p, p.shape \in Seq(Nat), NEW sharding, Plannable(sharding, p), NEW axis, NEW owner,
         NEW group, group.meshOrder \in Seq(Nat),
         group.participants \in Seq(ToSet(group.meshOrder)),
         ValidPlan(PlanFor(p, sharding, group, axis, owner))
  PROVE  /\ PlanFor(p, sharding, group, axis, owner).participants = group.participants
         /\ Routable(PlanFor(p, sharding, group, axis, owner).routes)
<1> DEFINE made == PlanFor(p, sharding, group, axis, owner)
           participants == group.participants
           domain == StorageDomain(p, axis, participants)
           regions == domain.regions
           S == ToSet(group.meshOrder)
           n == Len(participants)
<1>1. /\ Len(regions) \in Nat /\ DOMAIN regions = 1 .. Len(regions)
      /\ \A i \in DOMAIN regions : regions[i].holders \in Seq(S)
  BY DomainTyped
<1>2. CASE sharding.kind = "owned"
  <2> DEFINE s == S \cup {owner}
             Of(i) == Route(regions[i].region, AtOrigin(regions[i].region.shape), regions[i].holders,
                            regions[i].region, <<owner>>)
  <2>1. made = WholeTensorPlan(domain, participants, <<owner>>, p.shape)
    BY <1>2 DEF PlanFor
  <2>2. made.participants = participants /\ made.routes = [i \in DOMAIN regions |-> Of(i)]
    BY <2>1 DEF WholeTensorPlan
  <2>3. ASSUME NEW i \in DOMAIN regions
        PROVE  Of(i).sources \in Seq(s) /\ Of(i).destinations \in Seq(s)
    <3>1. Of(i).sources = regions[i].holders /\ Of(i).destinations = <<owner>>
      BY DEF Route
    <3>2. regions[i].holders \in Seq(s)
      <4> HIDE DEF S, regions
      <4> QED
        BY <1>1, SeqMonotonic
    <3>3. <<owner>> \in Seq(s)
      <4>1. owner \in s
        OBVIOUS
      <4> HIDE DEF s
      <4> QED
        BY <4>1
    <3> HIDE DEF Of, s
    <3> QED
      BY <3>1, <3>2, <3>3
  <2>4. made.routes \in Seq({Of(i) : i \in DOMAIN regions})
    <3>1. \A i \in 1 .. Len(regions) : Of(i) \in {Of(j) : j \in DOMAIN regions}
      BY <1>1
    <3>2. made.routes = [i \in 1 .. Len(regions) |-> Of(i)]
      BY <1>1, <2>2
    <3> HIDE DEF made, Of, regions
    <3> QED
      BY <1>1, <3>1, <3>2
  <2>5. \A i \in DOMAIN made.routes : made.routes[i].sources \in Seq(s)
                                      /\ made.routes[i].destinations \in Seq(s)
    <3> HIDE DEF made, Of, regions, s
    <3> QED
      BY <2>2, <2>3
  <2> HIDE DEF made, Of, regions, s
  <2>6. Routable(made.routes)
    <3>1. ValidPlan(made)
      BY DEF made
    <3> QED
      BY <2>4, <2>5, <3>1, ValidRoutable
  <2> QED
    BY <2>2, <2>6 DEF made
<1>3. ASSUME NEW shape, NEW computed, NEW pieces,
             made = ShardedPlan(domain, participants, shape, computed, pieces),
             \A r \in ToSet(participants) : Counted(pieces[r])
      PROVE  made.participants = participants /\ Routable(made.routes)
  <2>1. made.participants = participants /\ made.routes = CutRoutes(domain, participants, computed, pieces)
    BY <1>3 DEF ShardedPlan
  <2>2. PICK R : /\ CutRoutes(domain, participants, computed, pieces) \in Seq(R)
                 /\ \A route \in R : route.sources \in Seq(S) /\ route.destinations \in Seq(S)
    <3> HIDE DEF domain, S
    <3>1. participants \in Seq(S)
      BY DEF S
    <3> QED
      BY <1>1, <1>3, <3>1, CutRoutesTyped
  <2>3. \A i \in DOMAIN made.routes : made.routes[i] \in R
    <3> HIDE DEF made
    <3> QED
      BY <2>1, <2>2
  <2>4. ValidPlan(made)
    OBVIOUS
  <2> HIDE DEF made, S, domain
  <2> QED
    BY <2>1, <2>2, <2>3, <2>4, ValidRoutable
<1>4. CASE sharding.kind = "shard"
  <2> DEFINE shape == domain.shape
             Computed(r) ==
               LET first == ChunkStart(shape[1], n, MeshIndex(group, r))
               IN  Rows(shape, first, first + ChunkSize(shape[1], n, MeshIndex(group, r)))
             computed == [r \in ToSet(participants) |-> Computed(r)]
             pieces == [r \in DOMAIN computed |-> <<computed[r]>>]
  <2>1. made = ShardedPlan(domain, participants, shape, computed, pieces)
    BY <1>4 DEF PlanFor, Dim0ShardPlan
  <2>2. ASSUME NEW r \in ToSet(participants) PROVE Counted(pieces[r])
    <3>1. pieces[r] = <<computed[r]>>
      OBVIOUS
    <3> HIDE DEF pieces, computed
    <3>2. DOMAIN pieces[r] = 1 .. 1
      BY <3>1
    <3> QED
      BY <3>2 DEF Counted
  <2> HIDE DEF made, computed, pieces
  <2>3. made.participants = participants /\ Routable(made.routes)
    BY <2>1, <2>2, <1>3
  <2> QED
    BY <2>3 DEF made
<1>5. CASE sharding.kind = "block"
  <2> DEFINE sizes == sharding.sizes
             shape == p.shape
             blocks == NumBlocks(sizes, shape[1])
             First(r) == ChunkStart(blocks, n, MeshIndex(group, r))
             Count(r) == ChunkSize(blocks, n, MeshIndex(group, r))
             computed == [r \in ToSet(participants) |->
                            Rows(shape, BlockStart(sizes, First(r)), BlockStart(sizes, First(r) + Count(r)))]
             pieces == [r \in ToSet(participants) |-> Blocks(sizes, shape, First(r), Count(r))]
  <2>1. made = ShardedPlan(domain, participants, shape, computed, pieces)
    BY <1>5 DEF PlanFor, BatchedMatrixPlan
  <2>2. ASSUME NEW r \in ToSet(participants) PROVE Counted(pieces[r])
    <3>1. pieces[r] = Blocks(sizes, shape, First(r), Count(r))
      OBVIOUS
    <3>2. sizes \in Seq(Nat \ {0}) /\ sizes # <<>> /\ Len(shape) = 2
      BY <1>5 DEF Plannable
    <3>3. shape[1] \in Nat
      BY <3>2
    <3>4. n \in Nat \ {0}
      BY OwnElements DEF ToSet
    <3>5. MeshIndex(group, r) \in Nat
      <4>1. r \in ToSet(group.meshOrder)
        BY OwnElements
      <4>2. PositionIn(group.meshOrder, r) \in DOMAIN group.meshOrder
        BY <4>1 DEF PositionIn, ToSet
      <4> QED
        BY <4>2, OwnElements DEF MeshIndex
    <3> DEFINE first == First(r)
    <3>6. Count(r) = ChunkSize(NumBlocks(sizes, shape[1]), Len(participants), MeshIndex(group, r))
      OBVIOUS
    <3>7. Counted(Blocks(sizes, shape, first,
                         ChunkSize(NumBlocks(sizes, shape[1]), Len(participants), MeshIndex(group, r))))
      <4> HIDE DEF first, sizes, shape
      <4> QED
        BY <3>2, <3>3, <3>4, <3>5, BlocksCounted
    <3> HIDE DEF pieces, First, Count
    <3> QED
      BY <3>1, <3>6, <3>7 DEF first
  <2> HIDE DEF made, computed, pieces
  <2>3. made.participants = participants /\ Routable(made.routes)
    BY <2>1, <2>2, <1>3
  <2> QED
    BY <2>3 DEF made
<1> QED
  BY <1>2, <1>4, <1>5 DEF Plannable


----------------------------------------------------------------------------
(* The bucket on its ranks. *)

\* What construction resolved, which nothing changes.
BoundInv ==
  /\ world \in Worlds
  /\ bound = BindingOf(world, Resolutions(world))
  /\ Bindable

\* Past planning, a rank has the schedules of the plans it made and found valid.
PlannedInv ==
  \A r \in Ranks :
    Redistributed # <<>> /\ phase[r] \notin {"plan", "invalid"} =>
      plan[r] = Planned(world, PlansOf(world, r), r) /\ Acceptable(PlansOf(world, r), r)

\* Only ranks of equal plans start, and only all ranks raise for differing ones.
TogetherInv ==
  /\ (\E r \in Ranks : phase[r] = "differ") => \A r \in Ranks : phase[r] = "differ"
  /\ \A r, s \in Ranks :
       Redistributed # <<>> /\ phase[r] \in Starting /\ phase[s] \in Starting =>
         plan[r].plans = plan[s].plans

AgreeInv ==
  /\ BoundInv
  /\ DOMAIN phase = Ranks /\ DOMAIN plan = Ranks
  /\ PlannedInv
  /\ TogetherInv

\* What is planned of the bucket's redistributed parameters.
LEMMA RedistributedTyped ==
  ASSUME BoundInv
  PROVE  /\ Redistributed \in Seq(DOMAIN world.params)
         /\ Group = RedistributionGroup(world.mesh, BucketAxis, world.rank)
         /\ \A i \in DOMAIN world.params : Resolved[i] = Resolve(world.params[i], world.layouts[i])
<1> DEFINE s == [i \in DOMAIN world.params |-> i]
           t == [i \in DOMAIN s |-> IF Resolutions(world)[s[i]].axis # NoAxis THEN <<s[i]>> ELSE <<>>]
<1>1. bound = BindingOf(world, Resolutions(world))
  BY DEF BoundInv
<1>2. Redistributed = FlattenSeq(t)
  BY <1>1 DEF BindingOf, Redistributed, Filter
<1>3. s \in Seq(DOMAIN world.params)
  <2>1. world.params \in Seq(ToSet(world.params))
    BY WorldsAssumption DEF BoundInv
  <2>2. Len(world.params) \in Nat /\ DOMAIN world.params = 1 .. Len(world.params)
    BY <2>1
  <2>3. s = [i \in 1 .. Len(world.params) |-> i]
    BY <2>2
  <2>4. \A i \in 1 .. Len(world.params) : i \in DOMAIN world.params
    BY <2>2
  <2> HIDE DEF s
  <2> QED
    BY <2>2, <2>3, <2>4
<1>4. DOMAIN t = DOMAIN s /\ t = [k \in DOMAIN s |-> t[k]] /\ \A k \in DOMAIN s : t[k] \in {<<s[k]>>, <<>>}
  <2> HIDE DEF s
  <2> QED
    OBVIOUS
<1>5. FlattenSeq(t) \in Seq(DOMAIN world.params)
  <2> HIDE DEF s, t
  <2> QED
    BY <1>3, <1>4, KeptTyped
<1>6. Group = RedistributionGroup(world.mesh, BucketAxis, world.rank) /\ Resolved = Resolutions(world)
  BY <1>1 DEF BindingOf, Group, BucketAxis, Resolved
<1> QED
  BY <1>2, <1>5, <1>6 DEF Resolutions

LEMMA BucketPlans ==
  ASSUME BoundInv, NEW r, Acceptable(PlansOf(world, r), r)
  PROVE  /\ DOMAIN PlansOf(world, r) = DOMAIN Redistributed
         /\ \A k \in DOMAIN Redistributed :
              /\ PlansOf(world, r)[k].participants = Group.participants
              /\ Routable(PlansOf(world, r)[k].routes)
<1> DEFINE plans == PlansOf(world, r)
<1>1. DOMAIN plans = DOMAIN Redistributed
  BY DEF PlansOf
<1>2. /\ Group.meshOrder \in Seq(Nat)
      /\ Group.participants \in Seq(ToSet(Group.meshOrder))
  <2>1. world.mesh.ranks \in Seq(Nat)
    BY WorldsAssumption DEF BoundInv
  <2> QED
    BY <2>1, RedistributedTyped, GroupTyped
<1>3. ASSUME NEW k \in DOMAIN Redistributed
      PROVE  plans[k].participants = Group.participants /\ Routable(plans[k].routes)
  <2> DEFINE i == Redistributed[k]
             p == world.params[i]
             sharding == Resolved[i].sharding
             owner == Owner(world, r)
  <2>1. i \in DOMAIN world.params
    BY RedistributedTyped
  <2>2. plans[k] = PlanFor(p, sharding, Group, BucketAxis, owner)
    BY DEF PlansOf
  <2>3. ValidPlan(plans[k])
    BY <1>1 DEF Acceptable
  <2>4. p.shape \in Seq(Nat)
    BY <2>1, WorldsAssumption DEF BoundInv
  <2>5. Plannable(sharding, p)
    <3>1. Resolved[i] = Resolve(p, world.layouts[i])
      BY <2>1, RedistributedTyped
    <3>2. Resolved[i].sharding # Rejected
      <4>1. DOMAIN Resolved = DOMAIN world.params
        BY DEF BoundInv, BindingOf, Resolutions, Resolved
      <4> QED
        BY <2>1, <4>1 DEF BoundInv, Bindable
    <3>3. \A s \in Range(world.layouts[i].shardings) :
            s.kind = "block" => s.sizes \in Seq(Nat \ {0}) \ {<<>>}
      BY <2>1, WorldsAssumption DEF BoundInv
    <3> QED
      BY <3>1, <3>2, <3>3, ResolvedPlannable
  <2> HIDE DEF plans, i, p, sharding, owner
  <2> QED
    BY <1>2, <2>2, <2>3, <2>4, <2>5, PlanRoutable
<1> QED
  BY <1>1, <1>3

\* Ranks that start with equal plans expect of each other what they are sent.
LEMMA AgreeInvImplies ==
  AgreeInv => RanksAgree
<1> SUFFICES ASSUME AgreeInv PROVE RanksAgree
  OBVIOUS
<1>1. (\E r \in Ranks : phase[r] = "differ") => \A r \in Ranks : phase[r] = "differ"
  BY DEF AgreeInv, TogetherInv
<1>2. ASSUME NEW r \in Ranks, NEW s \in Ranks, Redistributed # <<>>,
             phase[r] \in Starting, phase[s] \in Starting
      PROVE  LET at(x) == PositionIn(Group.participants, x)
             IN  /\ plan[r].toCompute.inputSplits[at(s)] = plan[s].toCompute.outputSplits[at(r)]
                 /\ plan[r].toStorage.inputSplits[at(s)] = plan[s].toStorage.outputSplits[at(r)]
  <2> DEFINE plans == PlansOf(world, r)
             n == Len(Redistributed)
  <2>1. /\ plan[r] = Planned(world, plans, r) /\ Acceptable(plans, r)
        /\ plan[s] = Planned(world, PlansOf(world, s), s)
    BY <1>2 DEF AgreeInv, PlannedInv, Starting
  <2>2. PlansOf(world, s) = plans
    <3>1. plan[r].plans = plan[s].plans
      BY <1>2 DEF AgreeInv, TogetherInv
    <3> QED
      BY <2>1, <3>1 DEF Planned
  <2>3. n \in Nat \ {0} /\ DOMAIN Redistributed = 1 .. n
    <3>1. Redistributed \in Seq(DOMAIN world.params)
      BY RedistributedTyped DEF AgreeInv
    <3> QED
      BY <1>2, <3>1, EmptySeq
  <2>4. /\ DOMAIN plans = 1 .. n /\ plans[1].participants = Group.participants
        /\ \A k \in 1 .. n : Routable(plans[k].routes)
    <3>1. 1 \in 1 .. n
      BY <2>3
    <3> HIDE DEF n
    <3> QED
      BY <2>1, <2>3, <3>1, BucketPlans DEF AgreeInv
  <2>5. r \in ToSet(plans[1].participants) /\ s \in ToSet(plans[1].participants)
    BY <2>4 DEF Ranks
  <2>6. /\ plan[r].toCompute = PackedSchedule(plans, "storage_to_compute", r)
        /\ plan[r].toStorage = PackedSchedule(plans, "compute_to_storage", r)
        /\ plan[s].toCompute = PackedSchedule(plans, "storage_to_compute", s)
        /\ plan[s].toStorage = PackedSchedule(plans, "compute_to_storage", s)
    <3> HIDE DEF plans
    <3> QED
      BY <2>1, <2>2 DEF Planned
  <2>7. \A direction \in Directions :
          PackedSchedule(plans, direction, r).inputSplits[PositionIn(plans[1].participants, s)]
            = PackedSchedule(plans, direction, s).outputSplits[PositionIn(plans[1].participants, r)]
    <3> HIDE DEF plans, n
    <3> QED
      BY <2>3, <2>4, <2>5, SchedulesMeet
  <2> HIDE DEF plans
  <2> QED
    BY <2>4, <2>6, <2>7 DEF Directions
<1> QED
  BY <1>1, <1>2 DEF RanksAgree

LEMMA InitAgreeInv ==
  Init => AgreeInv
<1> SUFFICES ASSUME Init PROVE AgreeInv
  OBVIOUS
<1>1. BoundInv /\ DOMAIN phase = Ranks /\ DOMAIN plan = Ranks /\ \A r \in Ranks : phase[r] = "plan"
  BY DEF Init, BoundInv
<1> QED
  BY <1>1 DEF AgreeInv, PlannedInv, TogetherInv, Starting

----------------------------------------------------------------------------
(* Steps. *)

\* The binding, and all that is computed from it, stays.
LEMMA BindingStays ==
  ASSUME UNCHANGED <<world, bound>>
  PROVE  /\ BoundInv => BoundInv'
         /\ Ranks' = Ranks /\ Redistributed' = Redistributed
         /\ \A r : PlansOf(world, r)' = PlansOf(world, r)
         /\ \A r : Planned(world, PlansOf(world, r), r)' = Planned(world, PlansOf(world, r), r)
         /\ \A r : Acceptable(PlansOf(world, r), r)' = Acceptable(PlansOf(world, r), r)
<1>1. /\ Ranks' = Ranks /\ Redistributed' = Redistributed /\ Group' = Group
      /\ BucketAxis' = BucketAxis /\ Resolved' = Resolved
  BY DEF Ranks, Redistributed, Group, BucketAxis, Resolved
<1>2. BoundInv => BoundInv'
  BY <1>1 DEF BoundInv, Bindable
<1>3. \A r : PlansOf(world, r)' = PlansOf(world, r)
  BY <1>1 DEF PlansOf, Owner
<1>4. \A r : Planned(world, PlansOf(world, r), r)' = Planned(world, PlansOf(world, r), r)
  BY <1>3 DEF Planned
<1>5. \A r : Acceptable(PlansOf(world, r), r)' = Acceptable(PlansOf(world, r), r)
  BY <1>1, <1>3 DEF Acceptable, DomainsValid, Shape
<1> QED
  BY <1>1, <1>2, <1>3, <1>4, <1>5

\* Steps of ranks that have started move them on and touch no plan.
LEMMA AdvanceKeeps ==
  ASSUME AgreeInv, UNCHANGED <<world, bound, plan>>, DOMAIN phase' = Ranks,
         \A r \in Ranks : phase'[r] = phase[r] \/ (phase[r] \in Starting /\ phase'[r] \in Starting)
  PROVE  AgreeInv'
<1>1. BoundInv' /\ Ranks' = Ranks /\ Redistributed' = Redistributed
  BY BindingStays DEF AgreeInv
<1>2. DOMAIN phase' = Ranks' /\ DOMAIN plan' = Ranks'
  BY <1>1 DEF AgreeInv
<1>3. PlannedInv'
  <2> SUFFICES ASSUME NEW r \in Ranks, Redistributed # <<>>, phase'[r] \notin {"plan", "invalid"}
               PROVE  /\ plan'[r] = Planned(world, PlansOf(world, r), r)'
                      /\ Acceptable(PlansOf(world, r), r)'
    BY <1>1 DEF PlannedInv
  <2>1. phase[r] \notin {"plan", "invalid"}
    BY DEF Starting
  <2> QED
    BY <2>1, BindingStays DEF AgreeInv, PlannedInv
<1>4. TogetherInv'
  <2>1. \A r \in Ranks : phase'[r] = "differ" <=> phase[r] = "differ"
    BY DEF Starting
  <2>2. \A r \in Ranks : phase'[r] \in Starting => phase[r] \in Starting
    OBVIOUS
  <2> QED
    BY <1>1, <2>1, <2>2 DEF AgreeInv, TogetherInv
<1> QED
  BY <1>1, <1>2, <1>3, <1>4 DEF AgreeInv

LEMMA RunLocalBucketKeeps ==
  ASSUME AgreeInv, NEW r \in Ranks, RunLocalBucket(r)
  PROVE  AgreeInv'
<1>1. BoundInv' /\ Ranks' = Ranks /\ Redistributed' = Redistributed
  BY BindingStays DEF AgreeInv, RunLocalBucket
<1>2. Redistributed = <<>> /\ phase[r] = "plan" /\ phase' = [phase EXCEPT ![r] = "done"] /\ plan' = plan
  BY DEF RunLocalBucket
<1>3. \A s \in Ranks : phase'[s] # "differ"
  BY <1>2 DEF AgreeInv, TogetherInv
<1> QED
  BY <1>1, <1>2, <1>3 DEF AgreeInv, PlannedInv, TogetherInv

LEMMA PlanKeeps ==
  ASSUME AgreeInv, NEW r \in Ranks, Plan(r)
  PROVE  AgreeInv'
<1> DEFINE plans == PlansOf(world, r)
<1>1. BoundInv' /\ Ranks' = Ranks /\ Redistributed' = Redistributed
  BY BindingStays DEF AgreeInv, Plan
<1>2. phase[r] = "plan" /\ UNCHANGED <<world, bound>>
      /\ \/ /\ Acceptable(plans, r) /\ phase' = [phase EXCEPT ![r] = "validate"]
            /\ plan' = [plan EXCEPT ![r] = Planned(world, plans, r)]
         \/ phase' = [phase EXCEPT ![r] = "invalid"] /\ plan' = plan
  BY DEF Plan, Adopt
<1> HIDE DEF plans
<1>3. DOMAIN phase' = Ranks' /\ DOMAIN plan' = Ranks'
  BY <1>1, <1>2 DEF AgreeInv
<1>4. \A s \in Ranks : s # r => phase'[s] = phase[s] /\ plan'[s] = plan[s]
  BY <1>2 DEF AgreeInv
<1>5. /\ phase'[r] \in {"validate", "invalid"}
      /\ phase'[r] = "validate" => plan'[r] = Planned(world, plans, r) /\ Acceptable(plans, r)
  BY <1>2 DEF AgreeInv
<1>6. PlannedInv'
  <2> SUFFICES ASSUME NEW s \in Ranks, Redistributed # <<>>, phase'[s] \notin {"plan", "invalid"}
               PROVE  /\ plan'[s] = Planned(world, PlansOf(world, s), s)'
                      /\ Acceptable(PlansOf(world, s), s)'
    BY <1>1 DEF PlannedInv
  <2>1. /\ Planned(world, PlansOf(world, s), s)' = Planned(world, PlansOf(world, s), s)
        /\ Acceptable(PlansOf(world, s), s)' = Acceptable(PlansOf(world, s), s)
    BY <1>2, BindingStays
  <2>2. CASE s = r
    BY <1>5, <2>1, <2>2 DEF plans
  <2>3. CASE s # r
    BY <1>4, <2>1, <2>3 DEF AgreeInv, PlannedInv
  <2> QED
    BY <2>2, <2>3
<1>7. TogetherInv'
  <2>1. \A s \in Ranks : phase'[s] # "differ"
    BY <1>2, <1>4, <1>5 DEF AgreeInv, TogetherInv
  <2>2. \A s \in Ranks : phase'[s] \in Starting => s # r /\ phase[s] \in Starting
    BY <1>4, <1>5 DEF Starting
  <2> QED
    BY <1>1, <1>4, <2>1, <2>2 DEF AgreeInv, TogetherInv
<1> QED
  BY <1>1, <1>3, <1>6, <1>7 DEF AgreeInv

LEMMA ValidateKeeps ==
  ASSUME AgreeInv, ValidateAcrossRanks
  PROVE  AgreeInv'
<1> DEFINE Alike(r) == \A s \in Ranks : plan[s].plans = plan[r].plans
<1>1. BoundInv' /\ Ranks' = Ranks /\ Redistributed' = Redistributed
  BY BindingStays DEF AgreeInv, ValidateAcrossRanks
<1>2. /\ UNCHANGED <<world, bound, plan>> /\ \A r \in Ranks : phase[r] = "validate"
      /\ phase' = [r \in Ranks |-> IF Alike(r) THEN "prepare" ELSE "differ"]
  BY DEF ValidateAcrossRanks
<1>3. \A r \in Ranks : phase'[r] = IF Alike(r) THEN "prepare" ELSE "differ"
  BY <1>2
<1>4. PlannedInv'
  <2> SUFFICES ASSUME NEW r \in Ranks, Redistributed # <<>>
               PROVE  /\ plan'[r] = Planned(world, PlansOf(world, r), r)'
                      /\ Acceptable(PlansOf(world, r), r)'
    BY <1>1 DEF PlannedInv
  <2> QED
    BY <1>2, BindingStays DEF AgreeInv, PlannedInv
<1>5. \A r, s \in Ranks : Alike(r) => Alike(s) /\ plan[r].plans = plan[s].plans
  OBVIOUS
<1>6. TogetherInv'
  <2> HIDE DEF Alike
  <2>1. \A r \in Ranks : (phase'[r] = "differ" <=> ~Alike(r)) /\ (phase'[r] \in Starting <=> Alike(r))
    BY <1>3 DEF Starting
  <2> QED
    BY <1>1, <1>2, <1>5, <2>1 DEF TogetherInv
<1> QED
  BY <1>1, <1>2, <1>4, <1>6 DEF AgreeInv

\* An exchange moves the ranks that meet in it on.
Meets(from, to) ==
  \E who : /\ \A r \in who : phase[r] = from
           /\ phase' = [r \in Ranks |-> IF r \in who THEN to ELSE phase[r]]

LEMMA MeetingKeeps ==
  ASSUME AgreeInv, UNCHANGED <<world, bound, plan>>,
         NEW from \in Starting, NEW to \in Starting, Meets(from, to)
  PROVE  AgreeInv'
<1>1. PICK who : /\ \A r \in who : phase[r] = from
                 /\ phase' = [r \in Ranks |-> IF r \in who THEN to ELSE phase[r]]
  BY DEF Meets
<1>2. \A r \in Ranks : phase'[r] = phase[r] \/ (phase[r] \in Starting /\ phase'[r] \in Starting)
  BY <1>1
<1>3. DOMAIN phase' = Ranks
  BY <1>1
<1> QED
  BY <1>2, <1>3, AdvanceKeeps

LEMMA NextKeeps ==
  AgreeInv /\ [Next]_vars => AgreeInv'
<1> SUFFICES ASSUME AgreeInv, [Next]_vars PROVE AgreeInv'
  OBVIOUS
<1> USE DEF Starting
<1>0. DOMAIN phase = Ranks
  BY DEF AgreeInv
<1>1. CASE \E r \in Ranks : RunLocalBucket(r)
  BY <1>1, RunLocalBucketKeeps
<1>2. CASE \E r \in Ranks : Plan(r)
  BY <1>2, PlanKeeps
<1>3. CASE \E r \in Ranks : PrepareRedistributed(r)
  BY <1>0, <1>3, AdvanceKeeps DEF PrepareRedistributed
<1>4. CASE \E r \in Ranks : Compute(r)
  BY <1>0, <1>4, AdvanceKeeps DEF Compute
<1>5. CASE \E r \in Ranks : FinalizeRedistributed(r)
  BY <1>0, <1>5, AdvanceKeeps DEF FinalizeRedistributed
<1>6. CASE ValidateAcrossRanks
  BY <1>6, ValidateKeeps
<1>7. CASE StorageToCompute
  <2>1. Meets("gather", "compute") /\ UNCHANGED <<world, bound, plan>>
    BY <1>7 DEF StorageToCompute, Exchange, Meets
  <2> QED
    BY <2>1, MeetingKeeps
<1>8. CASE ComputeToStorage
  <2>1. Meets("return", "finalize") /\ UNCHANGED <<world, bound, plan>>
    BY <1>8 DEF ComputeToStorage, Exchange, Meets
  <2> QED
    BY <2>1, MeetingKeeps
<1>9. CASE Over \/ UNCHANGED vars
  BY <1>0, <1>9, AdvanceKeeps DEF Over, vars
<1> QED
  BY <1>1, <1>2, <1>3, <1>4, <1>5, <1>6, <1>7, <1>8, <1>9 DEF Next

\* The plans of the ranks that start are the ones they made themselves, valid and
\* the same on all (_build_bucket_plans, _validate_bucket_plans_across_ranks), until the step
\* is over.
THEOREM PlansAgree == Spec => []AgreeInv
<1> QED
  BY InitAgreeInv, NextKeeps, PTL DEF Spec

\* Ranks whose plans differ all raise, and what a rank that starts sends another
\* in a packed all-to-all is what the other makes room for, in either direction:
\* for any mesh, bucket and accepted layouts, and whatever owners were picked.
THEOREM RanksAlwaysAgree == Spec => []RanksAgree
<1> QED
  BY PlansAgree, AgreeInvImplies, PTL


\* Ranks that start agree on whether an exchange is a collective: none skips one
\* (its schedule has no remote transfer) that another waits in.
JoinedByAll ==
  \A r, s \in Ranks :
    Redistributed # <<>> /\ phase[r] \in Starting /\ phase[s] \in Starting =>
      /\ plan[r].toCompute.remote = plan[s].toCompute.remote
      /\ plan[r].toStorage.remote = plan[s].toStorage.remote

\* A collective of a bucket that one rank joins is joined by all of its group.
THEOREM CollectivesJoined == Spec => []JoinedByAll
<1>1. AgreeInv => JoinedByAll
  <2> SUFFICES ASSUME AgreeInv, NEW r \in Ranks, NEW s \in Ranks, Redistributed # <<>>,
                      phase[r] \in Starting, phase[s] \in Starting
               PROVE  /\ plan[r].toCompute.remote = plan[s].toCompute.remote
                      /\ plan[r].toStorage.remote = plan[s].toStorage.remote
    BY DEF JoinedByAll
  <2> DEFINE plans == PlansOf(world, r)
  <2>1. plan[r] = Planned(world, plans, r) /\ plan[s] = Planned(world, PlansOf(world, s), s)
    BY DEF AgreeInv, PlannedInv, Starting
  <2>2. PlansOf(world, s) = plans
    <3>1. plan[r].plans = plan[s].plans
      BY DEF AgreeInv, TogetherInv
    <3> QED
      BY <2>1, <3>1 DEF Planned
  <2>3. \A direction : PackedSchedule(plans, direction, r).remote = PackedSchedule(plans, direction, s).remote
    <3> HIDE DEF plans
    <3> QED
      BY DEF PackedSchedule
  <2> HIDE DEF plans
  <2> QED
    BY <2>1, <2>2, <2>3 DEF Planned
<1> QED
  BY <1>1, PlansAgree, PTL
===============================================================================
