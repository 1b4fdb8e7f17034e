------------------------ MODULE MatrixAssignmentProofs ------------------------
(***************************************************************************)
(* What holds of MatrixAssignment for any ranks, hosts and groups.         *)
(***************************************************************************)
EXTENDS MatrixAssignment, OwnerChoiceProofs, SequenceTheorems

----------------------------------------------------------------------------
(* What SlotLoad, GivenBlocks and Held are, for the slots so of the         *)
(* matrices ms, their ranks ro, and the counts c of a block group bl.       *)

LoadIn(ms, so, s) == SumFunctionOnSet(ms, {i \in DOMAIN ms : so[i] = s})
GivenIn(c) == SumFunctionOnSet(c, DOMAIN c)

OwnerIn(so, ro, i) == IF so[i] = 0 THEN 0 ELSE ro[so[i]]
MatricesIn(ms, so, ro, r) == SumFunctionOnSet(ms, {i \in DOMAIN so : OwnerIn(so, ro, i) = r})
BlocksIn(bl, c, r) ==
  SumFunctionOnSet([k \in DOMAIN c |-> IF bl.eligible[k] = r THEN c[k] * bl.numel ELSE 0], DOMAIN c)
AllBlocksIn(bs, cs, r) == SumFunctionOnSet([b \in DOMAIN cs |-> BlocksIn(bs[b], cs[b], r)], DOMAIN cs)
HeldIn(gr, so, ro, cs, r) == MatricesIn(gr.matrices, so, ro, r) + AllBlocksIn(gr.blocks, cs, r)
HeldAll(gs, slots, ranks, cs, r) ==
  SumFunctionOnSet([g \in DOMAIN gs |-> HeldIn(gs[g], slots[g], ranks[g], cs[g], r)], DOMAIN gs)

----------------------------------------------------------------------------
(* The invariant. *)

Groups == input.groups
Now == group <= Len(Groups)
Slots == slotOf[group]
SlotRanks == rankOf[group]
Given == counts[group]

Typed ==
  /\ input \in Inputs
  /\ group \in 1 .. Len(Groups) + 1
  /\ phase \in {"matrices", "slots", "blocks"} /\ (phase = "matrices" \/ Now)
  /\ IsTally(tally, Hosts) /\ tally.taken \subseteq Ranks
  /\ DOMAIN slotOf = DOMAIN Groups /\ DOMAIN rankOf = DOMAIN Groups /\ DOMAIN counts = DOMAIN Groups
  /\ \A g \in DOMAIN Groups :
       /\ slotOf[g] \in [DOMAIN Groups[g].matrices -> Ranks \cup {0}]
       /\ rankOf[g] \in [Ranks -> Ranks \cup {0}]
       /\ DOMAIN counts[g] = DOMAIN Groups[g].blocks
       /\ \A b \in DOMAIN counts[g] : counts[g][b] \in [DOMAIN Groups[g].blocks[b].eligible -> Nat]

\* The loads are what the ranks hold.
Counted ==
  \A r \in Ranks : tally.carried[r] + tally.primary[r] = HeldAll(Groups, slotOf, rankOf, counts, r)

NoneLoaded(so) == \A i \in DOMAIN so : so[i] = 0
NonePlaced(ro) == \A s \in DOMAIN ro : ro[s] = 0
NoneGiven(cs) == \A b \in DOMAIN cs : \A k \in DOMAIN cs[b] : cs[b][k] = 0

\* Nothing of the groups to come is placed, and of this one the phases so far.
Progress ==
  /\ \A g \in DOMAIN Groups : g > group => NoneLoaded(slotOf[g]) /\ NonePlaced(rankOf[g]) /\ NoneGiven(counts[g])
  /\ Now /\ phase # "blocks" => NoneGiven(Given)
  /\ Now /\ phase = "matrices" => NonePlaced(SlotRanks)
  /\ phase # "matrices" => Loose = {}
  /\ phase = "blocks" => Unplaced = {} \/ Group.matrices = <<>>

Placed == Ranks \ Unplaced

\* The tally of a group's slots.
SlotsTallied ==
  /\ phase = "slots" =>
       /\ tally.taken = {SlotRanks[s] : s \in Placed}
       /\ \A s, t \in Placed : SlotRanks[s] = SlotRanks[t] => s = t
       /\ \A s \in Placed : tally.primary[SlotRanks[s]] = LoadIn(Group.matrices, Slots, s)
       /\ \A r \in Ranks \ tally.taken : tally.primary[r] = 0
  /\ phase # "slots" => \A r \in Ranks : tally.primary[r] = 0

\* No slot has more than another by more than one matrix.
WithinOne(d, S) == d <= 0 \/ \E x \in S : d <= x
SlotsLevel ==
  Now => \A s, t \in Ranks :
           WithinOne(LoadIn(Group.matrices, Slots, s) - LoadIn(Group.matrices, Slots, t), Range(Group.matrices))

\* The heaviest slots go first, and without hosts to the ranks loaded least.
SlotsSorted ==
  phase = "slots" =>
    /\ \A s \in Placed, t \in Unplaced :
         LoadIn(Group.matrices, Slots, t) <= LoadIn(Group.matrices, Slots, s)
    /\ input.hosts = <<>> =>
         /\ \A s \in Placed : \A r \in Ranks \ tally.taken : tally.carried[SlotRanks[s]] <= tally.carried[r]
         /\ \A s, t \in Placed :
              \/ /\ tally.carried[SlotRanks[s]] <= tally.carried[SlotRanks[t]]
                 /\ LoadIn(Group.matrices, Slots, t) <= LoadIn(Group.matrices, Slots, s)
              \/ /\ tally.carried[SlotRanks[t]] <= tally.carried[SlotRanks[s]]
                 /\ LoadIn(Group.matrices, Slots, s) <= LoadIn(Group.matrices, Slots, t)

SizesOf(gr) == Range(gr.matrices) \cup {gr.blocks[b].numel : b \in DOMAIN gr.blocks}
SizesTo(gs, n) == UNION {SizesOf(gs[g]) : g \in {h \in DOMAIN gs : h < n}}

\* What a group leaves uneven is a matrix or a block of it, or was there before.
Level ==
  input.hosts = <<>> /\ AnyRank =>
    \A q, r \in Ranks :
      /\ phase # "blocks" => WithinOne(tally.carried[q] - tally.carried[r], SizesTo(Groups, group))
      /\ phase = "blocks" => WithinOne(tally.carried[q] - tally.carried[r], SizesTo(Groups, group + 1))

\* Block groups are begun when the ones before are finished.
BlocksInOrder ==
  Now => \A b \in DOMAIN Group.blocks :
           GivenIn(Given[b]) > 0 => \A a \in DOMAIN Group.blocks : a < b => a \notin Unfinished

\* The last of them leaves its ranks level.
LastLevel ==
  phase = "blocks" =>
    \A b \in DOMAIN Group.blocks :
      GivenIn(Given[b]) > 0 /\ (\A c \in DOMAIN Group.blocks : c > b => GivenIn(Given[c]) = 0) =>
        \A j, k \in DOMAIN Group.blocks[b].eligible :
          Given[b][j] > 0 =>
            tally.carried[Group.blocks[b].eligible[j]] - tally.carried[Group.blocks[b].eligible[k]]
              <= Group.blocks[b].numel

IInv ==
  /\ Typed /\ Counted /\ Progress /\ SlotsTallied /\ SlotsLevel /\ SlotsSorted
  /\ Level /\ BlocksInOrder /\ LastLevel

----------------------------------------------------------------------------
(* Inputs. *)

LEMMA InputTyped ==
  ASSUME input \in Inputs
  PROVE  /\ input.ranks \in Nat \ {0}
         /\ IsFiniteSet(Ranks) /\ Ranks # {} /\ Ranks \subseteq Nat /\ 0 \notin Ranks
         /\ AreHosts(Hosts) /\ Hosts \in Seq(Nat) /\ DOMAIN Hosts = Ranks
         /\ Len(Groups) \in Nat /\ DOMAIN Groups = 1 .. Len(Groups)
<1>1. /\ input.ranks \in Nat \ {0}
      /\ input.hosts # <<>> => AreHosts(input.hosts) /\ Len(input.hosts) = input.ranks
  BY InputsAssumption
<1>2. IsFiniteSet(Ranks) /\ Ranks # {} /\ Ranks \subseteq Nat /\ 0 \notin Ranks
  <2>1. IsFiniteSet(Ranks)
    BY <1>1, FS_Interval DEF Ranks
  <2>2. Ranks # {} /\ Ranks \subseteq Nat /\ 0 \notin Ranks
    BY <1>1 DEF Ranks
  <2> QED
    BY <2>1, <2>2
<1>3. AreHosts(Hosts) /\ Hosts \in Seq(Nat) /\ DOMAIN Hosts = Ranks
  <2>1. CASE input.hosts = <<>>
    <3> DEFINE hs == [r \in Ranks |-> 0]
    <3>1. Hosts = hs
      BY <2>1 DEF Hosts
    <3>2. hs \in Seq(Nat) /\ DOMAIN hs = Ranks
      BY <1>1 DEF Ranks
    <3>3. HostsOf(hs) = {0}
      BY <1>2 DEF HostsOf
    <3> HIDE DEF hs
    <3>4. Cardinality(HostsOf(hs)) = 1
      BY <3>3, FS_Singleton
    <3>5. HostsOf(hs) = 0 .. Cardinality(HostsOf(hs)) - 1
      BY <3>3, <3>4
    <3> QED
      BY <3>1, <3>2, <3>5 DEF AreHosts
  <2>2. CASE input.hosts # <<>>
    <3>1. AreHosts(Hosts) /\ Len(Hosts) = input.ranks
      BY <1>1, <2>2 DEF Hosts
    <3>2. Hosts \in Seq(Nat)
      BY <3>1 DEF AreHosts
    <3>3. DOMAIN Hosts = 1 .. Len(Hosts)
      BY <3>2
    <3> QED
      BY <3>1, <3>2, <3>3 DEF Ranks
  <2> QED
    BY <2>1, <2>2
<1>4. Len(Groups) \in Nat /\ DOMAIN Groups = 1 .. Len(Groups)
  <2> DEFINE S == [matrices : Seq(Nat \ {0}),
                   blocks   : Seq([count : Nat, numel : Nat \ {0}, eligible : Seq(1 .. input.ranks) \ {<<>>}])]
             gs == Groups
  <2>1. gs \in Seq(S)
    BY InputsAssumption DEF Groups
  <2> HIDE DEF S, gs
  <2>2. Len(gs) \in Nat /\ DOMAIN gs = 1 .. Len(gs)
    BY <2>1
  <2> QED
    BY <2>2 DEF gs
<1> QED
  BY <1>1, <1>2, <1>3, <1>4

LEMMA RanksTyped ==
  ASSUME Typed
  PROVE  /\ input.ranks \in Nat \ {0}
         /\ IsFiniteSet(Ranks) /\ Ranks # {} /\ Ranks \subseteq Nat /\ 0 \notin Ranks
         /\ AreHosts(Hosts) /\ Hosts \in Seq(Nat) /\ DOMAIN Hosts = Ranks
         /\ Len(Groups) \in Nat /\ DOMAIN Groups = 1 .. Len(Groups)
         /\ group \in Nat /\ (Now <=> group \in DOMAIN Groups)
<1>1. input \in Inputs /\ group \in 1 .. Len(Groups) + 1
  BY DEF Typed
<1>2. /\ input.ranks \in Nat \ {0}
      /\ IsFiniteSet(Ranks) /\ Ranks # {} /\ Ranks \subseteq Nat /\ 0 \notin Ranks
      /\ AreHosts(Hosts) /\ Hosts \in Seq(Nat) /\ DOMAIN Hosts = Ranks
      /\ Len(Groups) \in Nat /\ DOMAIN Groups = 1 .. Len(Groups)
  BY <1>1, InputTyped
<1>3. group \in Nat /\ (Now <=> group \in DOMAIN Groups)
  BY <1>1, <1>2 DEF Now
<1> QED
  BY <1>2, <1>3

LEMMA GroupTyped ==
  ASSUME Typed, NEW g \in DOMAIN Groups
  PROVE  /\ IsFiniteSet(DOMAIN Groups[g].matrices) /\ DOMAIN Groups[g].matrices \subseteq Nat
         /\ \A i \in DOMAIN Groups[g].matrices : Groups[g].matrices[i] \in Nat
         /\ Groups[g].matrices = <<>> <=> DOMAIN Groups[g].matrices = {}
         /\ IsFiniteSet(DOMAIN Groups[g].blocks) /\ DOMAIN Groups[g].blocks \subseteq Nat
         /\ \A b \in DOMAIN Groups[g].blocks :
              /\ Groups[g].blocks[b].count \in Nat /\ Groups[g].blocks[b].numel \in Nat
              /\ IsFiniteSet(DOMAIN Groups[g].blocks[b].eligible)
              /\ DOMAIN Groups[g].blocks[b].eligible \subseteq Nat
              /\ DOMAIN Groups[g].blocks[b].eligible # {}
              /\ \A k \in DOMAIN Groups[g].blocks[b].eligible : Groups[g].blocks[b].eligible[k] \in Ranks
              /\ \A j, k \in DOMAIN Groups[g].blocks[b].eligible :
                   Groups[g].blocks[b].eligible[j] = Groups[g].blocks[b].eligible[k] => j = k
<1> DEFINE E == Seq(1 .. input.ranks) \ {<<>>}
           B == [count : Nat, numel : Nat \ {0}, eligible : E]
           S == [matrices : Seq(Nat \ {0}), blocks : Seq(B)]
           gs == Groups
<1>1. gs \in Seq(S) /\ g \in DOMAIN gs
  BY InputsAssumption DEF Typed, Groups
<1>2. \A b \in DOMAIN gs[g].blocks : IsInjective(gs[g].blocks[b].eligible)
  BY InputsAssumption DEF Typed, Groups
<1>3. gs[g] \in S
  <2> HIDE DEF S, gs
  <2> QED BY <1>1
<1> DEFINE ms == gs[g].matrices
           bs == gs[g].blocks
<1>4. ms \in Seq(Nat \ {0}) /\ bs \in Seq(B)
  BY <1>3
<1> HIDE DEF gs, S, ms, bs, B, E
<1>5. /\ DOMAIN ms = 1 .. Len(ms) /\ Len(ms) \in Nat /\ DOMAIN bs = 1 .. Len(bs) /\ Len(bs) \in Nat
      /\ \A i \in DOMAIN ms : ms[i] \in Nat
      /\ \A b \in DOMAIN bs : bs[b] \in B
  BY <1>4
<1>6. ms = <<>> <=> DOMAIN ms = {}
  BY <1>4, <1>5, EmptySeq
<1>7. /\ IsFiniteSet(DOMAIN ms) /\ DOMAIN ms \subseteq Nat
      /\ IsFiniteSet(DOMAIN bs) /\ DOMAIN bs \subseteq Nat
  <2>1. IsFiniteSet(1 .. Len(ms)) /\ IsFiniteSet(1 .. Len(bs))
    BY <1>5, FS_Interval
  <2> QED
    BY <1>5, <2>1
<1>8. ASSUME NEW b \in DOMAIN bs
      PROVE  /\ bs[b].count \in Nat /\ bs[b].numel \in Nat
             /\ IsFiniteSet(DOMAIN bs[b].eligible) /\ DOMAIN bs[b].eligible \subseteq Nat
             /\ DOMAIN bs[b].eligible # {}
             /\ \A k \in DOMAIN bs[b].eligible : bs[b].eligible[k] \in Ranks
             /\ \A j, k \in DOMAIN bs[b].eligible : bs[b].eligible[j] = bs[b].eligible[k] => j = k
  <2> DEFINE e == bs[b].eligible
  <2>1. bs[b].count \in Nat /\ bs[b].numel \in Nat /\ e \in E
    BY <1>5 DEF B
  <2>2. \A j, k \in DOMAIN e : e[j] = e[k] => j = k
    BY <1>2 DEF IsInjective, bs
  <2> HIDE DEF e
  <2>3. e \in Seq(1 .. input.ranks) /\ e # <<>>
    BY <2>1 DEF E
  <2>4. /\ DOMAIN e = 1 .. Len(e) /\ Len(e) \in Nat
        /\ \A k \in DOMAIN e : e[k] \in 1 .. input.ranks
    <3> DEFINE R == 1 .. input.ranks
    <3>1. e \in Seq(R)
      BY <2>3
    <3> HIDE DEF R
    <3>2. DOMAIN e = 1 .. Len(e) /\ Len(e) \in Nat /\ \A k \in DOMAIN e : e[k] \in R
      BY <3>1
    <3> QED
      BY <3>2 DEF R
  <2>5. DOMAIN e # {}
    BY <2>3, <2>4, EmptySeq
  <2>6. IsFiniteSet(1 .. Len(e))
    BY <2>4, FS_Interval
  <2>7. IsFiniteSet(DOMAIN e) /\ DOMAIN e \subseteq Nat
    BY <2>4, <2>6
  <2> QED
    BY <2>1, <2>2, <2>4, <2>5, <2>7 DEF e, Ranks
<1> QED
  BY <1>5, <1>6, <1>7, <1>8 DEF ms, bs, gs

----------------------------------------------------------------------------
(* Least keys and loads. *)

\* The element with the least key, whichever of those comes first.
LEMMA FirstIsLeast ==
  ASSUME NEW S, IsFiniteSet(S), S # {}, S \subseteq Nat, NEW key, \A x \in S : key[x] \in Int
  PROVE  /\ First(S, key) \in S
         /\ \A y \in S : key[First(S, key)] <= key[y]
<1> DEFINE keys == [x \in S |-> <<key[x], x, 0, 0>>]
<1>1. \A x \in S : IsKey(keys[x])
  BY DEF IsKey
<1>2. PICK x \in LeastOf(S, keys) : TRUE
  <2> HIDE DEF keys
  <2> QED BY <1>1, SomeLeast
<1>3. x \in S /\ \A y \in S : \/ key[x] < key[y]
                              \/ key[x] = key[y] /\ x <= y
  BY <1>2 DEF LeastOf, Precedes
<1> DEFINE
      P(z) == \A y \in S :
                \/ key[z] < key[y]
                \/ key[z] = key[y] /\ z <= y
<1>4. First(S, key) = CHOOSE z \in S : P(z)
  BY DEF First
<1>5. \E z \in S : P(z)
  BY <1>3
<1>6. First(S, key) \in S /\ P(First(S, key))
  <2> HIDE DEF P
  <2> QED BY <1>4, <1>5
<1>7. key[First(S, key)] \in Int /\ \A y \in S : key[y] \in Int
  BY <1>6
<1> QED
  BY <1>6, <1>7

LEMMA LeastNumber ==
  ASSUME NEW S, IsFiniteSet(S), S # {}, S \subseteq Nat
  PROVE  Min(S) \in S /\ \A x \in S : Min(S) <= x
<1> DEFINE key == [x \in S |-> x]
           a == First(S, key)
           P(x) == \A y \in S : x <= y
<1>1. \A x \in S : key[x] \in Int
  OBVIOUS
<1>2. a \in S /\ P(a)
  <2> HIDE DEF key
  <2>1. a \in S /\ \A y \in S : key[a] <= key[y]
    BY <1>1, FirstIsLeast
  <2> QED
    BY <2>1 DEF key
<1>3. Min(S) = CHOOSE x \in S : P(x)
  BY DEF Min
<1> HIDE DEF P, a
<1>4. Min(S) \in S /\ P(Min(S))
  BY <1>2, <1>3
<1> QED
  BY <1>4 DEF P

LEMMA LoadTyped ==
  ASSUME NEW ms, IsFiniteSet(DOMAIN ms), \A i \in DOMAIN ms : ms[i] \in Nat, NEW so, NEW s
  PROVE  LoadIn(ms, so, s) \in Nat
<1> DEFINE S == {i \in DOMAIN ms : so[i] = s}
<1>1. IsFiniteSet(S) /\ \A i \in S : ms[i] \in Nat
  BY FS_Subset
<1> HIDE DEF S
<1>2. SumFunctionOnSet(ms, S) \in Nat
  BY <1>1, SumTyped
<1> QED
  BY <1>2 DEF LoadIn, S

\* A matrix adds to the load of its slot.
LEMMA SlotFills ==
  ASSUME NEW ms, IsFiniteSet(DOMAIN ms), \A i \in DOMAIN ms : ms[i] \in Nat,
         NEW so, NEW i \in DOMAIN ms, so[i] = 0, NEW z, z # 0,
         NEW so2, so2[i] = z, \A j \in DOMAIN ms \ {i} : so2[j] = so[j]
  PROVE  /\ LoadIn(ms, so2, z) = LoadIn(ms, so, z) + ms[i]
         /\ \A s : s # z /\ s # 0 => LoadIn(ms, so2, s) = LoadIn(ms, so, s)
<1> DEFINE S == {j \in DOMAIN ms : so[j] = z}
<1>1. {j \in DOMAIN ms : so2[j] = z} = S \cup {i}
  OBVIOUS
<1>2. IsFiniteSet(S) /\ i \notin S /\ \A j \in S \cup {i} : ms[j] \in Nat
  BY FS_Subset
<1>3. LoadIn(ms, so, z) = SumFunctionOnSet(ms, S) /\ LoadIn(ms, so2, z) = SumFunctionOnSet(ms, S \cup {i})
  BY <1>1 DEF LoadIn
<1>4. ASSUME NEW s, s # z, s # 0
      PROVE  LoadIn(ms, so2, s) = LoadIn(ms, so, s)
  <2>1. {j \in DOMAIN ms : so2[j] = s} = {j \in DOMAIN ms : so[j] = s}
    BY <1>4
  <2> QED
    BY <2>1 DEF LoadIn
<1> HIDE DEF S
<1>5. SumFunctionOnSet(ms, S \cup {i}) = SumFunctionOnSet(ms, S) + ms[i]
  BY <1>2, SumWith
<1> QED
  BY <1>3, <1>4, <1>5

\* Slots without ranks give nobody a matrix.
LEMMA NoneOwned ==
  ASSUME NEW ms, NEW so, NEW ro, \A i \in DOMAIN so : so[i] \in DOMAIN ro \cup {0},
         NonePlaced(ro), NEW r, r # 0
  PROVE  MatricesIn(ms, so, ro, r) = 0
<1>1. {i \in DOMAIN so : OwnerIn(so, ro, i) = r} = {}
  BY DEF OwnerIn, NonePlaced
<1> QED
  BY <1>1, SumOfNone DEF MatricesIn

\* A slot gives its matrices to the rank it goes to.
LEMMA SlotGoes ==
  ASSUME NEW ms, NEW so, DOMAIN so = DOMAIN ms, NEW ro, \A i \in DOMAIN so : so[i] \in DOMAIN ro \cup {0},
         0 \notin DOMAIN ro, NEW s \in DOMAIN ro, ro[s] = 0, NEW r, r # 0, \A t \in DOMAIN ro : ro[t] # r,
         NEW ro2, ro2[s] = r, \A t \in DOMAIN ro \ {s} : ro2[t] = ro[t]
  PROVE  /\ MatricesIn(ms, so, ro, r) = 0
         /\ MatricesIn(ms, so, ro2, r) = LoadIn(ms, so, s)
         /\ \A q : q # r /\ q # 0 => MatricesIn(ms, so, ro2, q) = MatricesIn(ms, so, ro, q)
<1>1. {i \in DOMAIN so : OwnerIn(so, ro, i) = r} = {}
  BY DEF OwnerIn
<1>2. {i \in DOMAIN so : OwnerIn(so, ro2, i) = r} = {i \in DOMAIN ms : so[i] = s}
  BY DEF OwnerIn
<1>3. ASSUME NEW q, q # r, q # 0
      PROVE  MatricesIn(ms, so, ro2, q) = MatricesIn(ms, so, ro, q)
  <2>1. {i \in DOMAIN so : OwnerIn(so, ro2, i) = q} = {i \in DOMAIN so : OwnerIn(so, ro, i) = q}
    BY <1>3 DEF OwnerIn
  <2> QED
    BY <2>1 DEF MatricesIn
<1>4. MatricesIn(ms, so, ro, r) = 0
  BY <1>1, SumOfNone DEF MatricesIn
<1>5. MatricesIn(ms, so, ro2, r) = LoadIn(ms, so, s)
  BY <1>2 DEF MatricesIn, LoadIn
<1> QED
  BY <1>3, <1>4, <1>5

----------------------------------------------------------------------------
(* Blocks. *)

LEMMA SumIsZero ==
  ASSUME NEW S, IsFiniteSet(S), NEW c, \A k \in S : c[k] \in Nat
  PROVE  SumFunctionOnSet(c, S) = 0 <=> \A k \in S : c[k] = 0
<1>1. (\A k \in S : c[k] = 0) => SumFunctionOnSet(c, S) = 0
  BY SumOfZeros
<1>2. ASSUME SumFunctionOnSet(c, S) = 0, NEW k \in S
      PROVE  c[k] = 0
  <2>1. SumFunctionOnSet(c, S) = SumFunctionOnSet(c, S \ {k}) + c[k]
    BY SumWithout
  <2>2. SumFunctionOnSet(c, S \ {k}) \in Nat
    <3> DEFINE T == S \ {k}
    <3>1. IsFiniteSet(T) /\ \A x \in T : c[x] \in Nat
      BY FS_RemoveElement
    <3> HIDE DEF T
    <3>2. SumFunctionOnSet(c, T) \in Nat
      BY <3>1, SumTyped
    <3> QED
      BY <3>2 DEF T
  <2>3. c[k] \in Nat
    OBVIOUS
  <2> QED
    BY <1>2, <2>1, <2>2, <2>3
<1> QED
  BY <1>1, <1>2

LEMMA GivenTyped ==
  ASSUME NEW c, IsFiniteSet(DOMAIN c), \A k \in DOMAIN c : c[k] \in Nat
  PROVE  /\ GivenIn(c) \in Nat
         /\ GivenIn(c) = 0 <=> \A k \in DOMAIN c : c[k] = 0
<1> DEFINE S == DOMAIN c
<1>1. IsFiniteSet(S) /\ \A k \in S : c[k] \in Nat
  OBVIOUS
<1> HIDE DEF S
<1>2. SumFunctionOnSet(c, S) \in Nat
  BY <1>1, SumTyped
<1>3. SumFunctionOnSet(c, S) = 0 <=> \A k \in S : c[k] = 0
  BY <1>1, SumIsZero
<1> QED
  BY <1>2, <1>3 DEF GivenIn, S

LEMMA GivenGrows ==
  ASSUME NEW c, IsFiniteSet(DOMAIN c), \A k \in DOMAIN c : c[k] \in Nat,
         NEW k \in DOMAIN c, NEW c2, DOMAIN c2 = DOMAIN c, c2[k] = c[k] + 1,
         \A j \in DOMAIN c \ {k} : c2[j] = c[j]
  PROVE  GivenIn(c2) = GivenIn(c) + 1
<1> DEFINE S == DOMAIN c
           d == 1
<1>1. d \in Nat /\ c2[k] = c[k] + d
  OBVIOUS
<1> HIDE DEF d
<1>2. SumFunctionOnSet(c2, S) = SumFunctionOnSet(c, S) + d
  BY <1>1, SumGrows
<1> QED
  BY <1>2 DEF GivenIn, d

\* A block weighs on the rank that gets it.
LEMMA BlocksGrow ==
  ASSUME NEW bl, bl.numel \in Nat, NEW c, IsFiniteSet(DOMAIN c), \A k \in DOMAIN c : c[k] \in Nat,
         NEW k \in DOMAIN c, NEW c2, DOMAIN c2 = DOMAIN c, c2[k] = c[k] + 1,
         \A j \in DOMAIN c \ {k} : c2[j] = c[j], NEW r
  PROVE  /\ BlocksIn(bl, c, r) \in Nat
         /\ BlocksIn(bl, c2, r) = BlocksIn(bl, c, r) + (IF bl.eligible[k] = r THEN bl.numel ELSE 0)
<1> DEFINE n == bl.numel
           S == DOMAIN c
           f == [j \in S |-> IF bl.eligible[j] = r THEN c[j] * n ELSE 0]
           f2 == [j \in S |-> IF bl.eligible[j] = r THEN c2[j] * n ELSE 0]
           d == IF bl.eligible[k] = r THEN n ELSE 0
<1>1. d \in Nat /\ \A j \in S : f[j] \in Nat
  OBVIOUS
<1>2. \A j \in S \ {k} : f2[j] = f[j]
  OBVIOUS
<1>3. f2[k] = f[k] + d
  OBVIOUS
<1>4. BlocksIn(bl, c, r) = SumFunctionOnSet(f, S) /\ BlocksIn(bl, c2, r) = SumFunctionOnSet(f2, S)
  BY DEF BlocksIn
<1> HIDE DEF f, f2, S, d
<1>5. IsFiniteSet(S) /\ k \in S
  BY DEF S
<1>6. SumFunctionOnSet(f2, S) = SumFunctionOnSet(f, S) + d
  BY <1>1, <1>2, <1>3, <1>5, SumGrows
<1>7. SumFunctionOnSet(f, S) \in Nat
  BY <1>1, <1>5, SumTyped
<1> QED
  BY <1>4, <1>6, <1>7 DEF d

LEMMA AllBlocksGrow ==
  ASSUME NEW bs, NEW cs, IsFiniteSet(DOMAIN cs), NEW r, \A b \in DOMAIN cs : BlocksIn(bs[b], cs[b], r) \in Nat,
         NEW b \in DOMAIN cs, NEW d \in Nat, NEW cs2, DOMAIN cs2 = DOMAIN cs,
         BlocksIn(bs[b], cs2[b], r) = BlocksIn(bs[b], cs[b], r) + d,
         \A a \in DOMAIN cs \ {b} : cs2[a] = cs[a]
  PROVE  AllBlocksIn(bs, cs2, r) = AllBlocksIn(bs, cs, r) + d
<1> DEFINE S == DOMAIN cs
           f == [a \in S |-> BlocksIn(bs[a], cs[a], r)]
           f2 == [a \in S |-> BlocksIn(bs[a], cs2[a], r)]
<1>1. /\ \A a \in S : f[a] \in Nat
      /\ f2[b] = f[b] + d /\ \A a \in S \ {b} : f2[a] = f[a]
  OBVIOUS
<1>2. AllBlocksIn(bs, cs, r) = SumFunctionOnSet(f, S) /\ AllBlocksIn(bs, cs2, r) = SumFunctionOnSet(f2, S)
  BY DEF AllBlocksIn
<1> HIDE DEF f, f2
<1>3. SumFunctionOnSet(f2, S) = SumFunctionOnSet(f, S) + d
  BY <1>1, SumGrows
<1> QED
  BY <1>2, <1>3

LEMMA BlocksTyped ==
  ASSUME NEW bl, bl.numel \in Nat, NEW c, IsFiniteSet(DOMAIN c), \A k \in DOMAIN c : c[k] \in Nat, NEW r
  PROVE  /\ BlocksIn(bl, c, r) \in Nat
         /\ (\A k \in DOMAIN c : c[k] = 0) => BlocksIn(bl, c, r) = 0
<1> DEFINE n == bl.numel
           f == [j \in DOMAIN c |-> IF bl.eligible[j] = r THEN c[j] * n ELSE 0]
<1>1. \A j \in DOMAIN c : f[j] \in Nat
  OBVIOUS
<1>2. (\A k \in DOMAIN c : c[k] = 0) => \A j \in DOMAIN c : f[j] = 0
  OBVIOUS
<1>3. BlocksIn(bl, c, r) = SumFunctionOnSet(f, DOMAIN c)
  BY DEF BlocksIn
<1> HIDE DEF f
<1>4. SumFunctionOnSet(f, DOMAIN c) \in Nat
  BY <1>1, SumTyped
<1>5. (\A j \in DOMAIN c : f[j] = 0) => SumFunctionOnSet(f, DOMAIN c) = 0
  BY SumOfZeros
<1> QED
  BY <1>2, <1>3, <1>4, <1>5

LEMMA AllBlocksTyped ==
  ASSUME NEW bs, NEW cs, IsFiniteSet(DOMAIN cs), NEW r, \A b \in DOMAIN cs : BlocksIn(bs[b], cs[b], r) \in Nat
  PROVE  /\ AllBlocksIn(bs, cs, r) \in Nat
         /\ (\A b \in DOMAIN cs : BlocksIn(bs[b], cs[b], r) = 0) => AllBlocksIn(bs, cs, r) = 0
<1> DEFINE f == [a \in DOMAIN cs |-> BlocksIn(bs[a], cs[a], r)]
<1>1. /\ \A a \in DOMAIN cs : f[a] \in Nat
      /\ (\A b \in DOMAIN cs : BlocksIn(bs[b], cs[b], r) = 0) => \A a \in DOMAIN cs : f[a] = 0
  OBVIOUS
<1>2. AllBlocksIn(bs, cs, r) = SumFunctionOnSet(f, DOMAIN cs)
  BY DEF AllBlocksIn
<1> HIDE DEF f
<1>3. SumFunctionOnSet(f, DOMAIN cs) \in Nat
  BY <1>1, SumTyped
<1>4. (\A a \in DOMAIN cs : f[a] = 0) => SumFunctionOnSet(f, DOMAIN cs) = 0
  BY SumOfZeros
<1> QED
  BY <1>1, <1>2, <1>3, <1>4

----------------------------------------------------------------------------
(* What the ranks hold. *)

LEMMA HeldGrows ==
  ASSUME NEW gs, IsFiniteSet(DOMAIN gs), NEW so, NEW ro, NEW cs, NEW r,
         \A h \in DOMAIN gs : HeldIn(gs[h], so[h], ro[h], cs[h], r) \in Nat,
         NEW g \in DOMAIN gs, NEW d \in Nat, NEW so2, NEW ro2, NEW cs2,
         \A h \in DOMAIN gs \ {g} : so2[h] = so[h] /\ ro2[h] = ro[h] /\ cs2[h] = cs[h],
         HeldIn(gs[g], so2[g], ro2[g], cs2[g], r) = HeldIn(gs[g], so[g], ro[g], cs[g], r) + d
  PROVE  HeldAll(gs, so2, ro2, cs2, r) = HeldAll(gs, so, ro, cs, r) + d
<1> DEFINE S == DOMAIN gs
           f == [h \in S |-> HeldIn(gs[h], so[h], ro[h], cs[h], r)]
           f2 == [h \in S |-> HeldIn(gs[h], so2[h], ro2[h], cs2[h], r)]
<1>1. /\ \A h \in S : f[h] \in Nat
      /\ f2[g] = f[g] + d /\ \A h \in S \ {g} : f2[h] = f[h]
  OBVIOUS
<1>2. HeldAll(gs, so, ro, cs, r) = SumFunctionOnSet(f, S) /\ HeldAll(gs, so2, ro2, cs2, r) = SumFunctionOnSet(f2, S)
  BY DEF HeldAll
<1> HIDE DEF f, f2
<1>3. SumFunctionOnSet(f2, S) = SumFunctionOnSet(f, S) + d
  BY <1>1, SumGrows
<1> QED
  BY <1>2, <1>3

LEMMA MatricesTyped ==
  ASSUME NEW ms, IsFiniteSet(DOMAIN ms), \A i \in DOMAIN ms : ms[i] \in Nat,
         NEW so, DOMAIN so = DOMAIN ms, NEW ro, NEW r
  PROVE  MatricesIn(ms, so, ro, r) \in Nat
<1> DEFINE S == {i \in DOMAIN so : OwnerIn(so, ro, i) = r}
<1>1. IsFiniteSet(S) /\ \A i \in S : ms[i] \in Nat
  BY FS_Subset
<1> HIDE DEF S
<1>2. SumFunctionOnSet(ms, S) \in Nat
  BY <1>1, SumTyped
<1> QED
  BY <1>2 DEF MatricesIn, S

\* A group that is not begun gives nobody anything.
LEMMA HeldTyped ==
  ASSUME Typed, NEW g \in DOMAIN Groups, NEW r \in Ranks
  PROVE  /\ MatricesIn(Groups[g].matrices, slotOf[g], rankOf[g], r) \in Nat
         /\ \A b \in DOMAIN counts[g] : BlocksIn(Groups[g].blocks[b], counts[g][b], r) \in Nat
         /\ AllBlocksIn(Groups[g].blocks, counts[g], r) \in Nat
         /\ HeldIn(Groups[g], slotOf[g], rankOf[g], counts[g], r) \in Nat
         /\ NoneLoaded(slotOf[g]) /\ NonePlaced(rankOf[g]) /\ NoneGiven(counts[g]) =>
              HeldIn(Groups[g], slotOf[g], rankOf[g], counts[g], r) = 0
<1> DEFINE ms == Groups[g].matrices  bs == Groups[g].blocks
           so == slotOf[g]  ro == rankOf[g]  cs == counts[g]
<1>1. /\ DOMAIN so = DOMAIN ms /\ DOMAIN cs = DOMAIN bs
      /\ \A i \in DOMAIN so : so[i] \in DOMAIN ro \cup {0}
      /\ \A b \in DOMAIN cs : cs[b] \in [DOMAIN bs[b].eligible -> Nat]
  BY DEF Typed
<1>2. r # 0
  BY RanksTyped
<1>3. /\ IsFiniteSet(DOMAIN ms) /\ \A i \in DOMAIN ms : ms[i] \in Nat
      /\ IsFiniteSet(DOMAIN bs) /\ \A b \in DOMAIN bs : bs[b].numel \in Nat /\ IsFiniteSet(DOMAIN bs[b].eligible)
  BY GroupTyped
<1> HIDE DEF ms, bs, so, ro, cs
<1>4. MatricesIn(ms, so, ro, r) \in Nat
  BY <1>1, <1>3, MatricesTyped
<1>5. NonePlaced(ro) => MatricesIn(ms, so, ro, r) = 0
  BY <1>1, <1>2, NoneOwned
<1>6. ASSUME NEW b \in DOMAIN cs
      PROVE  /\ BlocksIn(bs[b], cs[b], r) \in Nat
             /\ (\A k \in DOMAIN cs[b] : cs[b][k] = 0) => BlocksIn(bs[b], cs[b], r) = 0
  <2>1. bs[b].numel \in Nat /\ IsFiniteSet(DOMAIN cs[b]) /\ \A k \in DOMAIN cs[b] : cs[b][k] \in Nat
    BY <1>1, <1>3
  <2> QED
    BY <2>1, BlocksTyped
<1>7. /\ AllBlocksIn(bs, cs, r) \in Nat
      /\ NoneGiven(cs) => AllBlocksIn(bs, cs, r) = 0
  <2>1. IsFiniteSet(DOMAIN cs)
    BY <1>1, <1>3
  <2>2. /\ AllBlocksIn(bs, cs, r) \in Nat
        /\ (\A b \in DOMAIN cs : BlocksIn(bs[b], cs[b], r) = 0) => AllBlocksIn(bs, cs, r) = 0
    BY <1>6, <2>1, AllBlocksTyped
  <2>3. NoneGiven(cs) => \A b \in DOMAIN cs : BlocksIn(bs[b], cs[b], r) = 0
    BY <1>6 DEF NoneGiven
  <2> QED
    BY <2>2, <2>3
<1>8. HeldIn(Groups[g], so, ro, cs, r) = MatricesIn(ms, so, ro, r) + AllBlocksIn(bs, cs, r)
  BY DEF HeldIn, ms, bs
<1> QED
  BY <1>4, <1>5, <1>6, <1>7, <1>8 DEF ms, bs, so, ro, cs

LEMMA HeldIs ==
  \A r : Held(r) = HeldAll(Groups, slotOf, rankOf, counts, r)
BY DEF Held, HeldOf, MatricesOf, BlocksOf, Owner, HeldAll, HeldIn, MatricesIn, AllBlocksIn, BlocksIn, OwnerIn, Groups

\* Before a group is begun its slots are empty and its blocks with nobody.
LEMMA NothingLevel ==
  ASSUME Typed, Now => NoneLoaded(Slots)
  PROVE  SlotsLevel
<1> SUFFICES ASSUME Now, NEW s \in Ranks, NEW t \in Ranks
             PROVE  WithinOne(LoadIn(Group.matrices, Slots, s) - LoadIn(Group.matrices, Slots, t), Range(Group.matrices))
  BY DEF SlotsLevel
<1>1. group \in DOMAIN Groups /\ 0 \notin Ranks
  BY RanksTyped
<1>2. DOMAIN Slots = DOMAIN Group.matrices
  BY <1>1 DEF Typed, Slots, Group, Groups
<1>3. \A x \in Ranks : {i \in DOMAIN Group.matrices : Slots[i] = x} = {}
  BY <1>1, <1>2 DEF NoneLoaded
<1>4. \A x \in Ranks : LoadIn(Group.matrices, Slots, x) = 0
  BY <1>3, SumOfNone DEF LoadIn
<1> QED
  BY <1>4 DEF WithinOne

LEMMA NothingBegun ==
  ASSUME Typed, Now => NoneGiven(Given)
  PROVE  BlocksInOrder
<1> SUFFICES ASSUME Now, NEW b \in DOMAIN Group.blocks PROVE GivenIn(Given[b]) = 0
  BY DEF BlocksInOrder
<1>1. group \in DOMAIN Groups
  BY RanksTyped
<1>2. DOMAIN Given = DOMAIN Group.blocks /\ Given[b] \in [DOMAIN Group.blocks[b].eligible -> Nat]
  BY <1>1 DEF Typed, Given, Group, Groups
<1>3. IsFiniteSet(DOMAIN Group.blocks[b].eligible)
  BY <1>1, GroupTyped DEF Group, Groups
<1>4. IsFiniteSet(DOMAIN Given[b]) /\ \A k \in DOMAIN Given[b] : Given[b][k] \in Nat /\ Given[b][k] = 0
  BY <1>2, <1>3 DEF NoneGiven
<1> QED
  BY <1>4, GivenTyped

\* Nothing is held at first.
LEMMA InitIInv ==
  Init => IInv
<1> SUFFICES ASSUME Init PROVE IInv
  OBVIOUS
<1>1. input \in Inputs /\ group = 1 /\ phase = "matrices"
  BY DEF Init
<1>2. /\ slotOf = [g \in DOMAIN Groups |-> Zeros(DOMAIN Groups[g].matrices)]
      /\ rankOf = [g \in DOMAIN Groups |-> Zeros(Ranks)]
      /\ counts = [g \in DOMAIN Groups |->
                     [b \in DOMAIN Groups[g].blocks |-> Zeros(DOMAIN Groups[g].blocks[b].eligible)]]
      /\ tally = NewTally(Hosts, Zeros(Ranks))
  BY DEF Init, Groups, Ranks
<1>3. /\ DOMAIN Hosts = Ranks /\ Hosts \in Seq(Nat) /\ Ranks \subseteq Nat /\ 0 \notin Ranks
      /\ Len(Groups) \in Nat /\ DOMAIN Groups = 1 .. Len(Groups)
  BY <1>1, InputTyped
<1>4. /\ IsTally(tally, Hosts) /\ tally.taken = {}
      /\ \A r \in Ranks : tally.primary[r] = 0 /\ tally.carried[r] = 0
  <2>1. Zeros(Ranks) \in [Ranks -> Nat] /\ \A r \in Ranks : Zeros(Ranks)[r] = 0
    BY DEF Zeros
  <2> DEFINE none == Zeros(Ranks)
  <2>2. none \in [DOMAIN Hosts -> Nat]
    BY <1>3, <2>1
  <2> HIDE DEF none
  <2>3. tally = NewTally(Hosts, none)
    BY <1>2 DEF none
  <2>4. /\ IsTally(tally, Hosts) /\ tally.taken = {} /\ tally.carried = none
        /\ \A r \in Ranks : tally.primary[r] = 0
    BY <1>3, <2>2, <2>3, NewTallyIsEmpty
  <2> QED
    BY <2>1, <2>4 DEF none
<1>5. \A g \in DOMAIN Groups :
        /\ slotOf[g] \in [DOMAIN Groups[g].matrices -> Ranks \cup {0}]
        /\ rankOf[g] \in [Ranks -> Ranks \cup {0}]
        /\ DOMAIN counts[g] = DOMAIN Groups[g].blocks
        /\ \A b \in DOMAIN counts[g] : counts[g][b] \in [DOMAIN Groups[g].blocks[b].eligible -> Nat]
        /\ NoneLoaded(slotOf[g]) /\ NonePlaced(rankOf[g]) /\ NoneGiven(counts[g])
  BY <1>2 DEF Zeros, NoneLoaded, NonePlaced, NoneGiven
<1>6. Typed
  <2>1. group \in 1 .. Len(Groups) + 1
    BY <1>1, <1>3
  <2>2. /\ DOMAIN slotOf = DOMAIN Groups /\ DOMAIN rankOf = DOMAIN Groups /\ DOMAIN counts = DOMAIN Groups
        /\ tally.taken \subseteq Ranks
    BY <1>2, <1>4
  <2>3. phase \in {"matrices", "slots", "blocks"} /\ (phase = "matrices" \/ Now)
    BY <1>1
  <2> QED
    BY <1>1, <1>4, <1>5, <2>1, <2>2, <2>3 DEF Typed
<1>7. Now <=> group \in DOMAIN Groups
  BY <1>6, RanksTyped
<1>8. ASSUME NEW r \in Ranks
      PROVE  HeldAll(Groups, slotOf, rankOf, counts, r) = 0
  <2> DEFINE f == [g \in DOMAIN Groups |-> HeldIn(Groups[g], slotOf[g], rankOf[g], counts[g], r)]
  <2>1. \A g \in DOMAIN Groups : f[g] = 0
    BY <1>5, <1>6, HeldTyped
  <2>2. IsFiniteSet(DOMAIN Groups)
    BY <1>3, FS_Interval
  <2>3. HeldAll(Groups, slotOf, rankOf, counts, r) = SumFunctionOnSet(f, DOMAIN Groups)
    BY DEF HeldAll
  <2> HIDE DEF f
  <2> QED
    BY <2>1, <2>2, <2>3, SumOfZeros
<1>9. Counted
  BY <1>4, <1>8 DEF Counted
<1>10. Progress /\ SlotsTallied /\ SlotsSorted /\ LastLevel
  BY <1>1, <1>3, <1>4, <1>5, <1>7 DEF Progress, SlotsTallied, SlotsSorted, LastLevel, SlotRanks, Given
<1>11. SlotsLevel
  BY <1>5, <1>6, <1>7, NothingLevel DEF Slots
<1>12. Level
  BY <1>1, <1>4 DEF Level, WithinOne
<1>13. BlocksInOrder
  BY <1>5, <1>6, <1>7, NothingBegun DEF Given
<1> QED
  BY <1>6, <1>9, <1>10, <1>11, <1>12, <1>13 DEF IInv

----------------------------------------------------------------------------
(* The steps. *)

\* The group being assigned.
LEMMA GroupNow ==
  ASSUME Typed, group \in DOMAIN Groups
  PROVE  /\ IsFiniteSet(DOMAIN Group.matrices) /\ DOMAIN Group.matrices \subseteq Nat
         /\ \A i \in DOMAIN Group.matrices : Group.matrices[i] \in Nat
         /\ Slots \in [DOMAIN Group.matrices -> Ranks \cup {0}]
         /\ SlotRanks \in [Ranks -> Ranks \cup {0}]
         /\ \A s : SlotLoad(group, s) = LoadIn(Group.matrices, Slots, s)
         /\ \A s : LoadIn(Group.matrices, Slots, s) \in Nat
         /\ Loose = {i \in DOMAIN Group.matrices : Slots[i] = 0}
         /\ Unplaced = {s \in Ranks : SlotRanks[s] = 0}
<1>1. /\ IsFiniteSet(DOMAIN Group.matrices) /\ DOMAIN Group.matrices \subseteq Nat
      /\ \A i \in DOMAIN Group.matrices : Group.matrices[i] \in Nat
  BY GroupTyped DEF Group, Groups
<1>2. Slots \in [DOMAIN Group.matrices -> Ranks \cup {0}] /\ SlotRanks \in [Ranks -> Ranks \cup {0}]
  BY DEF Typed, Slots, SlotRanks, Group, Groups
<1>3. \A s : SlotLoad(group, s) = LoadIn(Group.matrices, Slots, s)
  BY DEF SlotLoad, LoadIn, Slots, Group
<1>4. \A s : LoadIn(Group.matrices, Slots, s) \in Nat
  BY <1>1, LoadTyped
<1> QED
  BY <1>1, <1>2, <1>3, <1>4 DEF Loose, Unplaced, Slots, SlotRanks

\* A matrix goes to the slot with the least.
LEMMA FillSlotKeeps ==
  ASSUME IInv, FillSlot
  PROVE  IInv'
<1> DEFINE ms == Group.matrices
           i == LargestLoose
           z == EmptiestSlot
           so2 == Slots'
<1>1. Typed /\ Counted /\ Progress /\ SlotsTallied /\ SlotsLevel /\ Level /\ BlocksInOrder
  BY DEF IInv
<1>2. Now /\ phase = "matrices" /\ Loose # {}
  BY DEF FillSlot, Now, Groups
<1>3. UNCHANGED <<input, group, phase, rankOf, counts, tally>>
  BY DEF FillSlot
<1>4. group \in DOMAIN Groups /\ IsFiniteSet(Ranks) /\ Ranks # {} /\ Ranks \subseteq Nat /\ 0 \notin Ranks
      /\ DOMAIN Groups = 1 .. Len(Groups) /\ Len(Groups) \in Nat
  BY <1>1, <1>2, RanksTyped
<1>5. /\ IsFiniteSet(DOMAIN ms) /\ DOMAIN ms \subseteq Nat /\ \A j \in DOMAIN ms : ms[j] \in Nat
      /\ Slots \in [DOMAIN ms -> Ranks \cup {0}]
      /\ \A s : SlotLoad(group, s) = LoadIn(ms, Slots, s) /\ LoadIn(ms, Slots, s) \in Nat
      /\ Loose = {j \in DOMAIN ms : Slots[j] = 0}
  BY <1>1, <1>4, GroupNow
<1>6. i \in DOMAIN ms /\ Slots[i] = 0
  <2> DEFINE key == [j \in Loose |-> -ms[j]]
  <2>1. IsFiniteSet(Loose) /\ Loose \subseteq Nat
    BY <1>5, FS_Subset
  <2>2. \A j \in Loose : key[j] \in Int
    BY <1>5
  <2>3. i = First(Loose, key)
    BY DEF LargestLoose
  <2> HIDE DEF key, i
  <2>4. i \in Loose
    BY <1>2, <2>1, <2>2, <2>3, FirstIsLeast
  <2> QED
    BY <1>5, <2>4
<1>7. z \in Ranks /\ \A s \in Ranks : LoadIn(ms, Slots, z) <= LoadIn(ms, Slots, s)
  <2> DEFINE key == [s \in Ranks |-> SlotLoad(group, s)]
  <2>1. \A s \in Ranks : key[s] = LoadIn(ms, Slots, s) /\ key[s] \in Int
    BY <1>5
  <2>2. z = First(Ranks, key)
    BY DEF EmptiestSlot
  <2> HIDE DEF key, z, ms
  <2>3. z \in Ranks /\ \A s \in Ranks : key[z] <= key[s]
    BY <1>4, <2>1, <2>2, FirstIsLeast
  <2> QED
    BY <2>1, <2>3
<1>8. slotOf' = [slotOf EXCEPT ![group][i] = z]
  BY DEF FillSlot
<1> HIDE DEF i, z
<1>9. /\ DOMAIN slotOf' = DOMAIN Groups /\ \A g \in DOMAIN Groups \ {group} : slotOf'[g] = slotOf[g]
      /\ so2 \in [DOMAIN ms -> Ranks \cup {0}] /\ so2[i] = z /\ \A j \in DOMAIN ms \ {i} : so2[j] = Slots[j]
  <2>1. DOMAIN slotOf = DOMAIN Groups
    BY <1>1 DEF Typed
  <2>2. so2 = [Slots EXCEPT ![i] = z]
    BY <1>3, <1>4, <1>8, <2>1 DEF Slots
  <2>3. so2 \in [DOMAIN ms -> Ranks \cup {0}] /\ so2[i] = z /\ \A j \in DOMAIN ms \ {i} : so2[j] = Slots[j]
    BY <1>5, <1>6, <1>7, <2>2
  <2> QED
    BY <1>3, <1>4, <1>8, <2>1, <2>3
<1>10. Typed'
  <2>1. \A g \in DOMAIN Groups : slotOf'[g] \in [DOMAIN Groups[g].matrices -> Ranks \cup {0}]
    <3>1. so2 = slotOf'[group] /\ ms = Groups[group].matrices
      BY <1>3 DEF Slots, Group, Groups
    <3> QED
      BY <1>1, <1>9, <3>1 DEF Typed
  <2>2. Ranks' = Ranks /\ Groups' = Groups /\ Hosts' = Hosts /\ Now' = Now
    BY <1>3 DEF Ranks, Groups, Hosts, Now
  <2> QED
    BY <1>1, <1>3, <1>9, <2>1, <2>2 DEF Typed
<1>11. Counted'
  <2> SUFFICES ASSUME NEW r \in Ranks
               PROVE  tally.carried[r] + tally.primary[r] = HeldAll(Groups, slotOf', rankOf, counts, r)
    BY <1>3 DEF Counted, Groups, Ranks
  <2> DEFINE d == 0
             gr == Groups[group]
  <2>1. NonePlaced(SlotRanks) /\ ms = gr.matrices /\ SlotRanks = rankOf[group] /\ Slots = slotOf[group]
        /\ so2 = slotOf'[group] /\ DOMAIN SlotRanks = Ranks
    BY <1>1, <1>2, <1>3, <1>4, GroupNow DEF Progress, SlotRanks, Slots, Groups, Group
  <2>2. /\ MatricesIn(gr.matrices, slotOf[group], rankOf[group], r) = 0
        /\ MatricesIn(gr.matrices, slotOf'[group], rankOf[group], r) = 0
    <3>1. \A j \in DOMAIN Slots : Slots[j] \in DOMAIN SlotRanks \cup {0}
      BY <1>5, <2>1
    <3>2. \A j \in DOMAIN so2 : so2[j] \in DOMAIN SlotRanks \cup {0}
      BY <1>9, <2>1
    <3> HIDE DEF gr, so2, ms
    <3>3. r # 0
      BY <1>4
    <3> QED
      BY <2>1, <3>1, <3>2, <3>3, NoneOwned
  <2>3. HeldIn(gr, slotOf'[group], rankOf[group], counts[group], r)
          = HeldIn(gr, slotOf[group], rankOf[group], counts[group], r) + d
    <3>1. HeldIn(gr, slotOf[group], rankOf[group], counts[group], r) \in Nat
      BY <1>1, <1>4, HeldTyped
    <3> QED
      BY <2>2, <3>1 DEF HeldIn
  <2>4. \A h \in DOMAIN Groups : HeldIn(Groups[h], slotOf[h], rankOf[h], counts[h], r) \in Nat
    BY <1>1, HeldTyped
  <2>5. IsFiniteSet(DOMAIN Groups) /\ d \in Nat
    BY <1>4, FS_Interval
  <2>6. \A h \in DOMAIN Groups \ {group} : slotOf'[h] = slotOf[h] /\ rankOf[h] = rankOf[h] /\ counts[h] = counts[h]
    BY <1>9
  <2> HIDE DEF d, gr
  <2>7. HeldAll(Groups, slotOf', rankOf, counts, r) = HeldAll(Groups, slotOf, rankOf, counts, r) + d
    <3> DEFINE g == group
    <3>1. /\ g \in DOMAIN Groups
          /\ \A h \in DOMAIN Groups \ {g} : slotOf'[h] = slotOf[h] /\ rankOf[h] = rankOf[h] /\ counts[h] = counts[h]
          /\ HeldIn(Groups[g], slotOf'[g], rankOf[g], counts[g], r)
               = HeldIn(Groups[g], slotOf[g], rankOf[g], counts[g], r) + d
      BY <1>4, <2>3, <2>6 DEF gr
    <3> HIDE DEF g
    <3> QED
      BY <2>4, <2>5, <3>1, HeldGrows
  <2>8. IsTally(tally, Hosts) /\ DOMAIN Hosts = Ranks
    BY <1>1, RanksTyped DEF Typed
  <2>9. tally.carried[r] + tally.primary[r] \in Nat
    BY <2>8 DEF IsTally
  <2> QED
    BY <1>1, <2>7, <2>9 DEF Counted, d
<1>12. Progress'
  <2>1. \A g \in DOMAIN Groups : g > group => g \in DOMAIN Groups \ {group}
    BY <1>4
  <2> QED
    BY <1>1, <1>2, <1>3, <1>9, <2>1 DEF Progress, Groups, Now, Given, SlotRanks
<1>13. SlotsTallied' /\ SlotsSorted' /\ LastLevel'
  BY <1>1, <1>2, <1>3 DEF SlotsTallied, SlotsSorted, LastLevel, Ranks
<1>14. SlotsLevel'
  <2>1. /\ LoadIn(ms, so2, z) = LoadIn(ms, Slots, z) + ms[i]
        /\ \A s : s # z /\ s # 0 => LoadIn(ms, so2, s) = LoadIn(ms, Slots, s)
    <3>1. z # 0
      BY <1>4, <1>7
    <3> HIDE DEF ms, so2
    <3> QED
      BY <1>5, <1>6, <1>9, <3>1, SlotFills
  <2>2. ms[i] \in Nat /\ ms[i] \in Range(ms)
    BY <1>5, <1>6 DEF Range
  <2> SUFFICES ASSUME NEW s \in Ranks, NEW t \in Ranks
               PROVE  WithinOne(LoadIn(ms, so2, s) - LoadIn(ms, so2, t), Range(ms))
    <3>1. Group' = Group /\ Ranks' = Ranks
      BY <1>3 DEF Group, Ranks
    <3> QED
      BY <3>1 DEF SlotsLevel
  <2> DEFINE a(x) == LoadIn(ms, Slots, x)
             b(x) == LoadIn(ms, so2, x)
  <2>3. \A x \in Ranks : a(x) \in Nat /\ a(z) <= a(x) /\ b(x) = (IF x = z THEN a(x) + ms[i] ELSE a(x))
    BY <1>4, <1>5, <1>7, <2>1
  <2>4. WithinOne(a(s) - a(t), Range(ms))
    BY <1>1, <1>2 DEF SlotsLevel
  <2> DEFINE m == ms[i]
             R == Range(ms)
  <2>5. R \subseteq Nat
    BY <1>5 DEF Range
  <2> HIDE DEF a, b, m, R, ms, so2
  <2>6. CASE s = z
    <3>1. b(s) - b(t) <= m
      BY <2>2, <2>3, <2>6 DEF m
    <3> QED
      BY <2>2, <3>1 DEF WithinOne, m, R, b
  <2>7. CASE s # z
    <3>1. b(s) - b(t) <= a(s) - a(t)
      BY <2>2, <2>3, <2>7 DEF m
    <3>2. a(s) - a(t) \in Int /\ b(s) - b(t) \in Int
      BY <2>2, <2>3 DEF m
    <3>3. WithinOne(b(s) - b(t), R)
      BY <2>4, <2>5, <3>1, <3>2 DEF WithinOne, R
    <3> QED
      BY <3>3 DEF R, b
  <2> QED
    BY <2>6, <2>7
<1>15. Level'
  BY <1>1, <1>3 DEF Level, AnyRank, Ranks, Groups
<1>16. BlocksInOrder'
  BY <1>1, <1>3 DEF BlocksInOrder, Now, Groups, Group, Given, Unfinished, GivenBlocks
<1> QED
  BY <1>10, <1>11, <1>12, <1>13, <1>14, <1>15, <1>16 DEF IInv

\* The next call starts from what this one left.
LEMMA TotalsCarried ==
  ASSUME Typed, tally' = NewTally(Hosts, Totals)
  PROVE  /\ IsTally(tally', Hosts) /\ tally'.taken = {}
         /\ \A r \in Ranks : /\ tally'.primary[r] = 0
                             /\ tally'.carried[r] = tally.carried[r] + tally.primary[r]
                             /\ tally.carried[r] \in Nat /\ tally.primary[r] \in Nat
<1> DEFINE carried == Totals
<1>1. Hosts \in Seq(Nat) /\ DOMAIN Hosts = Ranks /\ IsTally(tally, Hosts)
  BY RanksTyped DEF Typed
<1>2. \A r \in Ranks : tally.carried[r] \in Nat /\ tally.primary[r] \in Nat
  BY <1>1 DEF IsTally
<1>3. carried \in [DOMAIN Hosts -> Nat] /\ \A r \in Ranks : carried[r] = tally.carried[r] + tally.primary[r]
  BY <1>1, <1>2 DEF Totals, Total
<1>4. tally' = NewTally(Hosts, carried)
  OBVIOUS
<1> HIDE DEF carried
<1>5. /\ IsTally(tally', Hosts) /\ tally'.taken = {} /\ tally'.carried = carried
      /\ \A r \in Ranks : tally'.primary[r] = 0
  BY <1>1, <1>3, <1>4, NewTallyIsEmpty
<1> QED
  BY <1>2, <1>3, <1>5

LEMMA SizesTyped ==
  ASSUME Typed
  PROVE  \A g \in DOMAIN Groups : SizesOf(Groups[g]) \subseteq Nat
<1> SUFFICES ASSUME NEW g \in DOMAIN Groups PROVE SizesOf(Groups[g]) \subseteq Nat
  OBVIOUS
<1>1. /\ \A k \in DOMAIN Groups[g].matrices : Groups[g].matrices[k] \in Nat
      /\ \A k \in DOMAIN Groups[g].blocks : Groups[g].blocks[k].numel \in Nat
  BY GroupTyped
<1> QED
  BY <1>1 DEF SizesOf, Range

LEMMA SizesGrow ==
  ASSUME Typed, group \in DOMAIN Groups
  PROVE  /\ SizesTo(Groups, group) \subseteq SizesTo(Groups, group + 1)
         /\ SizesOf(Groups[group]) \subseteq SizesTo(Groups, group + 1)
<1>1. group \in Nat /\ DOMAIN Groups \subseteq Nat
  BY RanksTyped
<1>2. \A h \in DOMAIN Groups : h < group => h < group + 1
  BY <1>1
<1>3. group < group + 1
  BY <1>1
<1>4. group \in {h \in DOMAIN Groups : h < group + 1}
  BY <1>3
<1>5. {h \in DOMAIN Groups : h < group} \subseteq {h \in DOMAIN Groups : h < group + 1}
  BY <1>2
<1> DEFINE A == {h \in DOMAIN Groups : h < group}
           B == {h \in DOMAIN Groups : h < group + 1}
<1>6. SizesTo(Groups, group) = UNION {SizesOf(Groups[g]) : g \in A}
      /\ SizesTo(Groups, group + 1) = UNION {SizesOf(Groups[g]) : g \in B}
  BY DEF SizesTo
<1> HIDE DEF A, B
<1> QED
  BY <1>4, <1>5, <1>6 DEF A, B

\* Where blocks start, nobody has one.
LEMMA NoLast ==
  ASSUME Typed, Now => NoneGiven(Given)
  PROVE  LastLevel
<1> SUFFICES ASSUME phase = "blocks", NEW b \in DOMAIN Group.blocks,
                    NEW j \in DOMAIN Group.blocks[b].eligible, Given[b][j] > 0
             PROVE  FALSE
  BY DEF LastLevel
<1>1. group \in DOMAIN Groups /\ Now
  BY RanksTyped DEF Typed
<1>2. DOMAIN Given = DOMAIN Group.blocks /\ Given[b] \in [DOMAIN Group.blocks[b].eligible -> Nat]
  BY <1>1 DEF Typed, Given, Group, Groups
<1> QED
  BY <1>1, <1>2 DEF NoneGiven

LEMMA SlotsFullKeeps ==
  ASSUME IInv, SlotsFull
  PROVE  IInv'
<1>1. Typed /\ Counted /\ Progress /\ SlotsTallied /\ SlotsLevel /\ Level /\ BlocksInOrder
  BY DEF IInv
<1>2. Now /\ phase = "matrices" /\ Loose = {}
  BY DEF SlotsFull, Now, Groups
<1>3. /\ UNCHANGED <<input, group, slotOf, rankOf, counts>>
      /\ phase' = IF Group.matrices = <<>> THEN "blocks" ELSE "slots"
  BY DEF SlotsFull
<1>4. /\ IsTally(tally', Hosts) /\ tally'.taken = {}
      /\ \A r \in Ranks : /\ tally'.primary[r] = 0 /\ tally'.carried[r] = tally.carried[r] + tally.primary[r]
                          /\ tally.carried[r] \in Nat /\ tally.primary[r] \in Nat
  BY <1>1, TotalsCarried DEF SlotsFull
<1>5. \A r \in Ranks : tally.primary[r] = 0 /\ tally'.carried[r] = tally.carried[r]
  BY <1>1, <1>2, <1>4 DEF SlotsTallied
<1>6. Ranks' = Ranks /\ Groups' = Groups /\ Hosts' = Hosts /\ Now' = Now /\ Group' = Group /\ Slots' = Slots
      /\ SlotRanks' = SlotRanks /\ Given' = Given /\ Loose' = Loose /\ Unplaced' = Unplaced
  BY <1>3 DEF Ranks, Groups, Hosts, Now, Group, Slots, SlotRanks, Given, Loose, Unplaced
<1>7. Typed'
  BY <1>1, <1>2, <1>3, <1>4, <1>6 DEF Typed
<1>8. Counted'
  BY <1>1, <1>3, <1>4, <1>5, <1>6 DEF Counted
<1>9. Progress'
  BY <1>1, <1>2, <1>3, <1>6 DEF Progress
<1>10. Unplaced = Ranks
  <2>1. SlotRanks \in [Ranks -> Ranks \cup {0}] /\ Unplaced = {s \in Ranks : SlotRanks[s] = 0}
    BY <1>1, <1>2, RanksTyped, GroupNow
  <2> QED
    BY <1>1, <1>2, <2>1 DEF Progress, NonePlaced
<1>11. Placed' = {}
  BY <1>6, <1>10 DEF Placed
<1>12. SlotsTallied' /\ SlotsSorted'
  BY <1>4, <1>6, <1>11 DEF SlotsTallied, SlotsSorted
<1>13. SlotsLevel'
  BY <1>1, <1>6 DEF SlotsLevel
<1>14. Level'
  <2>1. AnyRank' = AnyRank
    BY <1>3, <1>6 DEF AnyRank
  <2>2. SizesTo(Groups, group) \subseteq SizesTo(Groups, group + 1)
    BY <1>1, RanksTyped DEF SizesTo
  <2> SUFFICES ASSUME input.hosts = <<>>, AnyRank, NEW q \in Ranks, NEW r \in Ranks
               PROVE  /\ WithinOne(tally'.carried[q] - tally'.carried[r], SizesTo(Groups, group))
                      /\ WithinOne(tally'.carried[q] - tally'.carried[r], SizesTo(Groups, group + 1))
    BY <1>3, <1>6, <2>1 DEF Level
  <2>3. WithinOne(tally.carried[q] - tally.carried[r], SizesTo(Groups, group))
    BY <1>1, <1>2 DEF Level
  <2> QED
    BY <1>5, <2>2, <2>3 DEF WithinOne
<1>15. BlocksInOrder'
  BY <1>1, <1>3 DEF BlocksInOrder, Now, Groups, Group, Given, Unfinished, GivenBlocks
<1>16. LastLevel'
  <2>1. (Now => NoneGiven(Given))'
    BY <1>1, <1>2, <1>6 DEF Progress
  <2>2. (Typed /\ (Now => NoneGiven(Given)) => LastLevel)'
    BY NoLast, PTL
  <2> QED
    BY <1>7, <2>1, <2>2
<1> QED
  BY <1>7, <1>8, <1>9, <1>12, <1>13, <1>14, <1>15, <1>16 DEF IInv

LEMMA SlotsPlacedKeeps ==
  ASSUME IInv, SlotsPlaced
  PROVE  IInv'
<1>1. Typed /\ Counted /\ Progress /\ SlotsTallied /\ SlotsLevel /\ SlotsSorted /\ Level /\ BlocksInOrder
  BY DEF IInv
<1>2. Now /\ phase = "slots" /\ Unplaced = {} /\ Loose = {}
  BY <1>1 DEF SlotsPlaced, Typed, Progress
<1>3. UNCHANGED <<input, group, slotOf, rankOf, counts>> /\ phase' = "blocks"
  BY DEF SlotsPlaced
<1>4. /\ IsTally(tally', Hosts) /\ tally'.taken = {}
      /\ \A r \in Ranks : /\ tally'.primary[r] = 0 /\ tally'.carried[r] = tally.carried[r] + tally.primary[r]
                          /\ tally.carried[r] \in Nat /\ tally.primary[r] \in Nat
  BY <1>1, TotalsCarried DEF SlotsPlaced
<1>5. group \in DOMAIN Groups /\ IsFiniteSet(Ranks) /\ group \in Nat
  BY <1>1, <1>2, RanksTyped
<1>6. Ranks' = Ranks /\ Groups' = Groups /\ Hosts' = Hosts /\ Now' = Now /\ Group' = Group /\ Slots' = Slots
      /\ SlotRanks' = SlotRanks /\ Given' = Given /\ Loose' = Loose /\ Unplaced' = Unplaced
  BY <1>3 DEF Ranks, Groups, Hosts, Now, Group, Slots, SlotRanks, Given, Loose, Unplaced
<1>7. Typed'
  BY <1>1, <1>2, <1>3, <1>4, <1>6 DEF Typed
<1>8. Counted'
  BY <1>1, <1>3, <1>4, <1>6 DEF Counted
<1>9. Progress'
  BY <1>1, <1>2, <1>3, <1>6 DEF Progress
<1>10. SlotsTallied' /\ SlotsSorted'
  BY <1>3, <1>4, <1>6 DEF SlotsTallied, SlotsSorted
<1>11. SlotsLevel'
  BY <1>1, <1>6 DEF SlotsLevel
<1>12. \A r \in Ranks : \E s \in Ranks : SlotRanks[s] = r
  <2>1. SlotRanks \in [Ranks -> Ranks \cup {0}] /\ Unplaced = {s \in Ranks : SlotRanks[s] = 0}
    BY <1>1, <1>5, GroupNow
  <2>2. SlotRanks \in [Ranks -> Ranks]
    BY <1>2, <2>1
  <2>3. \A s, t \in Ranks : SlotRanks[s] = SlotRanks[t] => s = t
    BY <1>1, <1>2 DEF SlotsTallied, Placed
  <2>4. SlotRanks \in Injection(Ranks, Ranks)
    BY <2>2, <2>3 DEF Injection, IsInjective
  <2>5. SlotRanks \in Surjection(Ranks, Ranks)
    BY <1>5, <2>4, FS_Injection
  <2> QED
    BY <2>5 DEF Surjection
<1>13. Level'
  <2>1. AnyRank' = AnyRank
    BY <1>3, <1>6 DEF AnyRank
  <2> DEFINE S == SizesTo(Groups, group)
             S2 == SizesTo(Groups, group + 1)
             ms == Group.matrices
  <2>2. S \subseteq S2 /\ Range(ms) \subseteq S2
    <3>1. SizesOf(Groups[group]) \subseteq S2 /\ S \subseteq S2
      BY <1>1, <1>5, SizesGrow
    <3> QED
      BY <3>1 DEF SizesOf, Group, Groups
  <2> SUFFICES ASSUME input.hosts = <<>>, AnyRank, NEW q \in Ranks, NEW r \in Ranks
               PROVE  WithinOne(tally'.carried[q] - tally'.carried[r], S2)
    BY <1>3, <1>6, <2>1 DEF Level
  <2>3. PICK s \in Ranks : SlotRanks[s] = q
    BY <1>12
  <2>4. PICK t \in Ranks : SlotRanks[t] = r
    BY <1>12
  <2>5. s \in Placed /\ t \in Placed
    BY <1>2 DEF Placed
  <2> DEFINE x == LoadIn(ms, Slots, s)
             y == LoadIn(ms, Slots, t)
             a == tally.carried[q]
             b == tally.carried[r]
  <2>6. tally.primary[q] = x /\ tally.primary[r] = y
    BY <1>1, <1>2, <2>3, <2>4, <2>5 DEF SlotsTallied
  <2>7. tally'.carried[q] = a + x /\ tally'.carried[r] = b + y /\ a \in Nat /\ b \in Nat /\ x \in Nat /\ y \in Nat
    BY <1>4, <2>6
  <2>8. \/ a <= b /\ y <= x
        \/ b <= a /\ x <= y
    BY <1>1, <1>2, <2>3, <2>4, <2>5 DEF SlotsSorted
  <2>9. WithinOne(a - b, S)
    BY <1>1, <1>2 DEF Level
  <2>10. WithinOne(x - y, Range(ms))
    BY <1>1, <1>2 DEF SlotsLevel
  <2> DEFINE R == Range(ms)
  <2>11. R \subseteq Int /\ S2 \subseteq Int
    <3>1. \A g \in DOMAIN Groups : SizesOf(Groups[g]) \subseteq Int
      BY <1>1, SizesTyped
    <3>2. S2 \subseteq Int
      BY <3>1 DEF SizesTo
    <3> QED
      BY <2>2, <3>2
  <2> HIDE DEF S, S2, ms, a, b, x, y, R
  <2>12. CASE a <= b /\ y <= x
    <3>1. (a + x) - (b + y) <= x - y /\ x - y \in Int /\ (a + x) - (b + y) \in Int
      BY <2>7, <2>12
    <3>2. WithinOne((a + x) - (b + y), R)
      BY <2>10, <2>11, <3>1 DEF WithinOne, R
    <3> QED
      BY <2>2, <2>7, <3>2 DEF WithinOne, R
  <2>13. CASE b <= a /\ x <= y
    <3>1. (a + x) - (b + y) <= a - b /\ a - b \in Int /\ (a + x) - (b + y) \in Int
      BY <2>7, <2>13
    <3>2. WithinOne((a + x) - (b + y), S2)
      BY <2>2, <2>9, <2>11, <3>1 DEF WithinOne
    <3> QED
      BY <2>7, <3>2
  <2> QED
    BY <2>8, <2>12, <2>13
<1>14. BlocksInOrder'
  BY <1>1, <1>3 DEF BlocksInOrder, Now, Groups, Group, Given, Unfinished, GivenBlocks
<1>15. LastLevel'
  <2>1. (Now => NoneGiven(Given))'
    BY <1>1, <1>2, <1>6 DEF Progress
  <2>2. (Typed /\ (Now => NoneGiven(Given)) => LastLevel)'
    BY NoLast, PTL
  <2> QED
    BY <1>7, <2>1, <2>2
<1> QED
  BY <1>7, <1>8, <1>9, <1>10, <1>11, <1>13, <1>14, <1>15 DEF IInv

\* The heaviest slot goes to a free rank, without hosts to the one loaded least.
LEMMA PlaceSlotDoes ==
  ASSUME IInv, PlaceSlot
  PROVE  /\ HeaviestSlot \in Unplaced
         /\ \A x \in Unplaced :
              LoadIn(Group.matrices, Slots, x) <= LoadIn(Group.matrices, Slots, HeaviestSlot)
         /\ HeaviestSlot \notin Placed /\ Placed \subseteq Ranks
         /\ Placed' = Placed \cup {HeaviestSlot} /\ Unplaced' = Unplaced \ {HeaviestSlot}
         /\ \E r \in Ranks :
              /\ NextRank(r) /\ r \notin tally.taken
              /\ input.hosts = <<>> => \A q \in Ranks \ tally.taken : tally.carried[r] <= tally.carried[q]
              /\ IsTally(tally', Hosts) /\ tally'.primary = [tally.primary EXCEPT ![r] = @ + LoadIn(Group.matrices, Slots, HeaviestSlot)]
              /\ tally'.carried = tally.carried /\ tally'.taken = tally.taken \cup {r}
              /\ tally'.hostPrimary = [tally.hostPrimary EXCEPT ![Hosts[r]] = @ + LoadIn(Group.matrices, Slots, HeaviestSlot)]
              /\ tally'.hostSecondary = [tally.hostSecondary EXCEPT ![Hosts[r]] = @ + 0]
              /\ tally'.hostCarried = tally.hostCarried
              /\ DOMAIN rankOf' = DOMAIN Groups /\ \A g \in DOMAIN Groups \ {group} : rankOf'[g] = rankOf[g]
              /\ SlotRanks' \in [Ranks -> Ranks \cup {0}] /\ SlotRanks'[HeaviestSlot] = r
              /\ \A x \in Ranks \ {HeaviestSlot} : SlotRanks'[x] = SlotRanks[x]
<1> DEFINE ms == Group.matrices
           s == HeaviestSlot
           ro2 == SlotRanks'
           load(x) == LoadIn(ms, Slots, x)
<1>1. Typed /\ Counted /\ Progress /\ SlotsTallied /\ SlotsLevel /\ SlotsSorted /\ Level /\ BlocksInOrder
  BY DEF IInv
<1>2. Now /\ phase = "slots" /\ Unplaced # {} /\ Loose = {}
  BY <1>1 DEF PlaceSlot, Typed, Progress
<1>3. UNCHANGED <<input, group, phase, slotOf, counts>>
  BY DEF PlaceSlot
<1>4. /\ group \in DOMAIN Groups /\ IsFiniteSet(Ranks) /\ Ranks \subseteq Nat /\ 0 \notin Ranks
      /\ DOMAIN Hosts = Ranks /\ IsTally(tally, Hosts)
      /\ DOMAIN Groups = 1 .. Len(Groups) /\ Len(Groups) \in Nat
  BY <1>1, <1>2, RanksTyped DEF Typed
<1>5. /\ IsFiniteSet(DOMAIN ms) /\ DOMAIN ms \subseteq Nat /\ \A j \in DOMAIN ms : ms[j] \in Nat
      /\ Slots \in [DOMAIN ms -> Ranks \cup {0}] /\ SlotRanks \in [Ranks -> Ranks \cup {0}]
      /\ \A x : SlotLoad(group, x) = load(x) /\ load(x) \in Nat
      /\ Unplaced = {x \in Ranks : SlotRanks[x] = 0}
  BY <1>1, <1>4, GroupNow
<1>6. s \in Unplaced /\ \A x \in Unplaced : load(x) <= load(s)
  <2> DEFINE key == [x \in Unplaced |-> -SlotLoad(group, x)]
  <2>1. \A x \in Unplaced : key[x] = -load(x) /\ load(x) \in Nat /\ key[x] \in Int
    BY <1>5
  <2>2. s = First(Unplaced, key)
    BY DEF HeaviestSlot
  <2>3. IsFiniteSet(Unplaced) /\ Unplaced \subseteq Nat
    BY <1>4, <1>5, FS_Subset
  <2> HIDE DEF key, s, load
  <2>4. s \in Unplaced /\ \A x \in Unplaced : key[s] <= key[x]
    BY <1>2, <2>1, <2>2, <2>3, FirstIsLeast
  <2> QED
    BY <2>1, <2>4
<1>7. PICK r \in Ranks : /\ NextRank(r)
                         /\ rankOf' = [rankOf EXCEPT ![group][s] = r]
                         /\ tally' = Assign(tally, Hosts, [primary |-> SlotLoad(group, s), secondary |-> 0], r)
  BY DEF PlaceSlot
<1> HIDE DEF s
<1>8. s \in Ranks /\ SlotRanks[s] = 0
  BY <1>5, <1>6
<1>9. /\ r \notin tally.taken
      /\ input.hosts = <<>> => \A q \in Ranks \ tally.taken : tally.carried[r] <= tally.carried[q]
  <2>1. CASE input.hosts = <<>>
    <3> DEFINE T == Ranks \ tally.taken
               key == tally.carried
    <3>1. r = First(T, key)
      BY <1>7, <2>1 DEF NextRank
    <3>2. IsFiniteSet(T) /\ T \subseteq Nat /\ \A q \in T : key[q] \in Int
      <4>1. IsFiniteSet(T)
        BY <1>4, FS_Subset
      <4>2. T \subseteq Nat
        BY <1>4
      <4>3. \A q \in Ranks : tally.carried[q] \in Nat
        BY <1>4 DEF IsTally
      <4> QED
        BY <4>1, <4>2, <4>3
    <3>3. T # {}
      <4>1. tally.taken = {SlotRanks[x] : x \in Placed} /\ Placed \subseteq Ranks /\ Placed # Ranks
        BY <1>1, <1>2, <1>6, <1>8 DEF SlotsTallied, Placed
      <4>2. \A x, y \in Placed : SlotRanks[x] = SlotRanks[y] => x = y
        BY <1>1, <1>2 DEF SlotsTallied
      <4> SUFFICES ASSUME T = {} PROVE FALSE
        OBVIOUS
      <4>3. PICK back \in [Ranks -> Placed] : \A q \in Ranks : SlotRanks[back[q]] = q
        <5> DEFINE b == [q \in Ranks |-> CHOOSE x \in Placed : SlotRanks[x] = q]
        <5>1. \A q \in Ranks : \E x \in Placed : SlotRanks[x] = q
          BY <1>7, <4>1
        <5>2. \A q \in Ranks : b[q] \in Placed /\ SlotRanks[b[q]] = q
          BY <5>1
        <5>3. b \in [Ranks -> Placed]
          BY <5>2
        <5> HIDE DEF b
        <5> QED
          BY <5>2, <5>3
      <4>4. back \in Injection(Ranks, Placed)
        BY <4>3 DEF Injection, IsInjective
      <4>5. back \in Injection(Ranks, Ranks) /\ IsFiniteSet(Placed)
        BY <1>4, <4>1, <4>3, <4>4, FS_Subset DEF Injection, IsInjective
      <4>6. back \in Surjection(Ranks, Ranks)
        BY <1>4, <4>5, FS_Injection
      <4>7. PICK q \in Ranks : back[q] = s
        BY <1>8, <4>6 DEF Surjection
      <4> QED
        BY <1>6, <4>3, <4>7 DEF Placed
    <3> HIDE DEF T, key
    <3>4. r \in T /\ \A q \in T : key[r] <= key[q]
      BY <3>1, <3>2, <3>3, FirstIsLeast
    <3> QED
      BY <2>1, <3>4 DEF T, key
  <2>2. CASE input.hosts # <<>>
    <3>1. Chosen(tally, Hosts, TRUE, r)
      BY <1>7, <2>2 DEF NextRank
    <3> QED
      BY <2>2, <3>1 DEF Chosen, OpenRanks
  <2> QED
    BY <2>1, <2>2
<1>10. /\ IsTally(tally', Hosts) /\ tally'.primary = [tally.primary EXCEPT ![r] = @ + load(s)]
       /\ tally'.carried = tally.carried /\ tally'.taken = tally.taken \cup {r}
       /\ tally'.hostPrimary = [tally.hostPrimary EXCEPT ![Hosts[r]] = @ + load(s)]
       /\ tally'.hostSecondary = [tally.hostSecondary EXCEPT ![Hosts[r]] = @ + 0]
       /\ tally'.hostCarried = tally.hostCarried
  <2> DEFINE l == [primary |-> SlotLoad(group, s), secondary |-> 0]
  <2>1. l.primary = load(s) /\ l.primary \in Nat /\ l.secondary = 0
    BY <1>5
  <2>2. tally' = Assign(tally, Hosts, l, r) /\ r \in DOMAIN Hosts
    BY <1>4, <1>7
  <2> HIDE DEF l, load
  <2> DEFINE t == tally
             hosts == Hosts
  <2>3. IsTally(t, hosts) /\ l.primary \in Nat /\ l.secondary \in Nat /\ r \in DOMAIN hosts
    BY <1>4, <2>1
  <2> HIDE DEF t, hosts
  <2>4. /\ IsTally(Assign(t, hosts, l, r), hosts)
        /\ Assign(t, hosts, l, r).primary = [t.primary EXCEPT ![r] = @ + l.primary]
        /\ Assign(t, hosts, l, r).secondary = [t.secondary EXCEPT ![r] = @ + l.secondary]
        /\ Assign(t, hosts, l, r).hostPrimary = [t.hostPrimary EXCEPT ![hosts[r]] = @ + l.primary]
        /\ Assign(t, hosts, l, r).hostSecondary = [t.hostSecondary EXCEPT ![hosts[r]] = @ + l.secondary]
        /\ Assign(t, hosts, l, r).carried = t.carried
        /\ Assign(t, hosts, l, r).hostCarried = t.hostCarried
        /\ Assign(t, hosts, l, r).taken = t.taken \cup {r}
    BY <2>3, AssignAdds
  <2> QED
    BY <2>1, <2>2, <2>4 DEF t, hosts
<1>11. /\ DOMAIN rankOf' = DOMAIN Groups /\ \A g \in DOMAIN Groups \ {group} : rankOf'[g] = rankOf[g]
       /\ ro2 \in [Ranks -> Ranks \cup {0}] /\ ro2[s] = r /\ \A x \in Ranks \ {s} : ro2[x] = SlotRanks[x]
  <2>1. DOMAIN rankOf = DOMAIN Groups
    BY <1>1 DEF Typed
  <2>2. ro2 = [SlotRanks EXCEPT ![s] = r]
    BY <1>3, <1>4, <1>7, <2>1 DEF SlotRanks
  <2>3. ro2 \in [Ranks -> Ranks \cup {0}] /\ ro2[s] = r /\ \A x \in Ranks \ {s} : ro2[x] = SlotRanks[x]
    BY <1>5, <1>8, <2>2
  <2> QED
    BY <1>3, <1>4, <1>7, <2>1, <2>3
<1>12. Ranks' = Ranks /\ Groups' = Groups /\ Hosts' = Hosts /\ Now' = Now /\ Group' = Group /\ Slots' = Slots
      /\ Given' = Given /\ Loose' = Loose
  BY <1>3 DEF Ranks, Groups, Hosts, Now, Group, Slots, Given, Loose
<1>13. s \notin Placed /\ Placed' = Placed \cup {s} /\ Unplaced' = Unplaced \ {s} /\ Placed \subseteq Ranks
  <2>1. Unplaced' = {x \in Ranks : ro2[x] = 0}
    BY <1>3, <1>12 DEF Unplaced, SlotRanks
  <2>2. Unplaced' = Unplaced \ {s}
    BY <1>4, <1>5, <1>8, <1>11, <2>1
  <2> QED
    BY <1>6, <1>8, <1>12, <2>2 DEF Placed
<1> QED
  BY <1>6, <1>7, <1>9, <1>10, <1>11, <1>13 DEF s

LEMMA PlaceSlotKeeps ==
  ASSUME IInv, PlaceSlot
  PROVE  IInv'
<1> DEFINE ms == Group.matrices
           s == HeaviestSlot
           ro2 == SlotRanks'
           load(x) == LoadIn(ms, Slots, x)
<1>1. Typed /\ Counted /\ Progress /\ SlotsTallied /\ SlotsLevel /\ SlotsSorted /\ Level /\ BlocksInOrder
  BY DEF IInv
<1>2. Now /\ phase = "slots" /\ Unplaced # {} /\ Loose = {}
  BY <1>1 DEF PlaceSlot, Typed, Progress
<1>3. UNCHANGED <<input, group, phase, slotOf, counts>>
  BY DEF PlaceSlot
<1>4. /\ group \in DOMAIN Groups /\ IsFiniteSet(Ranks) /\ Ranks \subseteq Nat /\ 0 \notin Ranks
      /\ DOMAIN Hosts = Ranks /\ IsTally(tally, Hosts)
      /\ DOMAIN Groups = 1 .. Len(Groups) /\ Len(Groups) \in Nat
  BY <1>1, <1>2, RanksTyped DEF Typed
<1>5. /\ IsFiniteSet(DOMAIN ms) /\ DOMAIN ms \subseteq Nat /\ \A j \in DOMAIN ms : ms[j] \in Nat
      /\ Slots \in [DOMAIN ms -> Ranks \cup {0}] /\ SlotRanks \in [Ranks -> Ranks \cup {0}]
      /\ \A x : SlotLoad(group, x) = load(x) /\ load(x) \in Nat
      /\ Unplaced = {x \in Ranks : SlotRanks[x] = 0}
  BY <1>1, <1>4, GroupNow
<1>6. s \in Unplaced /\ \A x \in Unplaced : load(x) <= load(s)
  BY PlaceSlotDoes
<1>7. PICK r \in Ranks :
        /\ NextRank(r) /\ r \notin tally.taken
        /\ input.hosts = <<>> => \A q \in Ranks \ tally.taken : tally.carried[r] <= tally.carried[q]
        /\ IsTally(tally', Hosts) /\ tally'.primary = [tally.primary EXCEPT ![r] = @ + LoadIn(Group.matrices, Slots, HeaviestSlot)]
        /\ tally'.carried = tally.carried /\ tally'.taken = tally.taken \cup {r}
        /\ tally'.hostPrimary = [tally.hostPrimary EXCEPT ![Hosts[r]] = @ + LoadIn(Group.matrices, Slots, HeaviestSlot)]
        /\ tally'.hostSecondary = [tally.hostSecondary EXCEPT ![Hosts[r]] = @ + 0]
        /\ tally'.hostCarried = tally.hostCarried
        /\ DOMAIN rankOf' = DOMAIN Groups /\ \A g \in DOMAIN Groups \ {group} : rankOf'[g] = rankOf[g]
        /\ SlotRanks' \in [Ranks -> Ranks \cup {0}] /\ SlotRanks'[HeaviestSlot] = r
        /\ \A x \in Ranks \ {HeaviestSlot} : SlotRanks'[x] = SlotRanks[x]
  BY PlaceSlotDoes
<1>8. s \in Ranks /\ SlotRanks[s] = 0
  BY <1>5, <1>6
<1>9. s \notin Placed /\ Placed' = Placed \cup {s} /\ Unplaced' = Unplaced \ {s} /\ Placed \subseteq Ranks
  BY PlaceSlotDoes
<1> HIDE DEF s
<1>10. /\ r \notin tally.taken /\ IsTally(tally', Hosts)
       /\ tally'.primary = [tally.primary EXCEPT ![r] = @ + load(s)]
       /\ input.hosts = <<>> => \A q \in Ranks \ tally.taken : tally.carried[r] <= tally.carried[q]
       /\ tally'.carried = tally.carried /\ tally'.taken = tally.taken \cup {r}
  BY <1>7 DEF s
<1>11. /\ \A x \in Ranks : tally.primary[x] \in Nat /\ tally.carried[x] \in Nat
       /\ tally'.primary[r] = tally.primary[r] + load(s)
       /\ \A q \in Ranks \ {r} : tally'.primary[q] = tally.primary[q]
  BY <1>4, <1>10 DEF IsTally
<1>12. /\ DOMAIN rankOf' = DOMAIN Groups /\ \A g \in DOMAIN Groups \ {group} : rankOf'[g] = rankOf[g]
       /\ ro2 \in [Ranks -> Ranks \cup {0}] /\ ro2[s] = r /\ \A x \in Ranks \ {s} : ro2[x] = SlotRanks[x]
  BY <1>7 DEF s
<1>13. Ranks' = Ranks /\ Groups' = Groups /\ Hosts' = Hosts /\ Now' = Now /\ Group' = Group /\ Slots' = Slots
      /\ Given' = Given /\ Loose' = Loose
  BY <1>3 DEF Ranks, Groups, Hosts, Now, Group, Slots, Given, Loose
<1>14. Typed'
  <2>1. \A g \in DOMAIN Groups : rankOf'[g] \in [Ranks -> Ranks \cup {0}]
    <3>1. ro2 = rankOf'[group]
      BY <1>3 DEF SlotRanks
    <3> QED
      BY <1>1, <1>12, <3>1 DEF Typed
  <2>2. tally'.taken \subseteq Ranks
    BY <1>1, <1>10 DEF Typed
  <2> QED
    BY <1>1, <1>3, <1>10, <1>12, <1>13, <2>1, <2>2 DEF Typed
<1>15. Counted'
  <2> SUFFICES ASSUME NEW q \in Ranks
               PROVE  tally'.carried[q] + tally'.primary[q] = HeldAll(Groups, slotOf, rankOf', counts, q)
    BY <1>3, <1>13 DEF Counted
  <2> DEFINE d == IF q = r THEN load(s) ELSE 0
             gr == Groups[group]
             so == slotOf[group]
             ro == rankOf[group]
             roN == rankOf'[group]
  <2>1. ms = gr.matrices /\ SlotRanks = ro /\ Slots = so /\ ro2 = roN
    BY <1>3 DEF SlotRanks, Slots, Groups, Group
  <2>2. MatricesIn(gr.matrices, so, roN, q) = MatricesIn(gr.matrices, so, ro, q) + d
    <3>1. DOMAIN so = DOMAIN ms /\ DOMAIN ro = Ranks /\ \A j \in DOMAIN so : so[j] \in DOMAIN ro \cup {0}
      BY <1>5, <2>1
    <3>2. ro[s] = 0 /\ r # 0 /\ s \in DOMAIN ro /\ 0 \notin DOMAIN ro
      BY <1>4, <1>8, <2>1, <3>1
    <3>3. \A x \in DOMAIN ro : ro[x] # r
      <4> SUFFICES ASSUME NEW x \in Ranks PROVE SlotRanks[x] # r
        BY <2>1, <3>1
      <4>1. x \in Placed => SlotRanks[x] \in tally.taken
        BY <1>1, <1>2 DEF SlotsTallied
      <4> QED
        BY <1>5, <1>10, <3>2, <4>1 DEF Placed
    <3>4. roN[s] = r /\ \A x \in DOMAIN ro \ {s} : roN[x] = ro[x]
      BY <1>12, <2>1, <3>1
    <3>5. MatricesIn(gr.matrices, so, ro, q) \in Nat
      BY <1>1, <1>4, HeldTyped
    <3>6. q # 0
      BY <1>4
    <3> HIDE DEF gr, so, ro, roN, ms, load
    <3>7. /\ MatricesIn(ms, so, ro, r) = 0
          /\ MatricesIn(ms, so, roN, r) = LoadIn(ms, so, s)
          /\ \A p : p # r /\ p # 0 => MatricesIn(ms, so, roN, p) = MatricesIn(ms, so, ro, p)
      <4>1. DOMAIN so = DOMAIN ms /\ \A j \in DOMAIN so : so[j] \in DOMAIN ro \cup {0}
        BY <3>1
      <4> QED
        BY <3>2, <3>3, <3>4, <4>1, SlotGoes
    <3>8. load(s) = LoadIn(ms, so, s) /\ load(s) \in Nat
      BY <1>5, <2>1 DEF load
    <3> QED
      BY <2>1, <3>5, <3>6, <3>7, <3>8 DEF d
  <2>3. HeldIn(gr, slotOf[group], rankOf'[group], counts[group], q)
          = HeldIn(gr, slotOf[group], rankOf[group], counts[group], q) + d
    <3>1. MatricesIn(gr.matrices, so, ro, q) \in Nat /\ AllBlocksIn(gr.blocks, counts[group], q) \in Nat
      BY <1>1, <1>4, HeldTyped
    <3>2. d \in Nat
      BY <1>5
    <3> HIDE DEF d
    <3> QED
      BY <2>2, <3>1, <3>2 DEF HeldIn
  <2>4. \A h \in DOMAIN Groups : HeldIn(Groups[h], slotOf[h], rankOf[h], counts[h], q) \in Nat
    BY <1>1, HeldTyped
  <2>5. IsFiniteSet(DOMAIN Groups) /\ d \in Nat
    <3>1. IsFiniteSet(DOMAIN Groups)
      BY <1>4, FS_Interval
    <3>2. d \in Nat
      BY <1>5
    <3> QED
      BY <3>1, <3>2
  <2>6. \A h \in DOMAIN Groups \ {group} : slotOf[h] = slotOf[h] /\ rankOf'[h] = rankOf[h] /\ counts[h] = counts[h]
    BY <1>12
  <2>7. tally'.carried[q] + tally'.primary[q] = (tally.carried[q] + tally.primary[q]) + d
    BY <1>5, <1>10, <1>11
  <2> HIDE DEF d, gr
  <2>8. HeldAll(Groups, slotOf, rankOf', counts, q) = HeldAll(Groups, slotOf, rankOf, counts, q) + d
    <3> DEFINE g == group
    <3>1. /\ g \in DOMAIN Groups
          /\ \A h \in DOMAIN Groups \ {g} : slotOf[h] = slotOf[h] /\ rankOf'[h] = rankOf[h] /\ counts[h] = counts[h]
          /\ HeldIn(Groups[g], slotOf[g], rankOf'[g], counts[g], q)
               = HeldIn(Groups[g], slotOf[g], rankOf[g], counts[g], q) + d
      BY <1>4, <2>3, <2>6 DEF gr
    <3> HIDE DEF g
    <3> QED
      BY <2>4, <2>5, <3>1, HeldGrows
  <2> QED
    BY <1>1, <2>7, <2>8 DEF Counted
<1>16. Progress'
  <2>1. \A g \in DOMAIN Groups : g > group => g \in DOMAIN Groups \ {group}
    BY <1>4
  <2> QED
    BY <1>1, <1>2, <1>3, <1>12, <1>13, <2>1 DEF Progress
<1>18. SlotsTallied'
  <2>1. tally.taken = {SlotRanks[x] : x \in Placed}
    BY <1>1, <1>2 DEF SlotsTallied
  <2>2. \A x \in Placed : ro2[x] = SlotRanks[x] /\ ro2[x] \in tally.taken /\ ro2[x] # r /\ ro2[x] \in Ranks
    <3>1. \A x \in Placed : x # s /\ SlotRanks[x] # 0
      BY <1>5, <1>9 DEF Placed
    <3> QED
      BY <1>5, <1>10, <1>12, <1>9, <2>1, <3>1
  <2>3. tally'.taken = {ro2[x] : x \in Placed'}
    BY <1>10, <1>12, <1>9, <2>1, <2>2
  <2>4. \A x, y \in Placed' : ro2[x] = ro2[y] => x = y
    BY <1>1, <1>2, <1>12, <1>9, <2>2 DEF SlotsTallied
  <2>5. \A x \in Placed' : tally'.primary[ro2[x]] = load(x)
    <3>1. tally.primary[r] = 0
      BY <1>1, <1>2, <1>10 DEF SlotsTallied
    <3>2. tally'.primary[ro2[s]] = load(s)
      BY <1>5, <1>11, <1>12, <3>1
    <3>3. \A x \in Placed : tally'.primary[ro2[x]] = load(x)
      BY <1>1, <1>2, <1>11, <2>2 DEF SlotsTallied
    <3> QED
      BY <1>9, <3>2, <3>3
  <2>6. \A q \in Ranks \ tally'.taken : tally'.primary[q] = 0
    BY <1>1, <1>2, <1>10, <1>11 DEF SlotsTallied
  <2> QED
    BY <1>2, <1>3, <1>13, <2>3, <2>4, <2>5, <2>6 DEF SlotsTallied
<1>19. SlotsLevel'
  BY <1>1, <1>13 DEF SlotsLevel
<1>20. SlotsSorted'
  <2>1. \A x \in Placed : load(s) <= load(x)
    BY <1>1, <1>2, <1>6 DEF SlotsSorted
  <2>2. \A x \in Placed', y \in Unplaced' : load(y) <= load(x)
    BY <1>1, <1>2, <1>6, <1>9, <2>1 DEF SlotsSorted
  <2>3. \A x \in Placed : ro2[x] = SlotRanks[x]
    BY <1>12, <1>9
  <2> SUFFICES ASSUME input.hosts = <<>>
               PROVE  /\ \A x \in Placed' : \A q \in Ranks \ tally'.taken : tally.carried[ro2[x]] <= tally.carried[q]
                      /\ \A x, y \in Placed' :
                           \/ tally.carried[ro2[x]] <= tally.carried[ro2[y]] /\ load(y) <= load(x)
                           \/ tally.carried[ro2[y]] <= tally.carried[ro2[x]] /\ load(x) <= load(y)
    BY <1>2, <1>3, <1>10, <1>13, <2>2 DEF SlotsSorted
  <2>4. \A x \in Placed : tally.carried[SlotRanks[x]] <= tally.carried[r]
    BY <1>1, <1>2, <1>10 DEF SlotsSorted
  <2>5. \A x \in Placed' : \A q \in Ranks \ tally'.taken : tally.carried[ro2[x]] <= tally.carried[q]
    BY <1>1, <1>2, <1>10, <1>12, <1>9, <2>3 DEF SlotsSorted
  <2>6. ASSUME NEW x \in Placed', NEW y \in Placed'
        PROVE  \/ tally.carried[ro2[x]] <= tally.carried[ro2[y]] /\ load(y) <= load(x)
               \/ tally.carried[ro2[y]] <= tally.carried[ro2[x]] /\ load(x) <= load(y)
    <3>1. CASE x \in Placed /\ y \in Placed
      <4> HIDE DEF ro2
      <4> QED
        BY <1>1, <1>2, <2>3, <3>1 DEF SlotsSorted
    <3>2. CASE x \in Placed /\ y = s
      BY <1>12, <2>1, <2>3, <2>4, <3>2
    <3>3. CASE x = s /\ y \in Placed
      BY <1>12, <2>1, <2>3, <2>4, <3>3
    <3>4. CASE x = s /\ y = s
      BY <1>5, <1>11, <1>12, <3>4
    <3> QED
      BY <1>9, <3>1, <3>2, <3>3, <3>4
  <2> QED
    BY <2>5, <2>6
<1>21. Level'
  BY <1>1, <1>3, <1>10, <1>13 DEF Level, AnyRank
<1>22. BlocksInOrder'
  BY <1>1, <1>3 DEF BlocksInOrder, Now, Groups, Group, Given, Unfinished, GivenBlocks
<1>23. LastLevel'
  BY <1>2, <1>3 DEF LastLevel
<1> QED
  BY <1>14, <1>15, <1>16, <1>18, <1>19, <1>20, <1>21, <1>22, <1>23 DEF IInv

\* A block goes to the least loaded rank that may hold it.
LEMMA PlaceBlockKeeps ==
  ASSUME IInv, PlaceBlock
  PROVE  IInv'
<1> DEFINE bs == Group.blocks
           b == NextBlocks
           e == bs[b].eligible
           n == bs[b].numel
           k == LeastLoaded(e)
           cs2 == Given'
<1>1. Typed /\ Counted /\ Progress /\ SlotsTallied /\ SlotsLevel /\ Level /\ BlocksInOrder /\ LastLevel
  BY DEF IInv
<1>2. Now /\ phase = "blocks" /\ Unfinished # {} /\ Loose = {}
  BY <1>1 DEF PlaceBlock, Typed, Progress
<1>3. /\ UNCHANGED <<input, group, phase, slotOf, rankOf>>
      /\ counts' = [counts EXCEPT ![group][b][k] = @ + 1]
      /\ tally' = [tally EXCEPT !.carried[e[k]] = @ + n]
  BY DEF PlaceBlock, PlaceBlockAt
<1>4. /\ group \in DOMAIN Groups /\ Ranks \subseteq Nat /\ 0 \notin Ranks
      /\ DOMAIN Hosts = Ranks /\ IsTally(tally, Hosts)
      /\ DOMAIN Groups = 1 .. Len(Groups) /\ Len(Groups) \in Nat /\ group \in Nat
  BY <1>1, <1>2, RanksTyped DEF Typed
<1>5. /\ IsFiniteSet(DOMAIN bs) /\ DOMAIN bs \subseteq Nat /\ DOMAIN Given = DOMAIN bs
      /\ \A a \in DOMAIN bs :
           /\ bs[a].count \in Nat /\ bs[a].numel \in Nat
           /\ IsFiniteSet(DOMAIN bs[a].eligible) /\ DOMAIN bs[a].eligible \subseteq Nat
           /\ DOMAIN bs[a].eligible # {}
           /\ \A j \in DOMAIN bs[a].eligible : bs[a].eligible[j] \in Ranks
           /\ \A i, j \in DOMAIN bs[a].eligible : bs[a].eligible[i] = bs[a].eligible[j] => i = j
           /\ Given[a] \in [DOMAIN bs[a].eligible -> Nat]
  <2>1. bs = Groups[group].blocks
    BY DEF Group, Groups
  <2>2. DOMAIN Given = DOMAIN bs /\ \A a \in DOMAIN bs : Given[a] \in [DOMAIN bs[a].eligible -> Nat]
    BY <1>1, <1>4, <2>1 DEF Typed, Given
  <2> QED
    BY <1>1, <1>4, <2>1, <2>2, GroupTyped
<1>6. /\ Unfinished = {a \in DOMAIN bs : GivenIn(Given[a]) < bs[a].count}
      /\ \A a \in DOMAIN bs : GivenIn(Given[a]) \in Nat
  <2>1. Unfinished = {a \in DOMAIN bs : GivenIn(Given[a]) < bs[a].count}
    BY DEF Unfinished, GivenBlocks, GivenIn, Given
  <2>2. ASSUME NEW a \in DOMAIN bs PROVE GivenIn(Given[a]) \in Nat
    <3>1. IsFiniteSet(DOMAIN Given[a]) /\ \A j \in DOMAIN Given[a] : Given[a][j] \in Nat
      BY <1>5
    <3> QED
      BY <3>1, GivenTyped
  <2> QED
    BY <2>1, <2>2
<1>7. b \in DOMAIN bs /\ b \in Unfinished /\ \A a \in Unfinished : b <= a
  <2>1. IsFiniteSet(Unfinished)
    BY <1>5, <1>6, FS_Subset
  <2>2. Unfinished \subseteq Nat
    BY <1>5, <1>6
  <2> QED
    BY <1>2, <1>6, <2>1, <2>2, LeastNumber DEF NextBlocks
<1>8. k \in DOMAIN e /\ \A j \in DOMAIN e : tally.carried[e[k]] <= tally.carried[e[j]]
  <2> DEFINE key == [j \in DOMAIN e |-> tally.carried[e[j]]]
  <2>1. IsFiniteSet(DOMAIN e) /\ DOMAIN e \subseteq Nat /\ DOMAIN e # {}
    BY <1>5, <1>7
  <2>2. \A j \in DOMAIN e : key[j] \in Int
    <3>1. \A q \in Ranks : tally.carried[q] \in Int
      BY <1>4 DEF IsTally
    <3>2. \A j \in DOMAIN e : e[j] \in Ranks
      BY <1>5, <1>7
    <3> QED
      BY <3>1, <3>2
  <2>3. k = First(DOMAIN e, key)
    BY DEF LeastLoaded
  <2> DEFINE D == DOMAIN e
  <2> HIDE DEF key, k, D
  <2>4. k \in D /\ \A j \in D : key[k] <= key[j]
    BY <2>1, <2>2, <2>3, FirstIsLeast DEF D
  <2> QED
    BY <2>4 DEF key, D
<1> HIDE DEF b, k
<1> DEFINE r == e[k]
<1>9. r \in Ranks /\ n \in Nat
  BY <1>5, <1>7, <1>8
<1>10. /\ IsTally(tally', Hosts) /\ tally'.taken = tally.taken /\ tally'.primary = tally.primary
       /\ tally'.carried[r] = tally.carried[r] + n
       /\ \A q \in Ranks \ {r} : tally'.carried[q] = tally.carried[q]
       /\ \A q \in Ranks : tally.carried[q] \in Nat /\ tally.primary[q] \in Nat
  <2>1. tally' = [tally EXCEPT !.carried = [tally.carried EXCEPT ![r] = @ + n]]
    BY <1>3, <1>4 DEF IsTally
  <2>2. /\ DOMAIN tally' = DOMAIN tally /\ tally'.carried = [tally.carried EXCEPT ![r] = @ + n]
        /\ tally'.primary = tally.primary /\ tally'.secondary = tally.secondary
        /\ tally'.hostPrimary = tally.hostPrimary /\ tally'.hostSecondary = tally.hostSecondary
        /\ tally'.hostCarried = tally.hostCarried /\ tally'.taken = tally.taken
    BY <1>4, <2>1 DEF IsTally
  <2>3. tally.carried \in [Ranks -> Nat] /\ tally.primary \in [Ranks -> Nat]
    BY <1>4 DEF IsTally
  <2>4. tally'.carried \in [Ranks -> Nat]
    BY <1>9, <2>2, <2>3
  <2>5. IsTally(tally', Hosts)
    BY <1>4, <2>2, <2>4 DEF IsTally
  <2> QED
    BY <1>9, <2>2, <2>3, <2>5
<1>11. /\ DOMAIN counts' = DOMAIN Groups /\ \A g \in DOMAIN Groups \ {group} : counts'[g] = counts[g]
       /\ DOMAIN cs2 = DOMAIN bs /\ \A a \in DOMAIN bs \ {b} : cs2[a] = Given[a]
       /\ DOMAIN cs2[b] = DOMAIN e /\ cs2[b][k] = Given[b][k] + 1
       /\ \A j \in DOMAIN e \ {k} : cs2[b][j] = Given[b][j]
  <2>1. DOMAIN counts = DOMAIN Groups
    BY <1>1 DEF Typed
  <2>2. cs2 = [Given EXCEPT ![b] = [Given[b] EXCEPT ![k] = @ + 1]]
    BY <1>3, <1>4, <2>1 DEF Given
  <2>3. Given[b] \in [DOMAIN e -> Nat]
    BY <1>5, <1>7
  <2> QED
    BY <1>3, <1>4, <1>5, <1>7, <1>8, <2>1, <2>2, <2>3
<1>12. \A a \in DOMAIN bs : cs2[a] \in [DOMAIN bs[a].eligible -> Nat]
  <2>1. cs2[b] \in [DOMAIN e -> Nat]
    <3>1. cs2[b] = [Given[b] EXCEPT ![k] = Given[b][k] + 1]
      <4>1. cs2 = [Given EXCEPT ![b] = [Given[b] EXCEPT ![k] = Given[b][k] + 1]]
        <5>1. DOMAIN counts = DOMAIN Groups
          BY <1>1 DEF Typed
        <5> QED
          BY <1>3, <1>4, <5>1 DEF Given
      <4> QED
        BY <1>5, <1>7, <4>1
    <3>2. Given[b] \in [DOMAIN e -> Nat]
      BY <1>5, <1>7
    <3> QED
      BY <1>8, <3>1, <3>2
  <2> QED
    BY <1>5, <1>11, <2>1
<1>13. Ranks' = Ranks /\ Groups' = Groups /\ Hosts' = Hosts /\ Now' = Now /\ Group' = Group /\ Slots' = Slots
       /\ SlotRanks' = SlotRanks /\ Loose' = Loose /\ Unplaced' = Unplaced /\ bs' = bs
  BY <1>3 DEF Ranks, Groups, Hosts, Now, Group, Slots, SlotRanks, Loose, Unplaced
<1> HIDE DEF r, n
<1>14. Typed'
  <2>1. bs = Groups[group].blocks /\ cs2 = counts'[group]
    BY <1>3 DEF Group, Groups, Given
  <2>2. \A g \in DOMAIN Groups :
          /\ DOMAIN counts'[g] = DOMAIN Groups[g].blocks
          /\ \A a \in DOMAIN counts'[g] : counts'[g][a] \in [DOMAIN Groups[g].blocks[a].eligible -> Nat]
    BY <1>1, <1>11, <1>12, <2>1 DEF Typed
  <2>3. tally'.taken \subseteq Ranks /\ IsTally(tally', Hosts)
    BY <1>1, <1>10 DEF Typed
  <2>4. DOMAIN counts' = DOMAIN Groups
    BY <1>11
  <2>5. \A g \in DOMAIN Groups :
          /\ slotOf'[g] \in [DOMAIN Groups[g].matrices -> Ranks \cup {0}]
          /\ rankOf'[g] \in [Ranks -> Ranks \cup {0}]
    BY <1>1, <1>3 DEF Typed
  <2>6. /\ input' \in Inputs /\ group' \in 1 .. Len(Groups) + 1
        /\ phase' \in {"matrices", "slots", "blocks"} /\ (phase' = "matrices" \/ Now)
        /\ DOMAIN slotOf' = DOMAIN Groups /\ DOMAIN rankOf' = DOMAIN Groups
    BY <1>1, <1>3 DEF Typed
  <2> QED
    BY <1>13, <2>2, <2>3, <2>4, <2>5, <2>6 DEF Typed
<1>15. Counted'
  <2> SUFFICES ASSUME NEW q \in Ranks
               PROVE  tally'.carried[q] + tally'.primary[q] = HeldAll(Groups, slotOf, rankOf, counts', q)
    BY <1>3, <1>13 DEF Counted
  <2> DEFINE d == IF r = q THEN n ELSE 0
             gr == Groups[group]
             cs == counts[group]
             csN == counts'[group]
  <2>1. bs = gr.blocks /\ cs2 = csN /\ cs = Given
    BY <1>3 DEF Group, Groups, Given
  <2>2. d \in Nat
    BY <1>9
  <2>3. /\ \A a \in DOMAIN cs : BlocksIn(bs[a], cs[a], q) \in Nat
        /\ MatricesIn(gr.matrices, slotOf[group], rankOf[group], q) \in Nat
        /\ AllBlocksIn(bs, cs, q) \in Nat
    BY <1>1, <1>4, <2>1, HeldTyped
  <2>4. BlocksIn(bs[b], csN[b], q) = BlocksIn(bs[b], cs[b], q) + d
    <3> DEFINE c == Given[b]
               c2 == cs2[b]
               bl == bs[b]
    <3>1. bl.numel \in Nat /\ IsFiniteSet(DOMAIN c) /\ \A j \in DOMAIN c : c[j] \in Nat
      BY <1>5, <1>7
    <3>2. k \in DOMAIN c /\ DOMAIN c2 = DOMAIN c /\ c2[k] = c[k] + 1 /\ \A j \in DOMAIN c \ {k} : c2[j] = c[j]
      BY <1>5, <1>7, <1>8, <1>11
    <3>3. bl.eligible[k] = r /\ bl.numel = n
      BY DEF r, n
    <3> HIDE DEF c, c2, bl, cs2, bs, cs, csN
    <3>4. BlocksIn(bl, c2, q) = BlocksIn(bl, c, q) + (IF bl.eligible[k] = q THEN bl.numel ELSE 0)
      BY <3>1, <3>2, BlocksGrow
    <3> QED
      BY <2>1, <3>3, <3>4 DEF c, c2, bl
  <2>5. AllBlocksIn(bs, csN, q) = AllBlocksIn(bs, cs, q) + d
    <3>1. DOMAIN cs = DOMAIN bs /\ DOMAIN csN = DOMAIN cs /\ IsFiniteSet(DOMAIN cs) /\ b \in DOMAIN cs
          /\ \A a \in DOMAIN cs \ {b} : csN[a] = cs[a]
      BY <1>5, <1>7, <1>11, <2>1
    <3> HIDE DEF cs2, bs, cs, csN, d
    <3> QED
      BY <2>2, <2>3, <2>4, <3>1, AllBlocksGrow
  <2>6. HeldIn(gr, slotOf[group], rankOf[group], counts'[group], q)
          = HeldIn(gr, slotOf[group], rankOf[group], counts[group], q) + d
    <3> HIDE DEF d
    <3> QED
      BY <2>1, <2>2, <2>3, <2>5 DEF HeldIn
  <2>7. \A h \in DOMAIN Groups : HeldIn(Groups[h], slotOf[h], rankOf[h], counts[h], q) \in Nat
    BY <1>1, HeldTyped
  <2>8. IsFiniteSet(DOMAIN Groups)
    BY <1>4, FS_Interval
  <2>9. \A h \in DOMAIN Groups \ {group} : slotOf[h] = slotOf[h] /\ rankOf[h] = rankOf[h] /\ counts'[h] = counts[h]
    BY <1>11
  <2>10. tally'.carried[q] + tally'.primary[q] = (tally.carried[q] + tally.primary[q]) + d
    BY <1>9, <1>10
  <2> HIDE DEF d, gr, cs, csN
  <2>11. HeldAll(Groups, slotOf, rankOf, counts', q) = HeldAll(Groups, slotOf, rankOf, counts, q) + d
    <3> DEFINE g == group
    <3>1. /\ g \in DOMAIN Groups
          /\ \A h \in DOMAIN Groups \ {g} : slotOf[h] = slotOf[h] /\ rankOf[h] = rankOf[h] /\ counts'[h] = counts[h]
          /\ HeldIn(Groups[g], slotOf[g], rankOf[g], counts'[g], q)
               = HeldIn(Groups[g], slotOf[g], rankOf[g], counts[g], q) + d
      BY <1>4, <2>6, <2>9 DEF gr
    <3> HIDE DEF g
    <3> QED
      BY <2>2, <2>7, <2>8, <3>1, HeldGrows
  <2> QED
    BY <1>1, <2>10, <2>11 DEF Counted
<1>16. Progress'
  <2>1. \A g \in DOMAIN Groups : g > group => g \in DOMAIN Groups \ {group}
    BY <1>4
  <2> QED
    BY <1>1, <1>2, <1>3, <1>11, <1>13, <2>1 DEF Progress
<1>17. SlotsTallied' /\ SlotsSorted'
  BY <1>1, <1>2, <1>3, <1>10, <1>13 DEF SlotsTallied, SlotsSorted
<1>18. SlotsLevel'
  BY <1>1, <1>13 DEF SlotsLevel
<1>19. Level'
  <2>1. AnyRank' = AnyRank
    BY <1>3, <1>13 DEF AnyRank
  <2> DEFINE S2 == SizesTo(Groups, group + 1)
  <2> SUFFICES ASSUME input.hosts = <<>>, AnyRank, NEW p \in Ranks, NEW q \in Ranks
               PROVE  WithinOne(tally'.carried[p] - tally'.carried[q], S2)
    BY <1>2, <1>3, <1>13, <2>1 DEF Level
  <2>2. WithinOne(tally.carried[p] - tally.carried[q], S2)
    BY <1>1, <1>2 DEF Level
  <2>3. n \in S2
    <3>1. n \in SizesOf(Groups[group])
      BY <1>7 DEF SizesOf, n, Group, Groups
    <3> QED
      BY <1>1, <1>4, <3>1, SizesGrow
  <2>4. \A x \in Ranks : tally.carried[r] <= tally.carried[x]
    <3>1. Range(e) = Ranks
      BY <1>4, <1>7 DEF AnyRank, Group, Groups
    <3>2. \A x \in Ranks : \E j \in DOMAIN e : e[j] = x
      BY <3>1 DEF Range
    <3> QED
      BY <1>8, <3>2 DEF r
  <2>5. S2 \subseteq Int
    <3>1. \A g \in DOMAIN Groups : SizesOf(Groups[g]) \subseteq Int
      BY <1>1, SizesTyped
    <3> QED
      BY <3>1 DEF SizesTo
  <2> HIDE DEF S2
  <2> DEFINE a == tally.carried[p] - tally.carried[q]
             a2 == tally'.carried[p] - tally'.carried[q]
  <2>6. a \in Int /\ a2 \in Int /\ (a2 <= a \/ a2 <= n)
    <3> DEFINE u == tally.carried[p]
               v == tally.carried[q]
               w == tally.carried[r]
    <3>1. u \in Nat /\ v \in Nat /\ w \in Nat /\ w <= v
      BY <1>9, <1>10, <2>4
    <3>2. /\ tally'.carried[p] = IF p = r THEN w + n ELSE u
          /\ tally'.carried[q] = IF q = r THEN w + n ELSE v
          /\ (p = r => u = w) /\ (q = r => v = w)
      BY <1>10
    <3> HIDE DEF u, v, w
    <3>3. a = u - v /\ a2 = (IF p = r THEN w + n ELSE u) - (IF q = r THEN w + n ELSE v)
      BY <3>2 DEF u, v
    <3> HIDE DEF a, a2
    <3> QED
      BY <1>9, <3>1, <3>2, <3>3
  <2> HIDE DEF a, a2
  <2>7. WithinOne(a2, S2)
    <3>1. CASE a2 <= n
      BY <2>3, <3>1 DEF WithinOne
    <3>2. CASE a2 <= a
      <4>1. WithinOne(a, S2)
        BY <2>2 DEF a
      <4>2. \A x \in S2 : x \in Int
        BY <2>5
      <4>3. a <= 0 => a2 <= 0
        BY <2>6, <3>2
      <4>4. ASSUME NEW x \in S2, a <= x PROVE a2 <= x
        BY <2>6, <3>2, <4>2, <4>4
      <4> QED
        BY <4>1, <4>3, <4>4 DEF WithinOne
    <3> QED
      BY <2>6, <3>1, <3>2
  <2> QED
    BY <2>7 DEF a2
<1>20. /\ GivenIn(cs2[b]) = GivenIn(Given[b]) + 1
       /\ \A a \in DOMAIN bs \ {b} : GivenIn(cs2[a]) = GivenIn(Given[a])
  <2>1. GivenIn(cs2[b]) = GivenIn(Given[b]) + 1
    <3> DEFINE c == Given[b]
               c2 == cs2[b]
    <3>1. IsFiniteSet(DOMAIN c) /\ \A j \in DOMAIN c : c[j] \in Nat
      BY <1>5, <1>7
    <3>2. k \in DOMAIN c /\ DOMAIN c2 = DOMAIN c /\ c2[k] = c[k] + 1 /\ \A j \in DOMAIN c \ {k} : c2[j] = c[j]
      BY <1>5, <1>7, <1>8, <1>11
    <3> HIDE DEF c, c2, cs2, bs
    <3> QED
      BY <3>1, <3>2, GivenGrows DEF c, c2
  <2> QED
    BY <1>11, <2>1
<1>21. Unfinished' \subseteq Unfinished
  <2>1. Unfinished' = {a \in DOMAIN bs : GivenIn(cs2[a]) < bs[a].count}
    BY <1>13 DEF Unfinished, GivenBlocks, GivenIn, Given
  <2>2. \A a \in DOMAIN bs : GivenIn(cs2[a]) < bs[a].count => GivenIn(Given[a]) < bs[a].count
    BY <1>5, <1>6, <1>7, <1>20
  <2> QED
    BY <1>6, <2>1, <2>2
<1>22. \A a \in DOMAIN bs : a > b => GivenIn(Given[a]) = 0
  <2>1. \A a \in DOMAIN bs : GivenIn(Given[a]) > 0 => \A x \in DOMAIN bs : x < a => x \notin Unfinished
    BY <1>1, <1>2 DEF BlocksInOrder
  <2>2. \A a \in DOMAIN bs : a > b => b < a
    BY <1>5, <1>7
  <2> QED
    BY <1>6, <1>7, <2>1, <2>2
<1>23. BlocksInOrder'
  <2> SUFFICES ASSUME NEW a \in DOMAIN bs, GivenIn(cs2[a]) > 0, NEW x \in DOMAIN bs, x < a
               PROVE  x \notin Unfinished'
    BY <1>13 DEF BlocksInOrder
  <2>1. CASE a = b
    <3>1. ~(b <= x)
      BY <1>5, <1>7, <2>1
    <3> QED
      BY <1>7, <1>21, <3>1
  <2>2. CASE a # b
    <3>1. GivenIn(Given[a]) > 0
      BY <1>20, <2>2
    <3> QED
      BY <1>1, <1>2, <1>21, <3>1 DEF BlocksInOrder
  <2> QED
    BY <2>1, <2>2
<1>24. LastLevel'
  <2> SUFFICES ASSUME NEW a \in DOMAIN bs, GivenIn(cs2[a]) > 0,
                      \A c \in DOMAIN bs : c > a => GivenIn(cs2[c]) = 0,
                      NEW i \in DOMAIN bs[a].eligible, NEW j \in DOMAIN bs[a].eligible, cs2[a][i] > 0
               PROVE  tally'.carried[bs[a].eligible[i]] - tally'.carried[bs[a].eligible[j]] <= bs[a].numel
    BY <1>13 DEF LastLevel
  <2>1. a = b
    <3>1. ~(a > b)
      <4>1. a > b => a # b /\ GivenIn(Given[a]) = 0
        BY <1>5, <1>7, <1>22
      <4> QED
        BY <1>20, <4>1
    <3>2. ~(b > a)
      <4>1. GivenIn(cs2[b]) # 0
        BY <1>6, <1>7, <1>20
      <4> QED
        BY <1>7, <4>1
    <3> QED
      BY <1>5, <1>7, <3>1, <3>2
  <2>2. i \in DOMAIN e /\ j \in DOMAIN e /\ cs2[b][i] > 0
    BY <2>1
  <2>3. \A x, y \in DOMAIN e : e[x] = e[y] => x = y
    BY <1>5, <1>7
  <2>4. \A x \in DOMAIN e : e[x] \in Ranks
    BY <1>5, <1>7
  <2> DEFINE A(x) == tally.carried[e[x]]
             B(x) == tally'.carried[e[x]]
  <2>5. \A x \in DOMAIN e : A(x) \in Nat /\ A(k) <= A(x) /\ B(x) = IF x = k THEN A(x) + n ELSE A(x)
    BY <1>8, <1>10, <2>3, <2>4 DEF r
  <2>6. B(i) - B(j) <= n
    <3>1. CASE i = k
      <4> HIDE DEF A, B
      <4> QED
        BY <1>8, <1>9, <2>2, <2>5, <3>1
    <3>2. CASE i # k
      <4>1. Given[b][i] > 0 /\ Given[b][i] \in Nat
        BY <1>5, <1>7, <1>11, <2>2, <3>2
      <4>2. GivenIn(Given[b]) > 0
        <5>1. IsFiniteSet(DOMAIN Given[b]) /\ \A x \in DOMAIN Given[b] : Given[b][x] \in Nat
          BY <1>5, <1>7
        <5>2. GivenIn(Given[b]) \in Nat /\ (GivenIn(Given[b]) = 0 <=> \A x \in DOMAIN Given[b] : Given[b][x] = 0)
          BY <5>1, GivenTyped
        <5>3. i \in DOMAIN Given[b] /\ Given[b][i] # 0
          BY <1>5, <1>7, <2>2, <4>1
        <5> QED
          BY <5>2, <5>3
      <4>3. A(i) - A(j) <= n
        BY <1>1, <1>2, <1>7, <1>22, <2>2, <4>1, <4>2 DEF LastLevel, n
      <4> HIDE DEF A, B
      <4> QED
        BY <1>9, <2>2, <2>5, <3>2, <4>3
    <3> QED
      BY <3>1, <3>2
  <2> QED
    BY <2>1, <2>6 DEF n
<1> QED
  BY <1>14, <1>15, <1>16, <1>17, <1>18, <1>19, <1>23, <1>24 DEF IInv

LEMMA NextGroupKeeps ==
  ASSUME IInv, NextGroup
  PROVE  IInv'
<1>1. Typed /\ Counted /\ Progress /\ SlotsTallied /\ Level
  BY DEF IInv
<1>2. Now /\ phase = "blocks" /\ Loose = {}
  BY <1>1 DEF NextGroup, Typed, Progress
<1>3. UNCHANGED <<input, slotOf, rankOf, counts, tally>> /\ group' = group + 1 /\ phase' = "matrices"
  BY DEF NextGroup
<1>4. /\ group \in DOMAIN Groups /\ group \in Nat
      /\ DOMAIN Groups = 1 .. Len(Groups) /\ Len(Groups) \in Nat
  BY <1>1, <1>2, RanksTyped
<1>5. Ranks' = Ranks /\ Groups' = Groups /\ Hosts' = Hosts
  BY <1>3 DEF Ranks, Groups, Hosts
<1>6. Typed'
  <2>1. group' \in 1 .. Len(Groups') + 1
    BY <1>3, <1>4, <1>5
  <2>2. phase' \in {"matrices", "slots", "blocks"} /\ (phase' = "matrices" \/ Now')
    BY <1>3
  <2> QED
    BY <1>1, <1>3, <1>5, <2>1, <2>2 DEF Typed
<1>7. Counted'
  BY <1>1, <1>3, <1>5 DEF Counted
<1>8. Now' => NoneLoaded(Slots') /\ NonePlaced(SlotRanks') /\ NoneGiven(Given')
  <2>1. Now' => group' \in DOMAIN Groups /\ group' > group
    BY <1>3, <1>4, <1>5 DEF Now
  <2> QED
    BY <1>1, <1>3, <2>1 DEF Progress, Slots, SlotRanks, Given
<1>9. Progress'
  <2>1. \A g \in DOMAIN Groups : g > group' => g > group
    BY <1>3, <1>4
  <2> QED
    BY <1>1, <1>3, <1>5, <1>8, <2>1 DEF Progress
<1>10. SlotsTallied' /\ SlotsSorted' /\ LastLevel'
  BY <1>1, <1>2, <1>3, <1>5 DEF SlotsTallied, SlotsSorted, LastLevel
<1>11. SlotsLevel'
  <2>1. (Typed /\ (Now => NoneLoaded(Slots)) => SlotsLevel)'
    BY NothingLevel, PTL
  <2> QED
    BY <1>6, <1>8, <2>1
<1>12. BlocksInOrder'
  <2>1. (Typed /\ (Now => NoneGiven(Given)) => BlocksInOrder)'
    BY NothingBegun, PTL
  <2> QED
    BY <1>6, <1>8, <2>1
<1>13. Level'
  <2>1. AnyRank' = AnyRank
    BY <1>3, <1>5 DEF AnyRank
  <2> QED
    BY <1>1, <1>2, <1>3, <1>5, <2>1 DEF Level
<1> QED
  BY <1>6, <1>7, <1>9, <1>10, <1>11, <1>12, <1>13 DEF IInv

LEMMA IInvInductive ==
  IInv /\ [Next]_vars => IInv'
<1> SUFFICES ASSUME IInv, [Next]_vars PROVE IInv'
  OBVIOUS
<1>1. CASE FillSlot
  BY <1>1, FillSlotKeeps
<1>2. CASE SlotsFull
  BY <1>2, SlotsFullKeeps
<1>3. CASE PlaceSlot
  BY <1>3, PlaceSlotKeeps
<1>4. CASE SlotsPlaced
  BY <1>4, SlotsPlacedKeeps
<1>5. CASE PlaceBlock
  BY <1>5, PlaceBlockKeeps
<1>6. CASE NextGroup
  BY <1>6, NextGroupKeeps
<1>7. CASE Over \/ UNCHANGED vars
  <2>1. UNCHANGED <<input, group, phase, slotOf, rankOf, counts, tally>>
    BY <1>7 DEF Over, vars
  <2>2. /\ Ranks' = Ranks /\ Groups' = Groups /\ Hosts' = Hosts /\ Now' = Now /\ Group' = Group /\ Slots' = Slots
        /\ SlotRanks' = SlotRanks /\ Given' = Given /\ Loose' = Loose /\ Unplaced' = Unplaced
        /\ Unfinished' = Unfinished /\ AnyRank' = AnyRank
    BY <2>1 DEF Ranks, Groups, Hosts, Now, Group, Slots, SlotRanks, Given, Loose, Unplaced,
                Unfinished, GivenBlocks, AnyRank
  <2>3. Placed' = Placed
    BY <2>2 DEF Placed
  <2>4. Typed' /\ Counted' /\ Progress'
    BY <2>1, <2>2 DEF IInv, Typed, Counted, Progress
  <2>5. SlotsTallied' /\ SlotsLevel' /\ SlotsSorted'
    BY <2>1, <2>2, <2>3 DEF IInv, SlotsTallied, SlotsLevel, SlotsSorted
  <2>6. Level' /\ BlocksInOrder' /\ LastLevel'
    BY <2>1, <2>2 DEF IInv, Level, BlocksInOrder, LastLevel
  <2> QED
    BY <2>4, <2>5, <2>6 DEF IInv
<1> QED
  BY <1>1, <1>2, <1>3, <1>4, <1>5, <1>6, <1>7 DEF Next

THEOREM AssignmentInvariant ==
  Spec => []IInv
<1>1. Init => IInv
  BY InitIInv
<1>2. IInv /\ [Next]_vars => IInv'
  BY IInvInductive
<1> QED
  BY <1>1, <1>2, PTL DEF Spec

----------------------------------------------------------------------------
(* The properties. *)

\* The loads the planner balances by are what the ranks hold, whatever the
\* groups: nothing is counted twice or lost on the way from slots to ranks and
\* from one group to the next.
THEOREM LoadsAreHeld ==
  Spec => []TypeOK
<1>1. IInv => TypeOK
  <2> SUFFICES ASSUME IInv PROVE TypeOK
    OBVIOUS
  <2>1. phase \in {"matrices", "slots", "blocks"}
    BY DEF IInv, Typed
  <2>2. \A r \in Ranks : Total(r) = Held(r)
    BY HeldIs DEF IInv, Counted, Total
  <2> QED
    BY <2>1, <2>2 DEF TypeOK
<1> QED
  BY <1>1, AssignmentInvariant, PTL

LEMMA RangeFinite ==
  ASSUME NEW f, IsFiniteSet(DOMAIN f)
  PROVE  IsFiniteSet(Range(f))
<1> DEFINE D == DOMAIN f
           R == Range(f)
           g == [x \in D |-> f[x]]
<1>1. g \in [D -> R] /\ \A y \in R : \E x \in D : g[x] = y
  BY DEF Range
<1>2. g \in Surjection(D, R)
  <2> HIDE DEF g, D, R
  <2> QED
    BY <1>1 DEF Surjection
<1> HIDE DEF g, D, R
<1>3. IsFiniteSet(D)
  BY DEF D
<1>4. IsFiniteSet(R)
  BY <1>2, <1>3, FS_Surjection
<1> QED
  BY <1>4 DEF R

LEMMA SizesAre ==
  ASSUME Typed
  PROVE  Sizes = SizesTo(Groups, group) /\ IsFiniteSet(Sizes) /\ Sizes \subseteq Nat
<1> DEFINE gs == Groups
           T == {h \in DOMAIN gs : h < group}
           all == [g \in T |-> SizesOf(gs[g])]
<1>1. Sizes = SizesTo(Groups, group) /\ Sizes = UNION {SizesOf(gs[g]) : g \in T}
  BY DEF Sizes, SizesTo, SizesOf, Groups
<1>2. IsFiniteSet(T)
  <2>1. DOMAIN gs = 1 .. Len(gs) /\ Len(gs) \in Nat
    BY RanksTyped
  <2>2. IsFiniteSet(1 .. Len(gs))
    BY <2>1, FS_Interval
  <2>3. IsFiniteSet(DOMAIN gs)
    BY <2>1, <2>2
  <2> QED
    BY <2>3, FS_Subset
<1>3. \A g \in DOMAIN gs : IsFiniteSet(SizesOf(gs[g])) /\ SizesOf(gs[g]) \subseteq Nat
  <2> SUFFICES ASSUME NEW g \in DOMAIN gs PROVE IsFiniteSet(SizesOf(gs[g])) /\ SizesOf(gs[g]) \subseteq Nat
    OBVIOUS
  <2> DEFINE ms == gs[g].matrices
             bs == gs[g].blocks
             numels == [b \in DOMAIN bs |-> bs[b].numel]
  <2>1. IsFiniteSet(DOMAIN ms) /\ IsFiniteSet(DOMAIN bs)
    BY GroupTyped
  <2>2. SizesOf(gs[g]) = Range(ms) \cup Range(numels)
    BY DEF SizesOf, Range
  <2>3. DOMAIN numels = DOMAIN bs
    OBVIOUS
  <2> HIDE DEF ms, bs, numels
  <2>4. IsFiniteSet(Range(ms)) /\ IsFiniteSet(Range(numels))
    BY <2>1, <2>3, RangeFinite
  <2>5. IsFiniteSet(Range(ms) \cup Range(numels))
    BY <2>4, FS_Union
  <2> QED
    BY <2>2, <2>5, SizesTyped
<1>4. T \subseteq DOMAIN gs
  OBVIOUS
<1> HIDE DEF gs, T
<1>5. DOMAIN all = T /\ \A g \in T : all[g] = SizesOf(gs[g])
  OBVIOUS
<1>6. Range(all) = {SizesOf(gs[g]) : g \in T}
  BY DEF Range
<1> HIDE DEF all
<1>7. IsFiniteSet(Range(all))
  BY <1>2, <1>5, RangeFinite
<1>8. \A U \in Range(all) : IsFiniteSet(U) /\ U \subseteq Nat
  BY <1>3, <1>4, <1>6
<1>9. IsFiniteSet(UNION Range(all)) /\ UNION Range(all) \subseteq Nat
  <2>1. IsFiniteSet(UNION Range(all))
    BY <1>7, <1>8, FS_UNION
  <2> QED
    BY <1>8, <2>1
<1> QED
  BY <1>1, <1>6, <1>9

\* Without hosts, when every rank may hold every block, no rank ends a group with
\* more than one matrix or block beyond another, however many groups came before.
THEOREM GroupsStayBalanced ==
  Spec => []GroupsBalanced
<1>1. IInv => GroupsBalanced
  <2> SUFFICES ASSUME IInv, phase = "matrices", input.hosts = <<>>, AnyRank,
                      NEW q \in Ranks, NEW r \in Ranks
               PROVE  Total(q) - Total(r) <= Max({0} \cup Sizes)
    BY DEF GroupsBalanced
  <2>1. Typed /\ SlotsTallied /\ Level
    BY DEF IInv
  <2>2. IsTally(tally, Hosts) /\ DOMAIN Hosts = Ranks
    BY <2>1, RanksTyped DEF Typed
  <2>3. \A x \in Ranks : Total(x) = tally.carried[x] /\ tally.carried[x] \in Nat
    BY <2>1, <2>2 DEF SlotsTallied, Total, IsTally
  <2> DEFINE S == {0} \cup Sizes
  <2>4. S # {} /\ S \subseteq Nat /\ 0 \in S
    BY <2>1, SizesAre
  <2>5. IsFiniteSet(S)
    <3>1. IsFiniteSet({0}) /\ IsFiniteSet(Sizes)
      BY <2>1, SizesAre, FS_Singleton
    <3> QED
      BY <3>1, FS_Union
  <2>6. WithinOne(Total(q) - Total(r), S)
    BY <2>1, <2>3, SizesAre DEF Level, WithinOne
  <2> DEFINE d == Total(q) - Total(r)
  <2>7. d \in Int
    BY <2>3
  <2> HIDE DEF S, d
  <2>8. Max(S) \in Nat /\ \A x \in S : x <= Max(S)
    BY <2>4, <2>5, GreatestNumber
  <2>9. d <= Max(S)
    BY <2>4, <2>6, <2>7, <2>8 DEF WithinOne, d
  <2> QED
    BY <2>9 DEF S, d
<1> QED
  BY <1>1, AssignmentInvariant, PTL

\* A rank takes a block only while no rank that may take it has less, whatever
\* the groups and the ranks their blocks may go to.
THEOREM BlocksLevelRanks ==
  Spec => []BlocksLevel
<1>1. IInv => BlocksLevel
  <2> DEFINE bs == Group.blocks
             begun == {b \in DOMAIN bs : GivenBlocks(group, b) > 0}
             m == Max(begun)
             last == bs[m]
  <2> SUFFICES ASSUME IInv, phase = "blocks", begun # {},
                      NEW j \in DOMAIN last.eligible, NEW k \in DOMAIN last.eligible, counts[group][m][j] > 0
               PROVE  Total(last.eligible[j]) - Total(last.eligible[k]) <= last.numel
    BY DEF BlocksLevel
  <2>1. Typed /\ SlotsTallied /\ LastLevel
    BY DEF IInv
  <2>2. IsTally(tally, Hosts) /\ DOMAIN Hosts = Ranks /\ group \in DOMAIN Groups
    BY <2>1, RanksTyped DEF Typed
  <2>3. \A x \in Ranks : Total(x) = tally.carried[x]
    BY <2>1, <2>2 DEF SlotsTallied, Total, IsTally
  <2>4. IsFiniteSet(DOMAIN bs) /\ DOMAIN bs \subseteq Nat
        /\ \A b \in DOMAIN bs : \A i \in DOMAIN bs[b].eligible : bs[b].eligible[i] \in Ranks
    BY <2>1, <2>2, GroupTyped DEF Group, Groups
  <2>5. begun \subseteq DOMAIN bs /\ IsFiniteSet(begun) /\ begun \subseteq Nat
    <3>1. begun \subseteq DOMAIN bs
      OBVIOUS
    <3> QED
      BY <2>4, <3>1, FS_Subset
  <2>6. m \in begun /\ \A x \in begun : x <= m
    <3> HIDE DEF begun
    <3> QED
      BY <2>5, GreatestNumber
  <2>7. \A b \in DOMAIN bs : GivenBlocks(group, b) = GivenIn(Given[b])
    BY DEF GivenBlocks, GivenIn, Given
  <2>8. \A b \in DOMAIN bs : GivenIn(Given[b]) \in Nat
    <3> SUFFICES ASSUME NEW b \in DOMAIN bs PROVE GivenIn(Given[b]) \in Nat
      OBVIOUS
    <3>1. Given[b] \in [DOMAIN bs[b].eligible -> Nat]
      BY <2>1, <2>2 DEF Typed, Given, Group, Groups
    <3>2. IsFiniteSet(DOMAIN bs[b].eligible)
      BY <2>1, <2>2, GroupTyped DEF Group, Groups
    <3>3. IsFiniteSet(DOMAIN Given[b]) /\ \A i \in DOMAIN Given[b] : Given[b][i] \in Nat
      BY <3>1, <3>2
    <3> QED
      BY <3>3, GivenTyped
  <2>9. m \in DOMAIN bs /\ GivenIn(Given[m]) > 0
    BY <2>6, <2>7
  <2>10. \A c \in DOMAIN bs : c > m => GivenIn(Given[c]) = 0
    <3> SUFFICES ASSUME NEW c \in DOMAIN bs, c > m, GivenIn(Given[c]) # 0 PROVE FALSE
      OBVIOUS
    <3>1. GivenBlocks(group, c) > 0
      BY <2>7, <2>8
    <3>2. c <= m /\ c \in Nat /\ m \in Nat
      BY <2>4, <2>6, <2>9, <3>1
    <3> QED
      BY <3>2
  <2>11. Given[m][j] > 0
    BY DEF Given
  <2> HIDE DEF m, begun
  <2>12. tally.carried[last.eligible[j]] - tally.carried[last.eligible[k]] <= last.numel
    BY <2>1, <2>9, <2>10, <2>11 DEF LastLevel
  <2> QED
    BY <2>3, <2>4, <2>9, <2>12
<1> QED
  BY <1>1, AssignmentInvariant, PTL

----------------------------------------------------------------------------
(* The hosts a group goes to.  HostsIn is HostsWith for the slots so of a   *)
(* group and their ranks ro, Before the hosts of the groups before the nth. *)

HostsIn(hosts, so, ro) == {hosts[OwnerIn(so, ro, i)] : i \in {j \in DOMAIN so : OwnerIn(so, ro, j) # 0}}
BeforeIn(hosts, slots, ranks, n) == UNION {HostsIn(hosts, slots[g], ranks[g]) : g \in 1 .. n - 1}
Spread(hosts, gs, slots, ranks, g) ==
  \/ Len(gs[g].matrices) > Cardinality(HostsOf(hosts) \ BeforeIn(hosts, slots, ranks, g))
  \/ HostsIn(hosts, slots[g], ranks[g]) \cap BeforeIn(hosts, slots, ranks, g) = {}

NoBlocks == \A g \in DOMAIN counts : counts[g] = <<>>
Before == BeforeIn(Hosts, slotOf, rankOf, group)
Fresh == HostsOf(Hosts) \ Before

\* A host that holds nothing yet has the least key there is, and there is one as
\* long as a slot with a matrix waits.
HostsTallied ==
  \A h \in HostsOf(Hosts) :
    /\ tally.hostSecondary[h] = 0
    /\ tally.hostCarried[h] = 0 <=> h \in Fresh
    /\ (\A r \in tally.taken : Hosts[r] # h) => tally.hostPrimary[h] = 0
SlotsOnFresh ==
  Len(Group.matrices) <= Cardinality(Fresh) =>
    \A s \in Placed : LoadIn(Group.matrices, Slots, s) > 0 => Hosts[SlotRanks[s]] \in Fresh

HInv ==
  input.hosts # <<>> /\ NoBlocks =>
    /\ phase = "slots" => HostsTallied /\ SlotsOnFresh
    /\ \A g \in DOMAIN Groups :
         g < group \/ (g = group /\ phase = "blocks") => Spread(Hosts, Groups, slotOf, rankOf, g)

LEMMA MatricesPositive ==
  ASSUME Typed, NEW g \in DOMAIN Groups
  PROVE  /\ \A i \in DOMAIN Groups[g].matrices : Groups[g].matrices[i] \in Nat \ {0}
         /\ Len(Groups[g].matrices) \in Nat /\ Cardinality(DOMAIN Groups[g].matrices) = Len(Groups[g].matrices)
<1> DEFINE E == Seq(1 .. input.ranks) \ {<<>>}
           B == [count : Nat, numel : Nat \ {0}, eligible : E]
           P == Nat \ {0}
           S == [matrices : Seq(P), blocks : Seq(B)]
           gs == Groups
<1>1. gs \in Seq(S) /\ g \in DOMAIN gs
  BY InputsAssumption DEF Typed, Groups
<1>2. gs[g] \in S
  <2> HIDE DEF S, gs
  <2> QED BY <1>1
<1> DEFINE ms == gs[g].matrices
<1>3. ms \in Seq(P)
  BY <1>2
<1> HIDE DEF gs, S, ms, P
<1>4. \A i \in DOMAIN ms : ms[i] \in P
  BY <1>3
<1>5. Len(ms) \in Nat /\ DOMAIN ms = 1 .. Len(ms)
  BY <1>3
<1>6. Cardinality(1 .. Len(ms)) = Len(ms)
  <2>1. Cardinality(1 .. Len(ms)) = IF 1 > Len(ms) THEN 0 ELSE Len(ms) - 1 + 1
    BY <1>5, FS_Interval
  <2> QED
    BY <1>5, <2>1
<1> QED
  BY <1>4, <1>5, <1>6 DEF ms, gs, P

\* Without blocks a rank holds nothing just when it owns no matrix.
LEMMA HoldsNothing ==
  ASSUME Typed, NoBlocks, NEW r \in Ranks
  PROVE  HeldAll(Groups, slotOf, rankOf, counts, r) = 0 <=>
           \A g \in DOMAIN Groups : \A i \in DOMAIN slotOf[g] : OwnerIn(slotOf[g], rankOf[g], i) # r
<1> DEFINE gs == Groups
           f == [g \in DOMAIN gs |-> HeldIn(gs[g], slotOf[g], rankOf[g], counts[g], r)]
           Owns(g) == {i \in DOMAIN slotOf[g] : OwnerIn(slotOf[g], rankOf[g], i) = r}
<1>1. HeldAll(gs, slotOf, rankOf, counts, r) = SumFunctionOnSet(f, DOMAIN gs)
  BY DEF HeldAll
<1>2. \A g \in DOMAIN gs : f[g] \in Nat
  BY HeldTyped
<1>3. IsFiniteSet(DOMAIN gs)
  <2>1. DOMAIN gs = 1 .. Len(gs) /\ Len(gs) \in Nat
    BY RanksTyped
  <2>2. IsFiniteSet(1 .. Len(gs))
    BY <2>1, FS_Interval
  <2> QED
    BY <2>1, <2>2
<1>4. SumFunctionOnSet(f, DOMAIN gs) = 0 <=> \A g \in DOMAIN gs : f[g] = 0
  <2> DEFINE D == DOMAIN gs
  <2> HIDE DEF f, gs, D
  <2>1. SumFunctionOnSet(f, D) = 0 <=> \A g \in D : f[g] = 0
    BY <1>2, <1>3, SumIsZero DEF D
  <2> QED
    BY <2>1 DEF D
<1>5. ASSUME NEW g \in DOMAIN gs
      PROVE  f[g] = 0 <=> Owns(g) = {}
  <2> DEFINE ms == gs[g].matrices
             bs == gs[g].blocks
             own == Owns(g)
  <2>1. AllBlocksIn(bs, counts[g], r) = 0
    <3>1. DOMAIN counts[g] = {}
      <4>1. counts[g] = <<>>
        BY DEF NoBlocks, Typed
      <4> QED
        BY <4>1
    <3> QED
      BY <3>1, SumOfNone DEF AllBlocksIn
  <2>2. f[g] = MatricesIn(ms, slotOf[g], rankOf[g], r)
    <3>1. MatricesIn(ms, slotOf[g], rankOf[g], r) \in Nat
      BY HeldTyped
    <3> QED
      BY <2>1, <3>1 DEF HeldIn
  <2>3. MatricesIn(ms, slotOf[g], rankOf[g], r) = SumFunctionOnSet(ms, own)
    BY DEF MatricesIn
  <2>4. own \subseteq DOMAIN ms
    BY DEF Typed
  <2>5. IsFiniteSet(DOMAIN ms) /\ \A i \in DOMAIN ms : ms[i] \in Nat \ {0}
    BY GroupTyped, MatricesPositive
  <2> HIDE DEF own, ms, f
  <2>6. IsFiniteSet(own) /\ \A i \in own : ms[i] \in Nat /\ ms[i] # 0
    BY <2>4, <2>5, FS_Subset
  <2>7. SumFunctionOnSet(ms, own) = 0 <=> \A i \in own : ms[i] = 0
    BY <2>6, SumIsZero
  <2> QED
    BY <2>2, <2>3, <2>6, <2>7 DEF own
<1> HIDE DEF f
<1> QED
  BY <1>1, <1>4, <1>5

\* When a group's slots go to ranks, the hosts that hold nothing yet are those
\* no group before went to.
LEMMA FreshHostsHoldNothing ==
  ASSUME IInv, NoBlocks, phase = "matrices", Now, NEW h \in HostsOf(Hosts)
  PROVE  h \in Fresh <=> \A r \in Members(Hosts, h) : tally.carried[r] + tally.primary[r] = 0
<1>1. Typed /\ Counted /\ Progress
  BY DEF IInv
<1>2. DOMAIN Hosts = Ranks /\ 0 \notin Ranks /\ DOMAIN Groups \subseteq Nat /\ group \in DOMAIN Groups
      /\ DOMAIN Groups = 1 .. Len(Groups) /\ Len(Groups) \in Nat
  BY <1>1, RanksTyped
<1>3. ASSUME NEW r \in Ranks
      PROVE  tally.carried[r] + tally.primary[r] = 0 <=>
               \A g \in DOMAIN Groups : \A i \in DOMAIN slotOf[g] : OwnerIn(slotOf[g], rankOf[g], i) # r
  BY <1>1, HoldsNothing DEF Counted
<1>4. ASSUME NEW g \in DOMAIN Groups, NEW i \in DOMAIN slotOf[g]
      PROVE  /\ OwnerIn(slotOf[g], rankOf[g], i) \in Ranks \cup {0}
             /\ ~(g < group) => OwnerIn(slotOf[g], rankOf[g], i) = 0
  <2>1. slotOf[g][i] \in Ranks \cup {0} /\ rankOf[g] \in [Ranks -> Ranks \cup {0}]
    BY <1>1 DEF Typed
  <2>2. ~(g < group) => NonePlaced(rankOf[g])
    <3>1. ~(g < group) => g = group \/ g > group
      BY <1>2
    <3> QED
      BY <1>1, <3>1 DEF Progress, SlotRanks
  <2> QED
    BY <2>1, <2>2 DEF OwnerIn, NonePlaced
<1>5. h \in Before <=> \E g \in DOMAIN Groups : \E i \in DOMAIN slotOf[g] :
                         g < group /\ OwnerIn(slotOf[g], rankOf[g], i) # 0 /\ Hosts[OwnerIn(slotOf[g], rankOf[g], i)] = h
  <2>1. \A g : g \in 1 .. group - 1 <=> g \in DOMAIN Groups /\ g < group
    BY <1>2
  <2> QED
    BY <2>1 DEF Before, BeforeIn, HostsIn
<1>6. h \notin Before <=> \A r \in Members(Hosts, h) :
                            \A g \in DOMAIN Groups : \A i \in DOMAIN slotOf[g] : OwnerIn(slotOf[g], rankOf[g], i) # r
  <2>1. \A r : r \in Members(Hosts, h) <=> r \in Ranks /\ Hosts[r] = h
    BY <1>2 DEF Members
  <2> QED
    BY <1>2, <1>4, <1>5, <2>1
<1> QED
  BY <1>2, <1>3, <1>6 DEF Fresh, Members

LEMMA InitHInv ==
  Init => HInv
<1> SUFFICES ASSUME Init PROVE HInv
  OBVIOUS
<1>1. Typed /\ group = 1 /\ phase = "matrices"
  BY InitIInv DEF Init, IInv
<1>2. \A g \in DOMAIN Groups : ~(g < 1)
  BY <1>1, RanksTyped
<1> QED
  BY <1>1, <1>2 DEF HInv

\* What the groups before hold does not depend on this one.
LEMMA BeforeSame ==
  ASSUME NEW hosts, NEW slots, NEW ranks, NEW slots2, NEW ranks2, NEW n \in Nat,
         \A g \in 1 .. n - 1 : slots2[g] = slots[g] /\ ranks2[g] = ranks[g]
  PROVE  BeforeIn(hosts, slots2, ranks2, n) = BeforeIn(hosts, slots, ranks, n)
BY DEF BeforeIn

LEMMA SpreadSame ==
  ASSUME NEW hosts, NEW gs, NEW slots, NEW ranks, NEW slots2, NEW ranks2, NEW n \in Nat \ {0},
         \A g \in 1 .. n : slots2[g] = slots[g] /\ ranks2[g] = ranks[g],
         Spread(hosts, gs, slots, ranks, n)
  PROVE  Spread(hosts, gs, slots2, ranks2, n)
<1>1. n \in 1 .. n /\ \A g \in 1 .. n - 1 : g \in 1 .. n
  OBVIOUS
<1>2. slots2[n] = slots[n] /\ ranks2[n] = ranks[n]
  BY <1>1
<1>3. BeforeIn(hosts, slots2, ranks2, n) = BeforeIn(hosts, slots, ranks, n)
  BY <1>1, BeforeSame
<1> QED
  BY <1>2, <1>3 DEF Spread

\* A step that leaves the groups before alone keeps what was said of them.
LEMMA SpreadKept ==
  ASSUME IInv, HInv, input.hosts # <<>>, NoBlocks, UNCHANGED input,
         \A g \in DOMAIN Groups \ {group} : slotOf'[g] = slotOf[g] /\ rankOf'[g] = rankOf[g]
  PROVE  /\ \A g \in DOMAIN Groups : g < group => Spread(Hosts, Groups, slotOf', rankOf', g)
         /\ BeforeIn(Hosts, slotOf', rankOf', group) = Before
<1>1. /\ DOMAIN Groups = 1 .. Len(Groups) /\ Len(Groups) \in Nat /\ group \in 1 .. Len(Groups) + 1
  BY RanksTyped DEF IInv, Typed
<1>2. ASSUME NEW g \in DOMAIN Groups, g < group
      PROVE  Spread(Hosts, Groups, slotOf', rankOf', g)
  <2>1. g \in Nat \ {0} /\ \A x \in 1 .. g : x \in DOMAIN Groups \ {group}
    BY <1>1, <1>2
  <2>2. \A x \in 1 .. g : slotOf'[x] = slotOf[x] /\ rankOf'[x] = rankOf[x]
    BY <2>1
  <2>3. Spread(Hosts, Groups, slotOf, rankOf, g)
    BY <1>2 DEF HInv
  <2> QED
    BY <2>1, <2>2, <2>3, SpreadSame
<1>3. BeforeIn(Hosts, slotOf', rankOf', group) = Before
  <2>1. \A x \in 1 .. group - 1 : x \in DOMAIN Groups \ {group}
    BY <1>1
  <2>2. \A x \in 1 .. group - 1 : slotOf'[x] = slotOf[x] /\ rankOf'[x] = rankOf[x]
    BY <2>1
  <2>3. group \in Nat
    BY <1>1
  <2> QED
    BY <2>2, <2>3, BeforeSame DEF Before
<1> QED
  BY <1>2, <1>3

\* The hosts of a group's matrices are those of its slots that hold any.
LEMMA SlotsSpread ==
  ASSUME IInv, phase = "slots", Unplaced = {}, SlotsOnFresh
  PROVE  Spread(Hosts, Groups, slotOf, rankOf, group)
<1>1. Typed /\ Progress
  BY DEF IInv
<1>2. group \in DOMAIN Groups /\ 0 \notin Ranks
  BY <1>1, RanksTyped DEF Typed
<1> DEFINE ms == Group.matrices
<1>3. /\ IsFiniteSet(DOMAIN ms) /\ \A i \in DOMAIN ms : ms[i] \in Nat /\ ms[i] # 0
      /\ Slots \in [DOMAIN ms -> Ranks \cup {0}] /\ \A s : LoadIn(ms, Slots, s) \in Nat
      /\ Loose = {i \in DOMAIN ms : Slots[i] = 0} /\ Unplaced = {s \in Ranks : SlotRanks[s] = 0}
  BY <1>1, <1>2, GroupNow, MatricesPositive DEF Group, Groups
<1>4. \A i \in DOMAIN ms : Slots[i] \in Placed
  BY <1>1, <1>3 DEF Progress, Placed
<1>5. \A i \in DOMAIN ms : LoadIn(ms, Slots, Slots[i]) > 0
  <2> SUFFICES ASSUME NEW i \in DOMAIN ms PROVE LoadIn(ms, Slots, Slots[i]) > 0
    OBVIOUS
  <2> DEFINE S == {j \in DOMAIN ms : Slots[j] = Slots[i]}
  <2>1. IsFiniteSet(S) /\ i \in S /\ \A j \in S : ms[j] \in Nat /\ ms[j] # 0
    BY <1>3, FS_Subset
  <2>2. LoadIn(ms, Slots, Slots[i]) = SumFunctionOnSet(ms, S)
    BY DEF LoadIn
  <2> HIDE DEF S
  <2>3. SumFunctionOnSet(ms, S) = 0 <=> \A j \in S : ms[j] = 0
    BY <2>1, SumIsZero
  <2>4. LoadIn(ms, Slots, Slots[i]) # 0 /\ LoadIn(ms, Slots, Slots[i]) \in Nat
    BY <1>3, <2>1, <2>2, <2>3
  <2> QED
    BY <2>4
<1>6. CASE Len(ms) <= Cardinality(Fresh)
  <2>1. \A i \in DOMAIN ms : Hosts[SlotRanks[Slots[i]]] \in Fresh
    BY <1>4, <1>5, <1>6 DEF SlotsOnFresh
  <2>2. \A i \in DOMAIN ms : OwnerIn(Slots, SlotRanks, i) = SlotRanks[Slots[i]]
    BY <1>2, <1>3, <1>4 DEF OwnerIn, Placed
  <2>3. HostsIn(Hosts, Slots, SlotRanks) \subseteq Fresh
    BY <1>3, <2>1, <2>2 DEF HostsIn
  <2>4. HostsIn(Hosts, slotOf[group], rankOf[group]) \cap Before = {}
    BY <2>3 DEF Fresh, Slots, SlotRanks
  <2> QED
    BY <2>4 DEF Spread, Before
<1>7. CASE ~(Len(ms) <= Cardinality(Fresh))
  <2>1. Cardinality(Fresh) \in Nat
    <3>1. IsFiniteSet(HostsOf(Hosts))
      BY <1>1, RanksTyped, HostsFinite
    <3>2. IsFiniteSet(Fresh)
      BY <3>1, FS_Subset DEF Fresh
    <3> QED
      BY <3>2, FS_CardinalityType
  <2>2. Len(ms) \in Nat
    BY <1>1, <1>2, MatricesPositive DEF Group, Groups
  <2>3. Len(ms) > Cardinality(Fresh)
    BY <1>7, <2>1, <2>2
  <2>4. Group = Groups[group]
    BY DEF Group, Groups
  <2> QED
    BY <2>3, <2>4 DEF Spread, Fresh, Before
<1> QED
  BY <1>6, <1>7

\* While a slot with a matrix waits, some host that holds nothing yet has no
\* slot of this group either.
LEMMA SomeHostWaits ==
  ASSUME IInv, phase = "slots", NEW s \in Unplaced, LoadIn(Group.matrices, Slots, s) > 0,
         Len(Group.matrices) <= Cardinality(Fresh)
  PROVE  \E h \in Fresh : \A r \in tally.taken : Hosts[r] # h
<1> DEFINE ms == Group.matrices
           all == Placed \cup {s}
           touched == {Hosts[r] : r \in tally.taken}
<1>1. Typed /\ SlotsTallied /\ SlotsSorted
  BY DEF IInv
<1>2. /\ group \in DOMAIN Groups /\ IsFiniteSet(Ranks) /\ Hosts \in Seq(Nat) /\ DOMAIN Hosts = Ranks
  BY <1>1, RanksTyped DEF Typed
<1>3. /\ IsFiniteSet(DOMAIN ms) /\ \A i \in DOMAIN ms : ms[i] \in Nat
      /\ Cardinality(DOMAIN ms) = Len(ms)
      /\ \A x : LoadIn(ms, Slots, x) \in Nat
      /\ Unplaced \subseteq Ranks /\ Placed \subseteq Ranks /\ s \notin Placed
  BY <1>1, <1>2, GroupNow, MatricesPositive DEF Group, Groups, Placed
<1>4. \A x \in all : LoadIn(ms, Slots, x) > 0
  <2>1. \A x \in Placed : LoadIn(ms, Slots, s) <= LoadIn(ms, Slots, x)
    BY <1>1 DEF SlotsSorted
  <2> QED
    BY <1>3, <2>1
<1>5. \A x \in all : \E i \in DOMAIN ms : Slots[i] = x
  <2> SUFFICES ASSUME NEW x \in all, \A i \in DOMAIN ms : Slots[i] # x PROVE FALSE
    OBVIOUS
  <2>1. {i \in DOMAIN ms : Slots[i] = x} = {}
    OBVIOUS
  <2>2. LoadIn(ms, Slots, x) = 0
    BY <2>1, SumOfNone DEF LoadIn
  <2> QED
    BY <1>4, <2>2
<1> HIDE DEF all
<1>6. Cardinality(all) <= Cardinality(DOMAIN ms)
  <2> DEFINE D == DOMAIN ms
             one == [x \in all |-> CHOOSE i \in D : Slots[i] = x]
  <2>1. \A x \in all : one[x] \in D /\ Slots[one[x]] = x
    BY <1>5
  <2>2. one \in [all -> D]
    BY <2>1
  <2> HIDE DEF one, D
  <2>3. \A x, y \in all : one[x] = one[y] => x = y
    BY <2>1
  <2>4. one \in Injection(all, D)
    BY <2>2, <2>3 DEF Injection, IsInjective
  <2>5. IsFiniteSet(D)
    BY <1>3 DEF D
  <2>6. Cardinality(all) <= Cardinality(D)
    BY <2>4, <2>5, FS_Injection
  <2> QED
    BY <2>6 DEF D
<1>7. IsFiniteSet(Placed) /\ Cardinality(all) = Cardinality(Placed) + 1 /\ Cardinality(Placed) \in Nat
  <2>1. IsFiniteSet(Placed)
    BY <1>2, <1>3, FS_Subset
  <2>2. Cardinality(Placed \cup {s}) = Cardinality(Placed) + 1
    BY <1>3, <2>1, FS_AddElement
  <2>3. Cardinality(Placed) \in Nat
    BY <2>1, FS_CardinalityType
  <2> QED
    BY <2>1, <2>2, <2>3 DEF all
<1>8. IsFiniteSet(touched) /\ Cardinality(touched) <= Cardinality(Placed)
  <2> DEFINE P == Placed
             at == [x \in P |-> Hosts[SlotRanks[x]]]
  <2>1. touched = {Hosts[SlotRanks[x]] : x \in P}
    BY <1>1 DEF SlotsTallied
  <2>2. at \in [P -> touched] /\ \A h \in touched : \E x \in P : at[x] = h
    BY <2>1
  <2> HIDE DEF at, P, touched
  <2>3. at \in Surjection(P, touched)
    BY <2>2 DEF Surjection
  <2>4. IsFiniteSet(P)
    BY <1>7 DEF P
  <2>5. IsFiniteSet(touched) /\ Cardinality(touched) <= Cardinality(P)
    BY <2>3, <2>4, FS_Surjection
  <2> QED
    BY <2>5 DEF P
<1>9. ~(Fresh \subseteq touched)
  <2> SUFFICES ASSUME Fresh \subseteq touched PROVE FALSE
    OBVIOUS
  <2> HIDE DEF touched, ms
  <2>1. IsFiniteSet(Fresh) /\ Cardinality(Fresh) <= Cardinality(touched)
    BY <1>8, FS_Subset
  <2>2. Cardinality(Fresh) \in Nat /\ Cardinality(touched) \in Nat
    BY <1>8, <2>1, FS_CardinalityType
  <2>3. Len(ms) <= Cardinality(Fresh)
    BY DEF ms
  <2>4. Cardinality(DOMAIN ms) \in Nat
    BY <1>3, FS_CardinalityType
  <2> QED
    BY <1>3, <1>6, <1>7, <1>8, <2>1, <2>2, <2>3, <2>4
<1> QED
  BY <1>9

\* So the slot goes to a host that holds nothing yet.
LEMMA FreshHostChosen ==
  ASSUME IInv, HostsTallied, phase = "slots", NEW h \in Fresh, \A r \in tally.taken : Hosts[r] # h,
         NEW r \in Ranks, Chosen(tally, Hosts, TRUE, r)
  PROVE  Hosts[r] \in Fresh
<1>1. Typed
  BY DEF IInv
<1>2. DOMAIN Hosts = Ranks /\ Hosts \in Seq(Nat) /\ AreHosts(Hosts) /\ IsTally(tally, Hosts)
  BY <1>1, RanksTyped DEF Typed
<1>3. h \in HostsOf(Hosts) /\ Hosts[r] \in HostsOf(Hosts)
  BY <1>2 DEF Fresh, HostsOf
<1>4. PICK q \in Ranks : Hosts[q] = h
  BY <1>2, <1>3 DEF HostsOf
<1>5. h \in OpenHosts(tally, Hosts, TRUE)
  BY <1>2, <1>4 DEF OpenHosts, OpenRanks
<1> DEFINE k == HostKey(tally, Hosts, h)
           c == HostKey(tally, Hosts, Hosts[r])
<1>6. ~Precedes(k, c)
  BY <1>5 DEF Chosen
<1>7. /\ k[1] = tally.hostPrimary[h] /\ k[2] = tally.hostSecondary[h] /\ k[3] = tally.hostCarried[h]
      /\ c[1] = tally.hostPrimary[Hosts[r]] /\ c[2] = tally.hostSecondary[Hosts[r]]
      /\ c[3] = tally.hostCarried[Hosts[r]]
  BY DEF HostKey
<1>8. k[1] = 0 /\ k[2] = 0 /\ k[3] = 0 /\ c[2] = 0
  BY <1>3, <1>7 DEF HostsTallied
<1>9. c[1] \in Nat /\ c[3] \in Nat
  BY <1>2, <1>3, <1>7 DEF IsTally
<1>10. c[3] = 0
  <2> DEFINE k1 == k[1]  k2 == k[2]  k3 == k[3]  k4 == k[4]
             c1 == c[1]  c2 == c[2]  c3 == c[3]  c4 == c[4]
  <2>1. ~(k1 < c1) /\ ~(k1 = c1 /\ k2 < c2) /\ ~(k1 = c1 /\ k2 = c2 /\ k3 < c3)
    BY <1>6 DEF Precedes
  <2>2. k1 = 0 /\ k2 = 0 /\ k3 = 0 /\ c2 = 0 /\ c1 \in Nat /\ c3 \in Nat
    BY <1>8, <1>9
  <2> HIDE DEF k1, k2, k3, k4, c1, c2, c3, c4
  <2>3. c3 = 0
    BY <2>1, <2>2
  <2> QED
    BY <2>3 DEF c3
<1> QED
  BY <1>3, <1>7, <1>10 DEF HostsTallied

LEMMA SlotsFullSpreads ==
  ASSUME IInv, HInv, SlotsFull
  PROVE  HInv'
<1>1. Typed /\ Counted /\ Progress
  BY DEF IInv
<1>2. Now /\ phase = "matrices"
  BY DEF SlotsFull, Now, Groups
<1>3. /\ UNCHANGED <<input, group, slotOf, rankOf, counts>> /\ tally' = NewTally(Hosts, Totals)
      /\ phase' = IF Group.matrices = <<>> THEN "blocks" ELSE "slots"
  BY DEF SlotsFull
<1>4. Ranks' = Ranks /\ Groups' = Groups /\ Hosts' = Hosts /\ Group' = Group /\ Slots' = Slots
      /\ SlotRanks' = SlotRanks /\ Unplaced' = Unplaced /\ Before' = Before /\ NoBlocks' = NoBlocks
  BY <1>3 DEF Ranks, Groups, Hosts, Group, Slots, SlotRanks, Unplaced, Before, NoBlocks
<1>5. Fresh' = Fresh
  BY <1>4 DEF Fresh
<1> SUFFICES ASSUME input.hosts # <<>>, NoBlocks
             PROVE  /\ HostsTallied' /\ SlotsOnFresh'
                    /\ \A g \in DOMAIN Groups :
                         g < group \/ (g = group /\ phase' = "blocks") => Spread(Hosts, Groups, slotOf, rankOf, g)
  BY <1>3, <1>4 DEF HInv
<1>6. /\ group \in DOMAIN Groups /\ DOMAIN Hosts = Ranks /\ Hosts \in Seq(Nat) /\ IsTally(tally, Hosts)
  BY <1>1, <1>2, RanksTyped DEF Typed
<1>7. HostsTallied'
  <2> DEFINE carried == Totals
             hosts == Hosts
             t == NewTally(hosts, carried)
  <2>1. \A r \in Ranks : carried[r] = tally.carried[r] + tally.primary[r]
        /\ tally.carried[r] \in Nat /\ tally.primary[r] \in Nat
    BY <1>6 DEF IsTally, Totals, Total
  <2>2. carried \in [DOMAIN hosts -> Nat] /\ hosts \in Seq(Nat)
    BY <1>6, <2>1 DEF Totals
  <2> HIDE DEF carried, hosts
  <2>3. \A h \in HostsOf(hosts) :
          /\ t.hostPrimary[h] = 0 /\ t.hostSecondary[h] = 0
          /\ t.hostCarried[h] = SumFunctionOnSet(carried, Members(hosts, h))
    BY <2>2, NewTallyIsEmpty
  <2>4. ASSUME NEW h \in HostsOf(hosts)
        PROVE  t.hostCarried[h] = 0 <=> h \in Fresh
    <3> DEFINE M == Members(hosts, h)
    <3>1. IsFiniteSet(M) /\ M \subseteq Ranks
      BY <1>6, <2>2, HostsFinite DEF Members, hosts
    <3>2. \A r \in M : carried[r] \in Nat
      BY <2>1, <3>1
    <3> HIDE DEF M
    <3>3. SumFunctionOnSet(carried, M) = 0 <=> \A r \in M : carried[r] = 0
      BY <3>1, <3>2, SumIsZero
    <3>4. h \in Fresh <=> \A r \in M : tally.carried[r] + tally.primary[r] = 0
      BY <1>2, FreshHostsHoldNothing DEF M, hosts
    <3> QED
      BY <2>1, <2>3, <3>1, <3>3, <3>4 DEF M
  <2>5. t = tally' /\ hosts = Hosts
    BY <1>3 DEF t, hosts, carried
  <2> HIDE DEF t
  <2> QED
    BY <1>4, <1>5, <2>3, <2>4, <2>5 DEF HostsTallied
<1>8. /\ SlotRanks \in [Ranks -> Ranks \cup {0}] /\ Unplaced = {x \in Ranks : SlotRanks[x] = 0}
      /\ NonePlaced(SlotRanks)
  BY <1>1, <1>2, <1>6, GroupNow DEF Progress
<1>9. SlotsOnFresh'
  <2>1. Placed' = {}
    BY <1>4, <1>8 DEF Placed, NonePlaced
  <2> QED
    BY <2>1 DEF SlotsOnFresh
<1>10. ASSUME NEW g \in DOMAIN Groups, g < group \/ (g = group /\ phase' = "blocks")
       PROVE  Spread(Hosts, Groups, slotOf, rankOf, g)
  <2>1. CASE g < group
    BY <2>1 DEF HInv
  <2>2. CASE g = group
    <3>1. Slots \in [DOMAIN Group.matrices -> Ranks \cup {0}] /\ 0 \notin Ranks
      BY <1>1, <1>6, GroupNow, RanksTyped
    <3>2. \A i \in DOMAIN Slots : OwnerIn(Slots, SlotRanks, i) = 0
      BY <1>8, <3>1 DEF OwnerIn, NonePlaced
    <3>3. HostsIn(Hosts, Slots, SlotRanks) = {}
      BY <3>2 DEF HostsIn
    <3> QED
      BY <2>2, <3>3 DEF Spread, Slots, SlotRanks
  <2> QED
    BY <1>10, <2>1, <2>2
<1> QED
  BY <1>7, <1>9, <1>10

LEMMA PlaceSlotSpreads ==
  ASSUME IInv, HInv, PlaceSlot
  PROVE  HInv'
<1> DEFINE ms == Group.matrices
           s == HeaviestSlot
           ro2 == SlotRanks'
           load(x) == LoadIn(ms, Slots, x)
<1>1. Typed /\ SlotsTallied
  BY DEF IInv
<1>2. phase = "slots" /\ UNCHANGED <<input, group, phase, slotOf, counts>>
  BY DEF PlaceSlot
<1>3. /\ s \in Unplaced /\ s \notin Placed /\ Placed \subseteq Ranks /\ Placed' = Placed \cup {s}
      /\ Unplaced \subseteq Ranks
  BY PlaceSlotDoes DEF Unplaced
<1>4. PICK r \in Ranks :
        /\ NextRank(r) /\ r \notin tally.taken
        /\ tally'.taken = tally.taken \cup {r}
        /\ tally'.hostPrimary = [tally.hostPrimary EXCEPT ![Hosts[r]] = @ + load(s)]
        /\ tally'.hostSecondary = [tally.hostSecondary EXCEPT ![Hosts[r]] = @ + 0]
        /\ tally'.hostCarried = tally.hostCarried
        /\ \A g \in DOMAIN Groups \ {group} : rankOf'[g] = rankOf[g]
        /\ ro2[s] = r /\ \A x \in Ranks \ {s} : ro2[x] = SlotRanks[x]
  BY PlaceSlotDoes
<1> HIDE DEF s
<1>5. Ranks' = Ranks /\ Groups' = Groups /\ Hosts' = Hosts /\ Group' = Group /\ Slots' = Slots
      /\ NoBlocks' = NoBlocks
  BY <1>2 DEF Ranks, Groups, Hosts, Group, Slots, NoBlocks
<1> SUFFICES ASSUME input.hosts # <<>>, NoBlocks
             PROVE  /\ HostsTallied' /\ SlotsOnFresh'
                    /\ \A g \in DOMAIN Groups : g < group => Spread(Hosts, Groups, slotOf, rankOf', g)
  BY <1>2, <1>5 DEF HInv
<1>6. \A g \in DOMAIN Groups \ {group} : slotOf'[g] = slotOf[g] /\ rankOf'[g] = rankOf[g]
  BY <1>2, <1>4
<1>7. /\ \A g \in DOMAIN Groups : g < group => Spread(Hosts, Groups, slotOf, rankOf', g)
      /\ Before' = Before
  <2>1. /\ \A g \in DOMAIN Groups : g < group => Spread(Hosts, Groups, slotOf', rankOf', g)
        /\ BeforeIn(Hosts, slotOf', rankOf', group) = Before
    BY <1>2, <1>6, SpreadKept
  <2> QED
    BY <1>2, <1>5, <2>1 DEF Before
<1>8. Fresh' = Fresh
  BY <1>5, <1>7 DEF Fresh
<1>9. HostsTallied /\ SlotsOnFresh
  BY <1>2 DEF HInv
<1>10. /\ DOMAIN Hosts = Ranks /\ Hosts \in Seq(Nat) /\ IsTally(tally, Hosts)
       /\ group \in DOMAIN Groups
  BY <1>1, <1>2, RanksTyped DEF Typed
<1>11. \A x \in Ranks : load(x) \in Nat
  BY <1>1, <1>10, GroupNow
<1>12. HostsTallied'
  <2> SUFFICES ASSUME NEW h \in HostsOf(Hosts)
               PROVE  /\ tally'.hostSecondary[h] = 0
                      /\ tally'.hostCarried[h] = 0 <=> h \in Fresh
                      /\ (\A q \in tally'.taken : Hosts[q] # h) => tally'.hostPrimary[h] = 0
    BY <1>5, <1>8 DEF HostsTallied
  <2>1. /\ tally.hostSecondary \in [HostsOf(Hosts) -> Nat] /\ tally.hostPrimary \in [HostsOf(Hosts) -> Nat]
    BY <1>10 DEF IsTally
  <2>2. tally'.hostSecondary[h] = 0
    BY <1>4, <1>9, <2>1 DEF HostsTallied
  <2>3. tally'.hostCarried[h] = 0 <=> h \in Fresh
    BY <1>4, <1>9 DEF HostsTallied
  <2>4. ASSUME \A q \in tally'.taken : Hosts[q] # h
        PROVE  tally'.hostPrimary[h] = 0
    <3>1. Hosts[r] # h /\ \A q \in tally.taken : Hosts[q] # h
      BY <1>4, <2>4
    <3>2. tally'.hostPrimary[h] = tally.hostPrimary[h]
      BY <1>4, <2>1, <3>1
    <3> QED
      BY <1>9, <3>1, <3>2 DEF HostsTallied
  <2> QED
    BY <2>2, <2>3, <2>4
<1>13. SlotsOnFresh'
  <2> SUFFICES ASSUME Len(ms) <= Cardinality(Fresh), NEW x \in Placed', load(x) > 0
               PROVE  Hosts[ro2[x]] \in Fresh
    BY <1>5, <1>8 DEF SlotsOnFresh
  <2>1. CASE x = s
    <3>1. PICK h \in Fresh : \A q \in tally.taken : Hosts[q] # h
      BY <1>2, <1>3, <2>1, SomeHostWaits
    <3>2. Chosen(tally, Hosts, TRUE, r)
      BY <1>4 DEF NextRank
    <3>3. Hosts[r] \in Fresh
      BY <1>2, <1>9, <3>1, <3>2, FreshHostChosen
    <3> QED
      BY <1>4, <2>1, <3>3
  <2>2. CASE x \in Placed
    <3>1. ro2[x] = SlotRanks[x]
      BY <1>3, <1>4, <2>2
    <3> QED
      BY <1>9, <2>2, <3>1 DEF SlotsOnFresh
  <2> QED
    BY <1>3, <2>1, <2>2
<1> QED
  BY <1>7, <1>12, <1>13

LEMMA HInvInductive ==
  IInv /\ HInv /\ [Next]_vars => HInv'
<1> SUFFICES ASSUME IInv, HInv, [Next]_vars PROVE HInv'
  OBVIOUS
<1>1. Typed
  BY DEF IInv
<1>2. CASE FillSlot
  <2>1. UNCHANGED <<input, group, phase, rankOf, counts, tally>> /\ phase = "matrices"
    BY <1>2 DEF FillSlot
  <2>2. \A g \in DOMAIN Groups \ {group} : slotOf'[g] = slotOf[g] /\ rankOf'[g] = rankOf[g]
    BY <1>1, <1>2 DEF FillSlot, Typed
  <2>3. Groups' = Groups /\ Hosts' = Hosts /\ NoBlocks' = NoBlocks
    BY <2>1 DEF Groups, Hosts, Ranks, NoBlocks
  <2>4. input.hosts # <<>> /\ NoBlocks =>
          \A g \in DOMAIN Groups : g < group => Spread(Hosts, Groups, slotOf', rankOf', g)
    BY <2>1, <2>2, SpreadKept
  <2> QED
    BY <2>1, <2>3, <2>4 DEF HInv
<1>3. CASE SlotsFull
  BY <1>3, SlotsFullSpreads
<1>4. CASE PlaceSlot
  BY <1>4, PlaceSlotSpreads
<1>5. CASE SlotsPlaced
  <2>1. UNCHANGED <<input, group, slotOf, rankOf, counts>> /\ phase' = "blocks" /\ phase = "slots" /\ Unplaced = {}
    BY <1>5 DEF SlotsPlaced
  <2>2. Groups' = Groups /\ Hosts' = Hosts /\ NoBlocks' = NoBlocks
    BY <2>1 DEF Groups, Hosts, Ranks, NoBlocks
  <2>3. input.hosts # <<>> /\ NoBlocks => Spread(Hosts, Groups, slotOf, rankOf, group)
    BY <2>1, SlotsSpread DEF HInv
  <2> QED
    BY <2>1, <2>2, <2>3 DEF HInv
<1>6. CASE PlaceBlock
  <2>1. PICK b \in Unfinished : DOMAIN counts' = DOMAIN counts /\ counts'[group] # <<>> /\ group \in DOMAIN counts
    <3> DEFINE b == NextBlocks
               k == LeastLoaded(Group.blocks[b].eligible)
    <3>1. phase = "blocks" /\ Unfinished # {} /\ counts' = [counts EXCEPT ![group][b][k] = @ + 1]
      BY <1>6 DEF PlaceBlock, PlaceBlockAt
    <3>2. group \in DOMAIN Groups /\ DOMAIN counts = DOMAIN Groups
      BY <1>1, <3>1, RanksTyped DEF Typed
    <3>3. DOMAIN counts' = DOMAIN counts /\ DOMAIN counts'[group] = DOMAIN counts[group]
      BY <3>1, <3>2
    <3>4. PICK c \in Unfinished : TRUE
      BY <3>1
    <3>5. c \in DOMAIN counts[group]
      BY <1>1, <3>2 DEF Unfinished, Typed, Group, Groups
    <3> QED
      BY <3>2, <3>3, <3>4, <3>5
  <2>2. ~NoBlocks'
    BY <2>1 DEF NoBlocks
  <2> QED
    BY <2>2 DEF HInv
<1>7. CASE NextGroup
  <2>1. UNCHANGED <<input, slotOf, rankOf, counts, tally>> /\ group' = group + 1 /\ phase' = "matrices"
        /\ phase = "blocks"
    BY <1>7 DEF NextGroup
  <2>2. Groups' = Groups /\ Hosts' = Hosts /\ NoBlocks' = NoBlocks
    BY <2>1 DEF Groups, Hosts, Ranks, NoBlocks
  <2>3. \A g \in DOMAIN Groups : g < group' => g < group \/ g = group
    BY <1>1, <2>1, RanksTyped
  <2> QED
    BY <2>1, <2>2, <2>3 DEF HInv
<1>8. CASE Over \/ UNCHANGED vars
  <2>1. UNCHANGED <<input, group, phase, slotOf, rankOf, counts, tally>>
    BY <1>8 DEF Over, vars
  <2>2. Ranks' = Ranks /\ Groups' = Groups /\ Hosts' = Hosts /\ Group' = Group /\ Slots' = Slots
        /\ SlotRanks' = SlotRanks /\ Unplaced' = Unplaced /\ Before' = Before /\ NoBlocks' = NoBlocks
    BY <2>1 DEF Ranks, Groups, Hosts, Group, Slots, SlotRanks, Unplaced, Before, NoBlocks
  <2>3. Fresh' = Fresh /\ Placed' = Placed
    BY <2>2 DEF Fresh, Placed
  <2>4. HostsTallied' = HostsTallied /\ SlotsOnFresh' = SlotsOnFresh
    BY <2>1, <2>2, <2>3 DEF HostsTallied, SlotsOnFresh
  <2> QED
    BY <2>1, <2>2, <2>4 DEF HInv
<1> QED
  BY <1>2, <1>3, <1>4, <1>5, <1>6, <1>7, <1>8 DEF Next

\* The matrices of a group go to hosts that hold nothing yet, while there are as
\* many of those as matrices, however many ranks the hosts have and however many
\* groups came before.
THEOREM LaterGroupsSpread ==
  Spec => []OtherHostsNext
<1>1. Init => IInv /\ HInv
  BY InitIInv, InitHInv
<1>2. (IInv /\ HInv) /\ [Next]_vars => (IInv /\ HInv)'
  BY IInvInductive, HInvInductive
<1>3. IInv /\ HInv => OtherHostsNext
  <2> SUFFICES ASSUME IInv, HInv, input.hosts # <<>>, group > 2, NoBlocks
               PROVE  \/ Len(input.groups[group - 1].matrices)
                           > Cardinality(HostsOf(Hosts) \ UNION {HostsWith(g) : g \in 1 .. group - 2})
                      \/ HostsWith(group - 1) \cap UNION {HostsWith(g) : g \in 1 .. group - 2} = {}
    BY DEF OtherHostsNext, NoBlocks
  <2>1. group \in Nat /\ DOMAIN Groups = 1 .. Len(Groups) /\ Len(Groups) \in Nat /\ group \in 1 .. Len(Groups) + 1
    BY RanksTyped DEF IInv, Typed
  <2> DEFINE l == group - 1
  <2>2. l \in DOMAIN Groups /\ l < group /\ 1 .. l - 1 = 1 .. group - 2
    BY <2>1
  <2>3. Spread(Hosts, Groups, slotOf, rankOf, l)
    BY <2>2 DEF HInv
  <2>4. \A g : HostsWith(g) = HostsIn(Hosts, slotOf[g], rankOf[g])
    BY DEF HostsWith, HostsIn, Owner, OwnerIn
  <2>5. UNION {HostsWith(g) : g \in 1 .. group - 2} = BeforeIn(Hosts, slotOf, rankOf, l)
    BY <2>2, <2>4 DEF BeforeIn
  <2> QED
    BY <2>3, <2>4, <2>5 DEF Spread, Groups
<1> QED
  BY <1>1, <1>2, <1>3, PTL DEF Spec
===============================================================================
