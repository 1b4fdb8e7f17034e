--------------------------- MODULE MatrixAssignment ---------------------------
(***************************************************************************)
(* The storage planner of DistMuon's buckets: group by group, whole        *)
(* matrices are packed into one slot per rank, the slots go to ranks, and  *)
(* then blocks go one by one to the ranks that may hold them.              *)
(***************************************************************************)
EXTENDS OwnerChoice

CONSTANTS
  Inputs   \* [ranks, hosts, groups]: how many ranks; each rank's host, or <<>>;
           \* groups of [matrices, blocks]: a sequence of sizes, and a sequence
           \* of [count, numel, eligible], eligible ranks in their order

\* What _validate_inputs lets through, with hosts as HostNumbers gives them.
ASSUME InputsAssumption ==
  \A i \in Inputs :
    /\ i.ranks \in Nat \ {0}
    /\ i.hosts # <<>> => AreHosts(i.hosts) /\ Len(i.hosts) = i.ranks
    /\ i.groups \in Seq([matrices : Seq(Nat \ {0}),
                         blocks   : Seq([count : Nat, numel : Nat \ {0},
                                         eligible : Seq(1 .. i.ranks) \ {<<>>}])])
    /\ \A g \in DOMAIN i.groups : \A b \in DOMAIN i.groups[g].blocks :
         IsInjective(i.groups[g].blocks[b].eligible)

VARIABLES
  input,
  group,      \* the group being assigned; past the last one at the end
  phase,      \* "matrices", "slots" or "blocks"
  slotOf,     \* group -> matrix -> slot, 0: none yet
  rankOf,     \* group -> slot -> rank, 0: none yet
  counts,     \* group -> block group -> blocks of each eligible rank
  tally       \* the slots this group gave, and the loads before them

vars == <<input, group, phase, slotOf, rankOf, counts, tally>>

Ranks == 1 .. input.ranks
Group == input.groups[group]
\* Without hosts the ranks are taken like ranks of one host.
Hosts == IF input.hosts = <<>> THEN [r \in Ranks |-> 0] ELSE input.hosts

Total(r) == tally.carried[r] + tally.primary[r]
Totals == [r \in Ranks |-> Total(r)]

Init ==
  /\ input \in Inputs
  /\ group = 1 /\ phase = "matrices"
  /\ slotOf = [g \in DOMAIN input.groups |-> Zeros(DOMAIN input.groups[g].matrices)]
  /\ rankOf = [g \in DOMAIN input.groups |-> Zeros(1 .. input.ranks)]
  /\ counts = [g \in DOMAIN input.groups |->
                 [b \in DOMAIN input.groups[g].blocks |->
                    Zeros(DOMAIN input.groups[g].blocks[b].eligible)]]
  /\ tally = NewTally(Hosts, Zeros(1 .. input.ranks))

Loose == {i \in DOMAIN Group.matrices : slotOf[group][i] = 0}
SlotLoad(g, s) ==
  SumFunctionOnSet(input.groups[g].matrices,
                   {i \in DOMAIN input.groups[g].matrices : slotOf[g][i] = s})

\* The least of S by key.  Equal keys are taken in order, as a stable sort and a
\* heap of pairs do.
First(S, key) ==
  CHOOSE x \in S : \A y \in S : \/ key[x] < key[y]
                                \/ key[x] = key[y] /\ x <= y

LargestLoose == First(Loose, [i \in Loose |-> -Group.matrices[i]])
EmptiestSlot == First(Ranks, [s \in Ranks |-> SlotLoad(group, s)])

\* The largest matrix into the emptiest slot.
FillSlot ==
  /\ group <= Len(input.groups) /\ phase = "matrices" /\ Loose # {}
  /\ slotOf' = [slotOf EXCEPT ![group][LargestLoose] = EmptiestSlot]
  /\ UNCHANGED <<input, group, phase, rankOf, counts, tally>>

SlotsFull ==
  /\ group <= Len(input.groups) /\ phase = "matrices" /\ Loose = {}
  /\ tally' = NewTally(Hosts, Totals)
  /\ phase' = IF Group.matrices = <<>> THEN "blocks" ELSE "slots"
  /\ UNCHANGED <<input, group, slotOf, rankOf, counts>>

Unplaced == {s \in Ranks : rankOf[group][s] = 0}
HeaviestSlot == First(Unplaced, [s \in Unplaced |-> -SlotLoad(group, s)])

\* Mutant of NextRank: hands the ranks out in order.
MutNextRankInOrder(r) == r = Min(Ranks \ tally.taken)

\* With hosts, hosts first; without, the ranks least loaded before this group.
NextRank(r) ==
  IF input.hosts = <<>> THEN r = First(Ranks \ tally.taken, tally.carried)
  ELSE Chosen(tally, Hosts, TRUE, r)

\* Mutant of PlaceSlot: forgets what the slot weighs.
MutPlaceSlotUncounted ==
  /\ phase = "slots" /\ Unplaced # {}
  /\ \E r \in Ranks :
       /\ NextRank(r)
       /\ rankOf' = [rankOf EXCEPT ![group][HeaviestSlot] = r]
       /\ tally' = Assign(tally, Hosts, [primary |-> 0, secondary |-> 0], r)
  /\ UNCHANGED <<input, group, phase, slotOf, counts>>

\* The heaviest slot first.
PlaceSlot ==
  /\ phase = "slots" /\ Unplaced # {}
  /\ \E r \in Ranks :
       /\ NextRank(r)
       /\ rankOf' = [rankOf EXCEPT ![group][HeaviestSlot] = r]
       /\ tally' = Assign(tally, Hosts, [primary |-> SlotLoad(group, HeaviestSlot), secondary |-> 0], r)
  /\ UNCHANGED <<input, group, phase, slotOf, counts>>

SlotsPlaced ==
  /\ phase = "slots" /\ Unplaced = {}
  /\ tally' = NewTally(Hosts, Totals)
  /\ phase' = "blocks"
  /\ UNCHANGED <<input, group, slotOf, rankOf, counts>>

GivenBlocks(g, b) == SumFunctionOnSet(counts[g][b], DOMAIN counts[g][b])
Unfinished == {b \in DOMAIN Group.blocks : GivenBlocks(group, b) < Group.blocks[b].count}

NextBlocks == Min(Unfinished)
LeastLoaded(ranks) == First(DOMAIN ranks, [j \in DOMAIN ranks |-> tally.carried[ranks[j]]])

PlaceBlockAt(b, k) ==
  /\ counts' = [counts EXCEPT ![group][b][k] = @ + 1]
  /\ tally' = [tally EXCEPT !.carried[Group.blocks[b].eligible[k]] = @ + Group.blocks[b].numel]
  /\ UNCHANGED <<input, group, phase, slotOf, rankOf>>

\* Mutant of PlaceBlock: deals blocks in turn.
MutPlaceBlockInTurn ==
  /\ phase = "blocks" /\ Unfinished # {}
  /\ PlaceBlockAt(NextBlocks,
                  1 + (GivenBlocks(group, NextBlocks) % Len(Group.blocks[NextBlocks].eligible)))

\* Block groups in their order, each block to the least loaded rank it may go to.
PlaceBlock ==
  /\ phase = "blocks" /\ Unfinished # {}
  /\ PlaceBlockAt(NextBlocks, LeastLoaded(Group.blocks[NextBlocks].eligible))

NextGroup ==
  /\ phase = "blocks" /\ Unfinished = {}
  /\ group' = group + 1 /\ phase' = "matrices"
  /\ UNCHANGED <<input, slotOf, rankOf, counts, tally>>

Over == group > Len(input.groups) /\ UNCHANGED vars

Next == FillSlot \/ SlotsFull \/ PlaceSlot \/ SlotsPlaced \/ PlaceBlock \/ NextGroup \/ Over

Spec == Init /\ [][Next]_vars

----------------------------------------------------------------------------
(* Properties. *)

Owner(g, i) == IF slotOf[g][i] = 0 THEN 0 ELSE rankOf[g][slotOf[g][i]]

\* What a rank holds of the groups so far.
MatricesOf(g, r) ==
  SumFunctionOnSet(input.groups[g].matrices, {i \in DOMAIN slotOf[g] : Owner(g, i) = r})
BlocksOf(g, b, r) ==
  SumFunctionOnSet([k \in DOMAIN counts[g][b] |->
                      IF input.groups[g].blocks[b].eligible[k] = r
                      THEN counts[g][b][k] * input.groups[g].blocks[b].numel ELSE 0],
                   DOMAIN counts[g][b])
HeldOf(g, r) ==
  MatricesOf(g, r)
    + SumFunctionOnSet([b \in DOMAIN counts[g] |-> BlocksOf(g, b, r)], DOMAIN counts[g])
Held(r) == SumFunctionOnSet([g \in DOMAIN input.groups |-> HeldOf(g, r)], DOMAIN input.groups)

\* The loads the planner balances by are what the ranks hold: nothing is
\* counted twice or lost between slots, ranks, blocks and groups.
TypeOK == phase \in {"matrices", "slots", "blocks"} /\ \A r \in Ranks : Total(r) = Held(r)

Sizes == UNION {Range(input.groups[g].matrices)
                  \cup {input.groups[g].blocks[b].numel : b \in DOMAIN input.groups[g].blocks}
                : g \in {h \in DOMAIN input.groups : h < group}}
AnyRank == \A g \in DOMAIN input.groups : \A b \in DOMAIN input.groups[g].blocks :
             Range(input.groups[g].blocks[b].eligible) = Ranks

\* Without hosts, when every rank may hold every block, no rank ends a group with
\* more than one matrix or block beyond another, over all groups: the heaviest
\* slot on the least loaded rank makes up for the groups before.
GroupsBalanced ==
  phase = "matrices" /\ input.hosts = <<>> /\ AnyRank =>
    \A q, r \in Ranks : Total(q) - Total(r) <= Max({0} \cup Sizes)

\* A rank takes a block only while no rank that may take it has less, so the
\* blocks level what the matrices left uneven and no more than that.
BlocksLevel ==
  phase = "blocks" /\ group <= Len(input.groups) =>
    LET begun == {b \in DOMAIN Group.blocks : GivenBlocks(group, b) > 0}
        last  == Group.blocks[Max(begun)]
    IN  begun # {} =>
          \A j, k \in DOMAIN last.eligible :
            counts[group][Max(begun)][j] > 0 =>
              Total(last.eligible[j]) - Total(last.eligible[k]) <= last.numel

\* "A later call with carried loads puts its largest loads on the other hosts":
\* the matrices of a group go to hosts that hold nothing yet, while there are
\* as many of those as matrices.
HostsWith(g) == {Hosts[Owner(g, i)] : i \in {j \in DOMAIN slotOf[g] : Owner(g, j) # 0}}
OtherHostsNext ==
  LET before == UNION {HostsWith(g) : g \in 1 .. group - 2}
      last   == HostsWith(group - 1)
  IN  input.hosts # <<>> /\ group > 2 /\ (\A g \in DOMAIN counts : counts[g] = <<>>) =>
        \/ Len(input.groups[group - 1].matrices) > Cardinality(HostsOf(Hosts) \ before)
        \/ last \cap before = {}
===============================================================================
