------------------------------ MODULE MuonOwners ------------------------------
(***************************************************************************)
(* DistMuon's owners: every rank places the matrices of its buckets, one   *)
(* bucket after the other, on hosts and ranks, and nobody tells anybody.   *)
(***************************************************************************)
EXTENDS OwnerChoice

CONSTANTS
  Inputs   \* [hosts, buckets]: each rank's host, and the loads of every bucket
           \* in its order, [primary, secondary, fixed]; fixed = NoOwner: balance

NoOwner == 0

ASSUME InputsAssumption ==
  \A i \in Inputs :
    /\ AreHosts(i.hosts) /\ i.hosts # <<>>
    /\ i.buckets \in Seq(Seq([primary : Nat, secondary : Nat, fixed : Nat])) \ {<<>>}
    /\ \A b \in DOMAIN i.buckets : \A k \in DOMAIN i.buckets[b] :
         i.buckets[b][k].fixed \in DOMAIN i.hosts \cup {NoOwner}

VARIABLES
  input,
  bucket,    \* the bucket being placed
  waiting,   \* its loads not placed yet
  tally,     \* what it placed, and what the buckets before it did
  owners     \* bucket -> load -> rank

vars == <<input, bucket, waiting, tally, owners>>

Hosts == input.hosts
Loads == input.buckets[bucket]
Fixed == {i \in waiting : Loads[i].fixed # NoOwner}

Init ==
  /\ input \in Inputs
  /\ bucket = 1
  /\ waiting = DOMAIN input.buckets[1]
  /\ tally = NewTally(input.hosts, Zeros(DOMAIN input.hosts))
  /\ owners = [b \in DOMAIN input.buckets |-> Zeros(DOMAIN input.buckets[b])]

Place(i, r) ==
  /\ tally' = Assign(tally, Hosts, Loads[i], r)
  /\ owners' = [owners EXCEPT ![bucket][i] = r]
  /\ waiting' = waiting \ {i}
  /\ UNCHANGED <<input, bucket>>

\* Loads with an owner take it first, in their order.
PlaceFixed ==
  \E i \in Fixed : (\A j \in Fixed : i <= j) /\ Place(i, Loads[i].fixed)

\* The largest load of the rest; the order of the bucket, that of the names,
\* breaks ties.
LoadKey(i) == <<-Loads[i].primary, -Loads[i].secondary, i, 0>>
PlaceLargest ==
  /\ Fixed = {}
  /\ \E i \in waiting :
       /\ \A j \in waiting : ~Precedes(LoadKey(j), LoadKey(i))
       /\ \E r \in DOMAIN Hosts : Chosen(tally, Hosts, FALSE, r) /\ Place(i, r)

\* Mutant of NextBucket: carries nothing.
MutNextBucketAnew ==
  /\ waiting = {} /\ bucket < Len(input.buckets)
  /\ bucket' = bucket + 1
  /\ waiting' = DOMAIN input.buckets[bucket + 1]
  /\ tally' = NewTally(Hosts, tally.carried)
  /\ UNCHANGED <<input, owners>>

NextBucket ==
  /\ waiting = {} /\ bucket < Len(input.buckets)
  /\ bucket' = bucket + 1
  /\ waiting' = DOMAIN input.buckets[bucket + 1]
  /\ tally' = NewTally(Hosts, [r \in DOMAIN Hosts |-> tally.carried[r] + tally.primary[r]])
  /\ UNCHANGED <<input, owners>>

Over == waiting = {} /\ bucket = Len(input.buckets) /\ UNCHANGED vars

Next == PlaceFixed \/ PlaceLargest \/ NextBucket \/ Over

Spec == Init /\ [][Next]_vars

----------------------------------------------------------------------------
(* Properties. *)

OwnedBy(b, r) == {i \in DOMAIN owners[b] : owners[b][i] = r}
LoadOf(b, r) == SumFunctionOnSet([i \in DOMAIN owners[b] |-> input.buckets[b][i].primary], OwnedBy(b, r))

\* Every load has one owner, the configured one if it has one, and the tally
\* is what the owners hold, by rank and by host, over this and earlier buckets.
TypeOK ==
  /\ waiting = {i \in DOMAIN Loads : owners[bucket][i] = NoOwner}
  /\ \A b \in DOMAIN owners : \A i \in DOMAIN owners[b] :
       owners[b][i] # NoOwner /\ input.buckets[b][i].fixed # NoOwner
         => owners[b][i] = input.buckets[b][i].fixed
  /\ \A r \in DOMAIN Hosts :
       /\ tally.primary[r] = LoadOf(bucket, r)
       /\ tally.carried[r] = SumFunctionOnSet([b \in 1 .. bucket - 1 |-> LoadOf(b, r)], 1 .. bucket - 1)
  /\ \A h \in HostsOf(Hosts) :
       tally.hostPrimary[h] = SumFunctionOnSet(tally.primary, Members(Hosts, h))

AllFree == \A b \in DOMAIN input.buckets : \A i \in DOMAIN input.buckets[b] :
             input.buckets[b][i].fixed = NoOwner
\* Each load of the bucket that was placed is at most as large as this.
Placed == {i \in DOMAIN Loads : owners[bucket][i] # NoOwner}
WithinOneLoad(less, more) ==
  less >= more \/ \E i \in Placed : more - less <= Loads[i].primary

\* "Each load, largest first, goes to the host with the least primary load":
\* no host ever has more than another by more than one matrix, and so for the
\* ranks of a host.
HostsAndRanksBalanced ==
  AllFree =>
    /\ \A g, h \in HostsOf(Hosts) : WithinOneLoad(tally.hostPrimary[h], tally.hostPrimary[g])
    /\ \A q, r \in DOMAIN Hosts :
         Hosts[q] = Hosts[r] => WithinOneLoad(tally.primary[q], tally.primary[r])

\* Every rank computes the owners alone, and all get the same ones: at most one
\* load and one rank may be next.
Deterministic ==
  /\ Cardinality({r \in DOMAIN Hosts : Chosen(tally, Hosts, FALSE, r)}) = 1
  /\ waiting # {} =>
       Cardinality({i \in waiting : \A j \in waiting : ~Precedes(LoadKey(j), LoadKey(i))}) = 1

\* "Heavy and light hosts alternate in partition order": the largest loads of
\* the first bucket, up to one for every other host, are never on neighbours.
HeavyHostsAlternate ==
  AllFree /\ bucket = 1 =>
    \A g, h \in {Hosts[r] : r \in {s \in DOMAIN Hosts : OwnedBy(1, s) # {}}} :
      2 * Cardinality(Placed) <= Cardinality(HostsOf(Hosts)) + 1 => g # h + 1

Totals == [r \in DOMAIN Hosts |-> tally.carried[r] + tally.primary[r]]
TotalOn(h) == SumFunctionOnSet(Totals, Members(Hosts, h))
LargestSoFar == Max({0} \cup {input.buckets[b][1].primary : b \in 1 .. bucket})

\* "Carrying the loads from bucket to bucket": buckets of one matrix each are
\* balanced like one bucket of all of them, over hosts and within them.
BucketsShareLoad ==
  AllFree /\ (\A b \in DOMAIN input.buckets : Len(input.buckets[b]) = 1) =>
    /\ \A g, h \in HostsOf(Hosts) : TotalOn(g) - TotalOn(h) <= LargestSoFar
    /\ \A q, r \in DOMAIN Hosts : Hosts[q] = Hosts[r] => Totals[q] - Totals[r] <= LargestSoFar
==============================================================================
