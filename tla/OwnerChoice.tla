----------------------------- MODULE OwnerChoice -----------------------------
(***************************************************************************)
(* Who owns the next load: the host with the least load of this call, then *)
(* its rank with the least, with ties going to what earlier calls loaded   *)
(* least and then to the order 0, 2, 4, ..., 1, 3, ...                     *)
(*                                                                         *)
(* `hosts` gives each rank its host; ranks count from 1 and hosts from 0.  *)
(* A tally holds what a call has placed, by rank and by host, and what     *)
(* earlier calls left.                                                     *)
(***************************************************************************)
EXTENDS Integers, Sequences, FiniteSets, FiniteSetsExt, Functions

HostsOf(hosts) == {hosts[r] : r \in DOMAIN hosts}
Members(hosts, h) == {r \in DOMAIN hosts : hosts[r] = h}

\* Hosts of n consecutive global ranks, numbered as the given ranks meet them.
HostNumbers(ranks, n) ==
  LET first(r) == CHOOSE q \in DOMAIN ranks : /\ ranks[q] \div n = ranks[r] \div n
                                              /\ \A p \in 1 .. q - 1 : ranks[p] \div n # ranks[q] \div n
  IN  [r \in DOMAIN ranks |-> Cardinality({first(q) : q \in 1 .. first(r) - 1})]

\* What HostNumbers gives: each rank's host, with hosts numbered from 0 on.
AreHosts(hosts) ==
  /\ hosts \in Seq(Nat)
  /\ HostsOf(hosts) = 0 .. Cardinality(HostsOf(hosts)) - 1

\* The place of i of 0 .. count - 1 in the order 0, 2, 4, ..., 1, 3, ...
EvenFirst(count, i) ==
  IF i % 2 = 0 THEN i \div 2 ELSE (count + 1) \div 2 + i \div 2

HostPosition(hosts, h) == EvenFirst(Cardinality(HostsOf(hosts)), h)
RankPosition(hosts, r) ==
  LET mates == Members(hosts, hosts[r])
  IN  EvenFirst(Cardinality(mates), Cardinality({q \in mates : q < r}))

Zeros(S) == [x \in S |-> 0]
NewTally(hosts, carried) ==
  [primary       |-> Zeros(DOMAIN hosts),
   secondary     |-> Zeros(DOMAIN hosts),
   carried       |-> carried,
   hostPrimary   |-> Zeros(HostsOf(hosts)),
   hostSecondary |-> Zeros(HostsOf(hosts)),
   hostCarried   |-> [h \in HostsOf(hosts) |-> SumFunctionOnSet(carried, Members(hosts, h))],
   taken         |-> {}]

\* DistMuon adds what it places to the carried loads as it goes; they only
\* break ties between equal loads of the call, so they may stay what they were.
Assign(tally, hosts, load, r) ==
  [tally EXCEPT !.primary[r]              = @ + load.primary,
                !.secondary[r]            = @ + load.secondary,
                !.hostPrimary[hosts[r]]   = @ + load.primary,
                !.hostSecondary[hosts[r]] = @ + load.secondary,
                !.taken                   = @ \cup {r}]

\* Lexicographic order of keys of four numbers.
Precedes(a, b) ==
  \/ a[1] < b[1]
  \/ a[1] = b[1] /\ a[2] < b[2]
  \/ a[1] = b[1] /\ a[2] = b[2] /\ a[3] < b[3]
  \/ a[1] = b[1] /\ a[2] = b[2] /\ a[3] = b[3] /\ a[4] < b[4]

\* Mutant of HostKey: breaks no ties by position.
MutHostKeyUnplaced(tally, hosts, h) ==
  <<tally.hostPrimary[h], tally.hostSecondary[h], tally.hostCarried[h], 0>>
\* Mutant of HostKey: takes hosts in their order.
MutHostKeyInOrder(tally, hosts, h) ==
  <<tally.hostPrimary[h], tally.hostSecondary[h], tally.hostCarried[h], h>>
\* Mutant of HostKey: looks at earlier calls first.
MutHostKeyCarriedFirst(tally, hosts, h) ==
  <<tally.hostCarried[h], tally.hostPrimary[h], tally.hostSecondary[h], HostPosition(hosts, h)>>

\* Mutant of HostKey: ignores what earlier calls placed.
MutHostKeyForgetful(tally, hosts, h) ==
  <<tally.hostPrimary[h], tally.hostSecondary[h], 0, HostPosition(hosts, h)>>

HostKey(tally, hosts, h) ==
  <<tally.hostPrimary[h], tally.hostSecondary[h], tally.hostCarried[h], HostPosition(hosts, h)>>

\* Mutant of RankKey: ignores what earlier calls placed.
MutRankKeyForgetful(tally, hosts, r) ==
  <<tally.primary[r], tally.secondary[r], 0, RankPosition(hosts, r)>>

RankKey(tally, hosts, r) ==
  <<tally.primary[r], tally.secondary[r], tally.carried[r], RankPosition(hosts, r)>>

\* With one load per rank, a rank that has one is closed, and a host whose
\* ranks all have one.
OpenRanks(tally, hosts, onePerRank) ==
  {r \in DOMAIN hosts : onePerRank => r \notin tally.taken}
OpenHosts(tally, hosts, onePerRank) ==
  {hosts[r] : r \in OpenRanks(tally, hosts, onePerRank)}

Chosen(tally, hosts, onePerRank, r) ==
  /\ r \in OpenRanks(tally, hosts, onePerRank)
  /\ \A h \in OpenHosts(tally, hosts, onePerRank) :
       ~Precedes(HostKey(tally, hosts, h), HostKey(tally, hosts, hosts[r]))
  /\ \A q \in OpenRanks(tally, hosts, onePerRank) :
       hosts[q] = hosts[r] => ~Precedes(RankKey(tally, hosts, q), RankKey(tally, hosts, r))
==============================================================================
