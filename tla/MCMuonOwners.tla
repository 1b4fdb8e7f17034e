----------------------------- MODULE MCMuonOwners -----------------------------
(* Small instances of MuonOwners for TLC. *)
EXTENDS MuonOwners

\* One rank per host, hosts of several ranks, uneven ones, and ranks of hosts
\* in turn.
HostLists == {HostNumbers(<<0, 1, 2, 3>>, 1), HostNumbers(<<4, 5, 6, 7>>, 2),
              HostNumbers(<<1, 2, 3, 4>>, 2), HostNumbers(<<3, 8, 2, 9>>, 4),
              HostNumbers(<<0, 1, 2>>, 8), HostNumbers(<<0, 1, 2, 3, 4>>, 1)}

Load(p, s, f) == [primary |-> p, secondary |-> s, fixed |-> f]
SomeLoads == {Load(1, 1, NoOwner), Load(3, 1, NoOwner), Load(3, 2, NoOwner)}
FixedLoads == {Load(2, 1, 1), Load(2, 1, 3)}

Bags(loads, n) == UNION {[1 .. k -> loads] : k \in 1 .. n}
Input(hosts, buckets) == {[hosts |-> h, buckets |-> b] : h \in hosts, b \in buckets}

\* One bucket of up to four matrices; two buckets of up to two; four of one;
\* and fixed owners between.
SomeInputs ==
  Input(HostLists, {<<b>> : b \in Bags(SomeLoads, 4)})
  \cup Input(HostLists, {<<a, b>> : a, b \in Bags(SomeLoads, 2)})
  \cup Input(HostLists, [1 .. 4 -> {<<Load(p, 1, NoOwner)>> : p \in {1, 2, 3}}])
  \cup Input({<<0, 0, 1, 1>>, <<0, 0, 0>>}, {<<b>> : b \in Bags(SomeLoads \cup FixedLoads, 3)})
==============================================================================
