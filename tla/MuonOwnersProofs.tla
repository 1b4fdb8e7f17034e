--------------------------- MODULE MuonOwnersProofs ---------------------------
(***************************************************************************)
(* What holds of MuonOwners for any hosts and buckets.                     *)
(***************************************************************************)
EXTENDS MuonOwners, OwnerChoiceProofs, SequenceTheorems

Typed ==
  /\ input \in Inputs
  /\ bucket \in DOMAIN input.buckets
  /\ waiting \subseteq DOMAIN Loads
  /\ IsTally(tally, Hosts)
  /\ DOMAIN owners = DOMAIN input.buckets
  /\ \A b \in DOMAIN owners : owners[b] \in [DOMAIN input.buckets[b] -> DOMAIN Hosts \cup {NoOwner}]

\* What OwnedBy and LoadOf are for the owners os of the loads ls, and what the
\* first n buckets loaded a rank with.
Has(os, r) == {i \in DOMAIN os : os[i] = r}
LoadIn(os, ls, r) == SumFunctionOnSet([i \in DOMAIN os |-> ls[i].primary], Has(os, r))
CarriedIn(own, bs, n, r) == SumFunctionOnSet([b \in 1 .. n |-> LoadIn(own[b], bs[b], r)], 1 .. n)

OwnedByNobody(b) == \A i \in DOMAIN owners[b] : owners[b][i] = NoOwner

\* The buckets to come have no owners yet.
Later == \A b \in DOMAIN owners : b > bucket => OwnedByNobody(b)

HostTallies ==
  \A h \in HostsOf(Hosts) : tally.hostCarried[h] = SumFunctionOnSet(tally.carried, Members(Hosts, h))

\* A rank without a load of this bucket has none in the tally, and so for hosts.
Unused ==
  /\ \A r \in DOMAIN Hosts :
       OwnedBy(bucket, r) = {} => tally.primary[r] = 0 /\ tally.secondary[r] = 0
  /\ \A h \in HostsOf(Hosts) :
       (\A r \in Members(Hosts, h) : OwnedBy(bucket, r) = {}) =>
         tally.hostPrimary[h] = 0 /\ tally.hostSecondary[h] = 0

\* While there are even hosts enough, the loads of the first bucket go to those.
EvenHostsFirst ==
  AllFree /\ bucket = 1 /\ 2 * Cardinality(Placed) <= Cardinality(HostsOf(Hosts)) + 1 =>
    \A r \in DOMAIN Hosts : OwnedBy(1, r) # {} => Hosts[r] % 2 = 0

IInv ==
  /\ Typed /\ TypeOK /\ Later
  /\ HostTallies /\ Unused
  /\ EvenHostsFirst /\ HostsAndRanksBalanced /\ BucketsShareLoad

----------------------------------------------------------------------------

LEMMA InputsTyped ==
  ASSUME Typed
  PROVE  /\ AreHosts(Hosts) /\ Hosts \in Seq(Nat) /\ DOMAIN Hosts # {} /\ NoOwner \notin DOMAIN Hosts
         /\ Len(input.buckets) \in Nat /\ DOMAIN input.buckets = 1 .. Len(input.buckets)
         /\ \A b \in DOMAIN input.buckets :
              /\ IsFiniteSet(DOMAIN input.buckets[b])
              /\ \A i \in DOMAIN input.buckets[b] :
                   /\ i \in Nat
                   /\ input.buckets[b][i].primary \in Nat /\ input.buckets[b][i].secondary \in Nat
                   /\ input.buckets[b][i].fixed \in DOMAIN Hosts \cup {NoOwner}
<1> DEFINE S == [primary : Nat, secondary : Nat, fixed : Nat]
           bs == input.buckets
<1>1. /\ AreHosts(Hosts) /\ Hosts # <<>> /\ bs \in Seq(Seq(S))
      /\ \A b \in DOMAIN bs : \A k \in DOMAIN bs[b] : bs[b][k].fixed \in DOMAIN Hosts \cup {NoOwner}
  BY InputsAssumption DEF Typed, Hosts
<1>2. Hosts \in Seq(Nat)
  BY <1>1 DEF AreHosts
<1>3. DOMAIN Hosts # {} /\ NoOwner \notin DOMAIN Hosts
  <2> DEFINE hs == Hosts
  <2>1. hs \in Seq(Nat) /\ hs # <<>>
    BY <1>1, <1>2
  <2> HIDE DEF hs
  <2>2. DOMAIN hs = 1 .. Len(hs) /\ Len(hs) \in Nat \ {0}
    BY <2>1, EmptySeq
  <2> QED
    BY <2>2 DEF NoOwner, hs
<1>4. \A l \in S : l.primary \in Nat /\ l.secondary \in Nat
  OBVIOUS
<1> HIDE DEF S, bs
<1>5. Len(bs) \in Nat /\ DOMAIN bs = 1 .. Len(bs)
  BY <1>1
<1>6. ASSUME NEW b \in DOMAIN bs
      PROVE  /\ IsFiniteSet(DOMAIN bs[b])
             /\ \A i \in DOMAIN bs[b] : i \in Nat /\ bs[b][i] \in S
  <2>1. bs[b] \in Seq(S)
    BY <1>1
  <2> DEFINE ls == bs[b]
  <2> HIDE DEF ls
  <2>2. ls \in Seq(S)
    BY <2>1 DEF ls
  <2>3. DOMAIN ls = 1 .. Len(ls) /\ Len(ls) \in Nat /\ \A i \in DOMAIN ls : ls[i] \in S
    BY <2>2
  <2>4. IsFiniteSet(DOMAIN ls)
    BY <2>3, FS_Interval
  <2> QED
    BY <2>3, <2>4 DEF ls
<1> QED
  BY <1>1, <1>2, <1>3, <1>4, <1>5, <1>6 DEF bs

\* The loads of a rank, as the sum over those it owns.
LEMMA LoadOfTyped ==
  ASSUME Typed, NEW b \in DOMAIN owners, NEW r
  PROVE  /\ IsFiniteSet(OwnedBy(b, r)) /\ OwnedBy(b, r) \subseteq DOMAIN owners[b]
         /\ DOMAIN owners[b] = DOMAIN input.buckets[b]
         /\ LoadOf(b, r) \in Nat
<1> DEFINE f == [i \in DOMAIN owners[b] |-> input.buckets[b][i].primary]
<1>1. DOMAIN owners[b] = DOMAIN input.buckets[b] /\ b \in DOMAIN input.buckets
  BY DEF Typed
<1>2. OwnedBy(b, r) \subseteq DOMAIN owners[b]
  BY DEF OwnedBy
<1>3. \A i \in DOMAIN owners[b] : f[i] \in Nat
  BY <1>1, InputsTyped
<1>4. IsFiniteSet(OwnedBy(b, r))
  BY <1>1, <1>2, InputsTyped, FS_Subset
<1> HIDE DEF f
<1>5. SumFunctionOnSet(f, OwnedBy(b, r)) \in Nat
  BY <1>2, <1>3, <1>4, SumTyped
<1> QED
  BY <1>1, <1>2, <1>4, <1>5 DEF LoadOf, f

Parts ==
  /\ waiting = {i \in DOMAIN Loads : owners[bucket][i] = NoOwner}
  /\ \A b \in DOMAIN owners : \A i \in DOMAIN owners[b] :
       owners[b][i] # NoOwner /\ input.buckets[b][i].fixed # NoOwner
         => owners[b][i] = input.buckets[b][i].fixed
  /\ \A r \in DOMAIN Hosts :
       /\ tally.primary[r] = LoadIn(owners[bucket], Loads, r)
       /\ tally.carried[r] = CarriedIn(owners, input.buckets, bucket - 1, r)
  /\ \A h \in HostsOf(Hosts) :
       tally.hostPrimary[h] = SumFunctionOnSet(tally.primary, Members(Hosts, h))

LEMMA TypeOKIs == TypeOK <=> Parts
BY DEF TypeOK, Parts, LoadIn, CarriedIn, LoadOf, OwnedBy, Has, Loads

LEMMA CarriedSame ==
  ASSUME NEW own, NEW own2, NEW bs, NEW n \in Nat, NEW r, \A b \in 1 .. n : own[b] = own2[b]
  PROVE  CarriedIn(own, bs, n, r) = CarriedIn(own2, bs, n, r)
<1> DEFINE f == [b \in 1 .. n |-> LoadIn(own[b], bs[b], r)]
           g == [b \in 1 .. n |-> LoadIn(own2[b], bs[b], r)]
<1>1. \A b \in 1 .. n : f[b] = g[b]
  OBVIOUS
<1>2. IsFiniteSet(1 .. n)
  BY FS_Interval
<1> HIDE DEF f, g
<1>3. SumFunctionOnSet(f, 1 .. n) = SumFunctionOnSet(g, 1 .. n)
  BY <1>1, <1>2, SumSame
<1> QED
  BY <1>3 DEF CarriedIn, f, g

----------------------------------------------------------------------------
(* Init. *)

LEMMA InitTyped ==
  ASSUME Init
  PROVE  /\ Typed /\ bucket = 1 /\ \A b \in DOMAIN owners : OwnedByNobody(b)
         /\ tally = NewTally(Hosts, Zeros(DOMAIN Hosts))
         /\ Zeros(DOMAIN Hosts) \in [DOMAIN Hosts -> Nat]
<1>1. /\ input.buckets \in Seq(Seq([primary : Nat, secondary : Nat, fixed : Nat]))
      /\ input.buckets # <<>> /\ Hosts \in Seq(Nat)
  BY InputsAssumption DEF Init, Hosts, AreHosts
<1>2. 1 \in DOMAIN input.buckets
  BY <1>1
<1>3. Zeros(DOMAIN Hosts) \in [DOMAIN Hosts -> Nat] /\ tally = NewTally(Hosts, Zeros(DOMAIN Hosts))
  BY DEF Zeros, Init, Hosts
<1>4. IsTally(tally, Hosts)
  BY <1>1, <1>3, NewTallyIsEmpty
<1>5. \A b \in DOMAIN owners : /\ owners[b] \in [DOMAIN input.buckets[b] -> DOMAIN Hosts \cup {NoOwner}]
                               /\ OwnedByNobody(b)
  BY DEF Init, Zeros, NoOwner, OwnedByNobody
<1>6. DOMAIN owners = DOMAIN input.buckets /\ waiting \subseteq DOMAIN Loads
  BY DEF Init, Loads
<1> QED
  BY <1>2, <1>3, <1>4, <1>5, <1>6 DEF Init, Typed

\* An empty tally is the tally of a bucket that nobody owns a load of.
Fresh ==
  /\ Typed /\ OwnedByNobody(bucket)
  /\ \E carried \in [DOMAIN Hosts -> Nat] : tally = NewTally(Hosts, carried)

FreshParts ==
  /\ \A r \in DOMAIN Hosts : tally.primary[r] = 0 /\ LoadIn(owners[bucket], Loads, r) = 0
  /\ \A h \in HostsOf(Hosts) : tally.hostPrimary[h] = SumFunctionOnSet(tally.primary, Members(Hosts, h))
  /\ HostTallies /\ Unused /\ EvenHostsFirst /\ HostsAndRanksBalanced

LEMMA FreshTally == Fresh => FreshParts
<1> SUFFICES ASSUME Fresh PROVE FreshParts
  OBVIOUS
<1> PICK carried \in [DOMAIN Hosts -> Nat] : tally = NewTally(Hosts, carried)
  BY DEF Fresh
<1>1. Typed /\ Hosts \in Seq(Nat)
  BY InputsTyped DEF Fresh
<1>2. /\ \A r \in DOMAIN Hosts : tally.primary[r] = 0 /\ tally.secondary[r] = 0
      /\ \A h \in HostsOf(Hosts) : /\ tally.hostPrimary[h] = 0 /\ tally.hostSecondary[h] = 0
                                   /\ tally.hostCarried[h] = SumFunctionOnSet(carried, Members(Hosts, h))
      /\ tally.carried = carried
  BY <1>1, NewTallyIsEmpty
<1>3. \A r \in DOMAIN Hosts : Has(owners[bucket], r) = {}
  BY <1>1, InputsTyped DEF OwnedByNobody, Has, Fresh
<1>4. \A r \in DOMAIN Hosts : LoadIn(owners[bucket], Loads, r) = 0
  BY <1>3, SumOfNone DEF LoadIn
<1>5. ASSUME NEW h \in HostsOf(Hosts)
      PROVE  tally.hostPrimary[h] = SumFunctionOnSet(tally.primary, Members(Hosts, h))
  <2>1. IsFiniteSet(Members(Hosts, h)) /\ \A r \in Members(Hosts, h) : tally.primary[r] = 0
    BY <1>1, <1>2, HostsFinite DEF Members
  <2> QED
    BY <1>2, <2>1, SumOfZeros
<1>6. HostTallies
  BY <1>2 DEF HostTallies
<1>7. Unused
  BY <1>2 DEF Unused
<1>8. EvenHostsFirst
  BY <1>3 DEF EvenHostsFirst, OwnedBy, Has
<1>9. HostsAndRanksBalanced
  BY <1>2 DEF HostsAndRanksBalanced, WithinOneLoad
<1> QED
  BY <1>2, <1>4, <1>5, <1>6, <1>7, <1>8, <1>9 DEF FreshParts

\* The loads of the buckets so far that LargestSoFar is the greatest of.
Largests(n) == {0} \cup {input.buckets[b][1].primary : b \in 1 .. n}

LEMMA LargestIsGreatest ==
  ASSUME Typed, \A b \in DOMAIN input.buckets : Len(input.buckets[b]) = 1,
         NEW n \in DOMAIN input.buckets
  PROVE  Max(Largests(n)) \in Largests(n) /\ Max(Largests(n)) \in Nat
         /\ \A x \in Largests(n) : x <= Max(Largests(n))
<1> DEFINE f == [b \in 1 .. n |-> input.buckets[b][1].primary]
           S == {input.buckets[b][1].primary : b \in 1 .. n}
<1>1. n \in Nat /\ 1 .. n \subseteq DOMAIN input.buckets
  BY InputsTyped
<1>2. \A b \in 1 .. n : input.buckets[b][1].primary \in Nat
  <2> SUFFICES ASSUME NEW b \in 1 .. n PROVE input.buckets[b][1].primary \in Nat
    OBVIOUS
  <2>1. b \in DOMAIN input.buckets
    BY <1>1
  <2>2. input.buckets[b] \in Seq([primary : Nat, secondary : Nat, fixed : Nat])
    BY <2>1, InputsAssumption DEF Typed
  <2>3. 1 \in DOMAIN input.buckets[b]
    BY <2>1, <2>2
  <2> QED
    BY <2>1, <2>3, InputsTyped
<1>3. f \in Surjection(1 .. n, S)
  BY DEF Surjection
<1>4. IsFiniteSet(S)
  BY <1>1, <1>3, FS_Interval, FS_Surjection
<1>5. S \subseteq Nat
  BY <1>2
<1> HIDE DEF S
<1> DEFINE L == Largests(n)
<1>6. L = {0} \cup S
  BY DEF Largests, S
<1> HIDE DEF L
<1>7. IsFiniteSet(L)
  <2>1. IsFiniteSet(S \cup {0})
    BY <1>4, FS_AddElement
  <2>2. L = S \cup {0}
    BY <1>6
  <2> QED
    BY <2>1, <2>2
<1>8. L # {} /\ L \subseteq Nat
  BY <1>5, <1>6
<1>9. Max(L) \in L /\ \A x \in L : x <= Max(L)
  BY <1>7, <1>8, GreatestNumber
<1> QED
  BY <1>8, <1>9 DEF L

LEMMA InitIInv == Init => IInv
<1> SUFFICES ASSUME Init PROVE IInv
  OBVIOUS
<1> DEFINE zeros == Zeros(DOMAIN Hosts)
<1>1. /\ Typed /\ bucket = 1 /\ \A b \in DOMAIN owners : OwnedByNobody(b)
      /\ tally = NewTally(Hosts, zeros) /\ zeros \in [DOMAIN Hosts -> Nat]
  BY InitTyped
<1>2. bucket \in DOMAIN owners
  BY <1>1 DEF Typed
<1>3. FreshParts
  BY <1>1, <1>2, FreshTally DEF Fresh
<1>4. \A r \in DOMAIN Hosts : tally.carried[r] = 0 /\ Totals[r] = 0
  <2>1. tally.carried = zeros
    BY <1>1, InputsTyped, NewTallyIsEmpty
  <2> QED
    BY <1>3, <2>1 DEF Zeros, Totals, FreshParts
<1>5. TypeOK
  <2>1. \A r \in DOMAIN Hosts : tally.carried[r] = CarriedIn(owners, input.buckets, bucket - 1, r)
    <3>1. 1 .. bucket - 1 = {}
      BY <1>1
    <3> QED
      BY <1>4, <3>1, SumOfNone DEF CarriedIn
  <2>2. waiting = {i \in DOMAIN Loads : owners[bucket][i] = NoOwner}
    BY <1>1, <1>2 DEF Init, Loads, OwnedByNobody, Typed
  <2>3. Parts
    BY <1>1, <1>3, <2>1, <2>2 DEF Parts, FreshParts, OwnedByNobody
  <2> QED
    BY <2>3, TypeOKIs
<1>6. Later
  BY <1>1 DEF Later
<1>7. BucketsShareLoad
  <2> SUFFICES ASSUME \A b \in DOMAIN input.buckets : Len(input.buckets[b]) = 1
               PROVE  /\ \A g, h \in HostsOf(Hosts) : TotalOn(g) - TotalOn(h) <= LargestSoFar
                      /\ \A q, r \in DOMAIN Hosts : Hosts[q] = Hosts[r] => Totals[q] - Totals[r] <= LargestSoFar
    BY DEF BucketsShareLoad
  <2>1. LargestSoFar \in Nat
    BY <1>1, LargestIsGreatest DEF LargestSoFar, Largests, Typed
  <2>2. \A h \in HostsOf(Hosts) : TotalOn(h) = 0
    <3> SUFFICES ASSUME NEW h \in HostsOf(Hosts) PROVE TotalOn(h) = 0
      OBVIOUS
    <3>1. IsFiniteSet(Members(Hosts, h)) /\ \A r \in Members(Hosts, h) : Totals[r] = 0
      <4>1. Members(Hosts, h) \subseteq DOMAIN Hosts
        BY DEF Members
      <4>2. IsFiniteSet(Members(Hosts, h))
        BY <1>1, InputsTyped, HostsFinite
      <4> QED
        BY <1>4, <4>1, <4>2
    <3> QED
      BY <3>1, SumOfZeros DEF TotalOn
  <2> QED
    BY <1>4, <2>1, <2>2
<1> QED
  BY <1>1, <1>3, <1>5, <1>6, <1>7 DEF IInv, FreshParts

----------------------------------------------------------------------------
(* A load is placed. *)

\* The load is the rank's now, and nothing else changed hands.
LEMMA PlaceGives ==
  ASSUME Typed, TypeOK, NEW i \in waiting, NEW r \in DOMAIN Hosts, Place(i, r)
  PROVE  /\ input' = input /\ bucket' = bucket /\ Hosts' = Hosts /\ Loads' = Loads /\ (AllFree' <=> AllFree)
         /\ i \in DOMAIN Loads /\ i \notin Placed /\ Placed' = Placed \cup {i}
         /\ \A b \in DOMAIN owners : /\ DOMAIN owners'[b] = DOMAIN owners[b]
                                     /\ \A k \in DOMAIN owners[b] :
                                          owners'[b][k] = IF b = bucket /\ k = i THEN r ELSE owners[b][k]
<1>1. input' = input /\ bucket' = bucket /\ Hosts' = Hosts /\ Loads' = Loads /\ (AllFree' <=> AllFree)
  BY DEF Place, Hosts, Loads, AllFree
<1>2. i \in DOMAIN Loads /\ owners[bucket][i] = NoOwner
  BY DEF TypeOK
<1>3. /\ bucket \in DOMAIN owners /\ DOMAIN owners[bucket] = DOMAIN Loads
      /\ owners'[bucket] = [owners[bucket] EXCEPT ![i] = r]
      /\ \A b \in DOMAIN owners \ {bucket} : owners'[b] = owners[b]
  BY <1>2 DEF Place, Typed, Loads
<1>4. \A b \in DOMAIN owners : /\ DOMAIN owners'[b] = DOMAIN owners[b]
                               /\ \A k \in DOMAIN owners[b] :
                                    owners'[b][k] = IF b = bucket /\ k = i THEN r ELSE owners[b][k]
  BY <1>3
<1>5. i \notin Placed /\ Placed' = Placed \cup {i}
  <2>1. r # NoOwner
    BY InputsTyped
  <2> QED
    BY <1>1, <1>2, <1>3, <1>4, <2>1 DEF Placed
<1> QED
  BY <1>1, <1>2, <1>4, <1>5

LEMMA PlaceTallies ==
  ASSUME Typed, TypeOK, NEW i \in waiting, NEW r \in DOMAIN Hosts, Place(i, r)
  PROVE  /\ Typed'
         /\ tally'.primary = [tally.primary EXCEPT ![r] = @ + Loads[i].primary]
         /\ tally'.secondary = [tally.secondary EXCEPT ![r] = @ + Loads[i].secondary]
         /\ tally'.hostPrimary = [tally.hostPrimary EXCEPT ![Hosts[r]] = @ + Loads[i].primary]
         /\ tally'.hostSecondary = [tally.hostSecondary EXCEPT ![Hosts[r]] = @ + Loads[i].secondary]
         /\ tally'.carried = tally.carried /\ tally'.hostCarried = tally.hostCarried
<1>1. /\ input' = input /\ bucket' = bucket /\ Hosts' = Hosts /\ Loads' = Loads /\ i \in DOMAIN Loads
      /\ Loads[i].primary \in Nat /\ Loads[i].secondary \in Nat
  BY PlaceGives, InputsTyped DEF Typed, Loads
<1>2. /\ IsTally(tally', Hosts)
      /\ tally'.primary = [tally.primary EXCEPT ![r] = @ + Loads[i].primary]
      /\ tally'.secondary = [tally.secondary EXCEPT ![r] = @ + Loads[i].secondary]
      /\ tally'.hostPrimary = [tally.hostPrimary EXCEPT ![Hosts[r]] = @ + Loads[i].primary]
      /\ tally'.hostSecondary = [tally.hostSecondary EXCEPT ![Hosts[r]] = @ + Loads[i].secondary]
      /\ tally'.carried = tally.carried /\ tally'.hostCarried = tally.hostCarried
  <2>1. tally' = Assign(tally, Hosts, Loads[i], r) /\ IsTally(tally, Hosts)
    BY DEF Place, Typed
  <2> DEFINE load == Loads[i]
             t == tally
             hosts == Hosts
  <2>2. IsTally(t, hosts) /\ load.primary \in Nat /\ load.secondary \in Nat /\ r \in DOMAIN hosts
    BY <1>1, <2>1
  <2> HIDE DEF load, t, hosts
  <2>3. /\ IsTally(Assign(t, hosts, load, r), hosts)
        /\ Assign(t, hosts, load, r).primary = [t.primary EXCEPT ![r] = @ + load.primary]
        /\ Assign(t, hosts, load, r).secondary = [t.secondary EXCEPT ![r] = @ + load.secondary]
        /\ Assign(t, hosts, load, r).hostPrimary = [t.hostPrimary EXCEPT ![hosts[r]] = @ + load.primary]
        /\ Assign(t, hosts, load, r).hostSecondary = [t.hostSecondary EXCEPT ![hosts[r]] = @ + load.secondary]
        /\ Assign(t, hosts, load, r).carried = t.carried
        /\ Assign(t, hosts, load, r).hostCarried = t.hostCarried
    BY <2>2, AssignAdds
  <2> QED
    BY <2>1, <2>3 DEF load, t, hosts
<1>3. Typed'
  <2>1. /\ DOMAIN owners' = DOMAIN owners
        /\ \A b \in DOMAIN owners : owners'[b] \in [DOMAIN input.buckets[b] -> DOMAIN Hosts \cup {NoOwner}]
    BY DEF Place, Typed
  <2> QED
    BY <1>1, <1>2, <2>1 DEF Typed, Place, Loads
<1> QED
  BY <1>2, <1>3

\* Who owns what, after the load was placed.
LEMMA PlaceOwned ==
  ASSUME Typed, TypeOK, NEW i \in waiting, NEW r \in DOMAIN Hosts, Place(i, r)
  PROVE  /\ \A b \in DOMAIN owners \ {bucket} : owners'[b] = owners[b]
         /\ DOMAIN owners[bucket] = DOMAIN Loads
         /\ Has(owners'[bucket], r) = Has(owners[bucket], r) \cup {i}
         /\ \A q \in DOMAIN Hosts \ {r} : Has(owners'[bucket], q) = Has(owners[bucket], q)
         /\ LoadIn(owners'[bucket], Loads, r) = LoadIn(owners[bucket], Loads, r) + Loads[i].primary
         /\ \A q \in DOMAIN Hosts \ {r} :
              LoadIn(owners'[bucket], Loads, q) = LoadIn(owners[bucket], Loads, q)
<1> DEFINE os == owners[bucket]
           os2 == owners'[bucket]
           f == [k \in DOMAIN Loads |-> Loads[k].primary]
<1>1. /\ i \in DOMAIN Loads /\ i \notin Placed /\ bucket \in DOMAIN owners
      /\ DOMAIN os = DOMAIN Loads /\ r # NoOwner
      /\ os2 = [os EXCEPT ![i] = r]
      /\ \A b \in DOMAIN owners \ {bucket} : owners'[b] = owners[b]
  BY PlaceGives, InputsTyped DEF Typed, Loads, Place
<1>2. os[i] = NoOwner
  BY <1>1 DEF Placed
<1>3. /\ IsFiniteSet(Has(os, r)) /\ Has(os, r) \subseteq DOMAIN Loads /\ i \notin Has(os, r)
      /\ \A k \in DOMAIN Loads : f[k] \in Nat
      /\ f[i] = Loads[i].primary
  <2>1. IsFiniteSet(DOMAIN Loads) /\ \A k \in DOMAIN Loads : Loads[k].primary \in Nat
    BY <1>1, InputsTyped DEF Typed, Loads
  <2>2. Has(os, r) \subseteq DOMAIN Loads
    BY <1>1 DEF Has
  <2>3. i \notin Has(os, r)
    BY <1>1, <1>2 DEF Has
  <2> QED
    BY <1>1, <2>1, <2>2, <2>3, FS_Subset
<1> HIDE DEF os, os2
<1>4. Has(os2, r) = Has(os, r) \cup {i} /\ \A q \in DOMAIN Hosts \ {r} : Has(os2, q) = Has(os, q)
  <2>1. DOMAIN os2 = DOMAIN os /\ \A k \in DOMAIN os : os2[k] = IF k = i THEN r ELSE os[k]
    BY <1>1
  <2>2. \A q \in DOMAIN Hosts : q # NoOwner
    BY InputsTyped
  <2> QED
    BY <1>1, <1>2, <2>1, <2>2 DEF Has
<1>5. \A q : /\ LoadIn(os, Loads, q) = SumFunctionOnSet(f, Has(os, q))
             /\ LoadIn(os2, Loads, q) = SumFunctionOnSet(f, Has(os2, q))
  <2>1. DOMAIN os2 = DOMAIN Loads
    BY <1>1
  <2> QED
    BY <1>1, <2>1 DEF LoadIn
<1>6. SumFunctionOnSet(f, Has(os, r) \cup {i}) = SumFunctionOnSet(f, Has(os, r)) + f[i]
  <2> HIDE DEF f
  <2>1. \A k \in Has(os, r) \cup {i} : f[k] \in Nat
    BY <1>1, <1>3
  <2> QED
    BY <1>3, <2>1, SumWith
<1> HIDE DEF f
<1>7. LoadIn(os2, Loads, r) = LoadIn(os, Loads, r) + Loads[i].primary
  BY <1>3, <1>4, <1>5, <1>6
<1>8. \A q \in DOMAIN Hosts \ {r} : LoadIn(os2, Loads, q) = LoadIn(os, Loads, q)
  BY <1>4, <1>5
<1> QED
  BY <1>1, <1>4, <1>7, <1>8 DEF os, os2

\* Adding to the tally of one rank or of its host is adding to one of the sums.
LEMMA PlaceSums ==
  ASSUME NEW hosts \in Seq(Nat), NEW f, \A q \in DOMAIN hosts : f[q] \in Nat,
         NEW r \in DOMAIN hosts, NEW d \in Nat, NEW h, NEW g, g[r] = f[r] + d, \A q \in DOMAIN hosts \ {r} : g[q] = f[q]
  PROVE  SumFunctionOnSet(g, Members(hosts, h)) =
           SumFunctionOnSet(f, Members(hosts, h)) + (IF h = hosts[r] THEN d ELSE 0)
<1> DEFINE S == Members(hosts, h)
<1>1. /\ IsFiniteSet(S) /\ \A q \in S : f[q] \in Nat
      /\ r \in S <=> h = hosts[r]
      /\ \A q \in S : q # r => g[q] = f[q]
      /\ g[r] = f[r] + d
  BY HostsFinite DEF Members
<1>2. SumFunctionOnSet(f, S) \in Nat
  BY <1>1, SumTyped
<1> HIDE DEF S
<1>3. CASE r \in S
  <2>1. SumFunctionOnSet(g, S) = SumFunctionOnSet(f, S) + d
    BY <1>1, <1>3, SumGrows
  <2> QED
    BY <1>1, <1>3, <2>1 DEF S
<1>4. CASE r \notin S
  <2>1. SumFunctionOnSet(f, S) = SumFunctionOnSet(g, S)
    BY <1>1, <1>4, SumSame
  <2> QED
    BY <1>1, <1>2, <1>4, <2>1 DEF S
<1> QED
  BY <1>3, <1>4

LEMMA PlaceKeepsTypeOK ==
  ASSUME Typed, TypeOK, NEW i \in waiting, NEW r \in DOMAIN Hosts, Place(i, r), Loads[i].fixed \in {NoOwner, r}
  PROVE  TypeOK'
<1>1. /\ input' = input /\ bucket' = bucket /\ Hosts' = Hosts /\ Loads' = Loads
      /\ i \in DOMAIN Loads /\ Loads = input.buckets[bucket]
      /\ DOMAIN owners' = DOMAIN owners /\ bucket \in DOMAIN owners
      /\ DOMAIN owners[bucket] = DOMAIN Loads /\ DOMAIN owners = 1 .. Len(input.buckets)
      /\ bucket \in Nat /\ bucket - 1 \in Nat /\ r # NoOwner
      /\ \A b \in DOMAIN owners : /\ DOMAIN owners'[b] = DOMAIN owners[b]
                                  /\ \A k \in DOMAIN owners[b] :
                                       owners'[b][k] = IF b = bucket /\ k = i THEN r ELSE owners[b][k]
  <2>1. DOMAIN owners = 1 .. Len(input.buckets) /\ bucket \in DOMAIN owners /\ r # NoOwner
    BY InputsTyped DEF Typed
  <2>2. bucket \in Nat /\ bucket - 1 \in Nat
    BY <2>1, InputsTyped
  <2>3. DOMAIN owners' = DOMAIN owners
    BY DEF Place
  <2> QED
    BY <2>1, <2>2, <2>3, PlaceGives DEF Typed, Loads
<1>2. waiting' = {k \in DOMAIN Loads : owners'[bucket][k] = NoOwner}
  BY <1>1 DEF TypeOK, Place
<1>3. ASSUME NEW b \in DOMAIN owners, NEW k \in DOMAIN owners[b]
      PROVE  owners'[b][k] # NoOwner /\ input.buckets[b][k].fixed # NoOwner
               => owners'[b][k] = input.buckets[b][k].fixed
  <2>1. CASE b = bucket /\ k = i
    BY <1>1, <2>1
  <2>2. CASE ~(b = bucket /\ k = i)
    BY <1>1, <2>2 DEF TypeOK
  <2> QED
    BY <2>1, <2>2
<1>4. ASSUME NEW q \in DOMAIN Hosts
      PROVE  /\ tally'.primary[q] = LoadIn(owners'[bucket], Loads, q)
             /\ tally'.carried[q] = CarriedIn(owners', input.buckets, bucket - 1, q)
  <2>1. /\ tally.primary[q] = LoadIn(owners[bucket], Loads, q)
        /\ tally.carried[q] = CarriedIn(owners, input.buckets, bucket - 1, q)
    BY TypeOKIs DEF Parts
  <2>2. \A b \in 1 .. bucket - 1 : owners'[b] = owners[b]
    <3>1. \A b \in DOMAIN owners \ {bucket} : owners'[b] = owners[b]
      BY PlaceOwned
    <3>2. \A b \in 1 .. bucket - 1 : b \in 1 .. Len(input.buckets) /\ b # bucket
      BY <1>1, InputsTyped
    <3> QED
      BY <1>1, <3>1, <3>2
  <2>3. CarriedIn(owners', input.buckets, bucket - 1, q) = CarriedIn(owners, input.buckets, bucket - 1, q)
    BY <1>1, <2>2, CarriedSame
  <2>4. /\ tally'.primary = [tally.primary EXCEPT ![r] = @ + Loads[i].primary]
        /\ tally'.carried = tally.carried
    BY PlaceTallies
  <2>5. tally'.primary[q] = IF q = r THEN tally.primary[q] + Loads[i].primary ELSE tally.primary[q]
    BY <2>4 DEF Typed, IsTally
  <2> QED
    BY <2>1, <2>3, <2>4, <2>5, PlaceOwned
<1>5. ASSUME NEW h \in HostsOf(Hosts)
      PROVE  tally'.hostPrimary[h] = SumFunctionOnSet(tally'.primary, Members(Hosts, h))
  <2> DEFINE f == tally.primary
             d == Loads[i].primary
             hosts == Hosts
  <2>1. f \in [DOMAIN hosts -> Nat] /\ (\A q \in DOMAIN hosts : f[q] \in Nat) /\ d \in Nat /\ hosts \in Seq(Nat) /\ r \in DOMAIN hosts
    BY <1>1, InputsTyped DEF Typed, IsTally
  <2>2. tally.hostPrimary[h] = SumFunctionOnSet(f, Members(hosts, h))
    BY DEF TypeOK
  <2>3. /\ tally'.primary = [f EXCEPT ![r] = @ + d]
        /\ tally'.hostPrimary = [tally.hostPrimary EXCEPT ![hosts[r]] = @ + d]
    BY PlaceTallies
  <2>4. tally'.hostPrimary[h] = IF h = hosts[r] THEN tally.hostPrimary[h] + d ELSE tally.hostPrimary[h]
    BY <2>3 DEF Typed, IsTally
  <2>5. tally.hostPrimary[h] \in Nat
    BY DEF Typed, IsTally
  <2> DEFINE g == tally'.primary
  <2> HIDE DEF f, d, hosts
  <2>6. SumFunctionOnSet(g, Members(hosts, h)) =
          SumFunctionOnSet(f, Members(hosts, h)) + (IF h = hosts[r] THEN d ELSE 0)
    <3> HIDE DEF g
    <3>1. g[r] = f[r] + d /\ \A q \in DOMAIN hosts \ {r} : g[q] = f[q]
      BY <2>1, <2>3 DEF g
    <3>2. hosts \in Seq(Nat) /\ r \in DOMAIN hosts /\ d \in Nat /\ \A q \in DOMAIN hosts : f[q] \in Nat
      BY <2>1
    <3> QED
      BY <3>1, <3>2, PlaceSums
  <2>7. SumFunctionOnSet(tally'.primary, Members(hosts, h)) = tally'.hostPrimary[h]
    BY <2>1, <2>2, <2>3, <2>4, <2>5, <2>6
  <2> QED
    BY <2>7 DEF hosts
<1>6. Parts'
  BY <1>1, <1>2, <1>3, <1>4, <1>5 DEF Parts
<1> QED
  BY <1>6, TypeOKIs, PTL

LEMMA PlaceKeepsRest ==
  ASSUME Typed, TypeOK, Later, HostTallies, Unused,
         NEW i \in waiting, NEW r \in DOMAIN Hosts, Place(i, r)
  PROVE  Later' /\ HostTallies' /\ Unused'
<1>1. /\ bucket' = bucket /\ Hosts' = Hosts /\ DOMAIN owners' = DOMAIN owners /\ bucket \in DOMAIN owners
      /\ \A b \in DOMAIN owners \ {bucket} : owners'[b] = owners[b]
      /\ tally'.carried = tally.carried /\ tally'.hostCarried = tally.hostCarried
  BY PlaceGives, PlaceOwned, PlaceTallies DEF Place, Typed
<1>2. Later'
  <2>1. \A b \in DOMAIN owners : b > bucket => b # bucket
    BY InputsTyped DEF Typed
  <2> QED
    BY <1>1, <2>1 DEF Later, OwnedByNobody
<1>3. HostTallies'
  BY <1>1 DEF HostTallies
<1>4. /\ tally'.primary = [tally.primary EXCEPT ![r] = @ + Loads[i].primary]
      /\ tally'.secondary = [tally.secondary EXCEPT ![r] = @ + Loads[i].secondary]
      /\ tally'.hostPrimary = [tally.hostPrimary EXCEPT ![Hosts[r]] = @ + Loads[i].primary]
      /\ tally'.hostSecondary = [tally.hostSecondary EXCEPT ![Hosts[r]] = @ + Loads[i].secondary]
  BY PlaceTallies
<1>5. /\ \A q \in DOMAIN Hosts \ {r} : /\ tally'.primary[q] = tally.primary[q]
                                       /\ tally'.secondary[q] = tally.secondary[q]
      /\ \A h \in HostsOf(Hosts) \ {Hosts[r]} : /\ tally'.hostPrimary[h] = tally.hostPrimary[h]
                                                /\ tally'.hostSecondary[h] = tally.hostSecondary[h]
  BY <1>4 DEF Typed, IsTally
<1>6. \A q \in DOMAIN Hosts : Has(owners'[bucket], q) = {} => q # r /\ Has(owners[bucket], q) = {}
  BY PlaceOwned
<1>7. /\ \A q \in DOMAIN Hosts :
           Has(owners[bucket], q) = {} => tally.primary[q] = 0 /\ tally.secondary[q] = 0
      /\ \A h \in HostsOf(Hosts) :
           (\A q \in Members(Hosts, h) : Has(owners[bucket], q) = {}) =>
             tally.hostPrimary[h] = 0 /\ tally.hostSecondary[h] = 0
  BY DEF Unused, Has, OwnedBy
<1>8. \A h : Members(Hosts, h) \subseteq DOMAIN Hosts /\ (h = Hosts[r] => r \in Members(Hosts, h))
  BY DEF Members
<1>9. /\ \A q \in DOMAIN Hosts :
           Has(owners'[bucket], q) = {} => tally'.primary[q] = 0 /\ tally'.secondary[q] = 0
      /\ \A h \in HostsOf(Hosts) :
           (\A q \in Members(Hosts, h) : Has(owners'[bucket], q) = {}) =>
             tally'.hostPrimary[h] = 0 /\ tally'.hostSecondary[h] = 0
  BY <1>5, <1>6, <1>7, <1>8
<1>10. Unused'
  BY <1>1, <1>9 DEF Unused, Has, OwnedBy
<1> QED
  BY <1>2, <1>3, <1>10

----------------------------------------------------------------------------
(* The load goes to the least loaded host and rank. *)

LEMMA GreedyKeepsBalance ==
  ASSUME IInv, NEW i \in waiting, NEW r \in DOMAIN Hosts, Chosen(tally, Hosts, FALSE, r), Place(i, r)
  PROVE  HostsAndRanksBalanced'
<1>1. /\ Hosts' = Hosts /\ Loads' = Loads /\ (AllFree' <=> AllFree) /\ Placed' = Placed \cup {i}
      /\ tally'.primary = [tally.primary EXCEPT ![r] = @ + Loads[i].primary]
      /\ tally'.hostPrimary = [tally.hostPrimary EXCEPT ![Hosts[r]] = @ + Loads[i].primary]
  BY PlaceGives, PlaceTallies DEF IInv
<1>2. /\ \A h \in HostsOf(Hosts) : tally.hostPrimary[Hosts[r]] <= tally.hostPrimary[h]
      /\ \A q \in DOMAIN Hosts : Hosts[q] = Hosts[r] => tally.primary[r] <= tally.primary[q]
  BY ChosenIsLeast DEF IInv, Typed
<1>3. /\ tally.primary \in [DOMAIN Hosts -> Nat] /\ tally.hostPrimary \in [HostsOf(Hosts) -> Nat]
      /\ Hosts[r] \in HostsOf(Hosts)
      /\ \A k \in DOMAIN Loads : Loads[k].primary \in Nat
      /\ i \in DOMAIN Loads /\ Placed \subseteq DOMAIN Loads
  BY InputsTyped DEF IInv, Typed, IsTally, HostsOf, Placed, Loads
<1>4. ASSUME AllFree, NEW g \in HostsOf(Hosts), NEW h \in HostsOf(Hosts)
      PROVE  WithinOneLoad(tally.hostPrimary[h], tally.hostPrimary[g])'
  <2>1. WithinOneLoad(tally.hostPrimary[h], tally.hostPrimary[g])
    BY <1>4 DEF IInv, HostsAndRanksBalanced
  <2>2. CASE g = Hosts[r] /\ h # g
    BY <1>1, <1>2, <1>3, <2>2 DEF WithinOneLoad
  <2>3. CASE g # Hosts[r] \/ h = g
    BY <1>1, <1>3, <2>1, <2>3 DEF WithinOneLoad
  <2> QED
    BY <2>2, <2>3
<1>5. ASSUME AllFree, NEW q \in DOMAIN Hosts, NEW s \in DOMAIN Hosts, Hosts[q] = Hosts[s]
      PROVE  WithinOneLoad(tally.primary[q], tally.primary[s])'
  <2>1. WithinOneLoad(tally.primary[q], tally.primary[s])
    BY <1>5 DEF IInv, HostsAndRanksBalanced
  <2>2. CASE s = r /\ q # s
    BY <1>1, <1>2, <1>3, <1>5, <2>2 DEF WithinOneLoad
  <2>3. CASE s # r \/ q = s
    BY <1>1, <1>3, <2>1, <2>3 DEF WithinOneLoad
  <2> QED
    BY <2>2, <2>3
<1> QED
  BY <1>1, <1>4, <1>5 DEF HostsAndRanksBalanced

\* Fewer loads than even hosts leave an even host without one.
LEMMA SomeEvenUnused ==
  ASSUME Typed, 2 * Cardinality(Placed) < Cardinality(HostsOf(Hosts))
  PROVE  \E e \in HostsOf(Hosts) :
           e % 2 = 0 /\ \A k \in Placed : Hosts[owners[bucket][k]] # e
<1> DEFINE n == Cardinality(HostsOf(Hosts))
           m == (n + 1) \div 2
           f == [j \in 1 .. m |-> CHOOSE k \in Placed : Hosts[owners[bucket][k]] = 2 * (j - 1)]
<1>1. n \in Nat /\ HostsOf(Hosts) = 0 .. n - 1
  BY InputsTyped, HostsFinite DEF AreHosts
<1>2. IsFiniteSet(Placed) /\ Cardinality(Placed) \in Nat
  <2>1. IsFiniteSet(DOMAIN Loads)
    BY InputsTyped DEF Typed, Loads
  <2> QED
    BY <2>1, FS_Subset, FS_CardinalityType DEF Placed
<1> SUFFICES ASSUME \A e \in HostsOf(Hosts) :
                      e % 2 = 0 => \E k \in Placed : Hosts[owners[bucket][k]] = e
             PROVE  FALSE
  OBVIOUS
<1>3. \A j \in 1 .. m : 2 * (j - 1) \in 0 .. n - 1 /\ (2 * (j - 1)) % 2 = 0
  <2> HIDE DEF n
  <2> QED BY <1>1
<1>4. \A j \in 1 .. m : f[j] \in Placed /\ Hosts[owners[bucket][f[j]]] = 2 * (j - 1)
  BY <1>1, <1>3
<1> HIDE DEF f
<1>5. f \in [1 .. m -> Placed]
  BY <1>4 DEF f
<1>6. m \in Nat /\ IsFiniteSet(1 .. m) /\ Cardinality(1 .. m) = m /\ Cardinality(Placed) < m
  <2>1. m \in Nat /\ Cardinality(Placed) < m
    BY <1>1, <1>2
  <2> HIDE DEF m
  <2> QED
    BY <2>1, FS_Interval
<1>7. PICK j \in 1 .. m, l \in 1 .. m : j # l /\ f[j] = f[l]
  <2> HIDE DEF m
  <2> QED BY <1>2, <1>5, <1>6, FS_PigeonHole
<1>8. 2 * (j - 1) = 2 * (l - 1) /\ j \in Int /\ l \in Int
  BY <1>4, <1>6, <1>7
<1> QED
  BY <1>7, <1>8

\* Nothing is carried into the first bucket.
LEMMA NothingCarriedFirst ==
  ASSUME Typed, TypeOK, HostTallies, bucket = 1
  PROVE  \A h \in HostsOf(Hosts) : tally.hostCarried[h] = 0
<1>1. \A r \in DOMAIN Hosts : tally.carried[r] = 0
  <2> SUFFICES ASSUME NEW r \in DOMAIN Hosts PROVE tally.carried[r] = 0
    OBVIOUS
  <2>1. tally.carried[r] = CarriedIn(owners, input.buckets, bucket - 1, r)
    BY TypeOKIs DEF Parts
  <2>2. 1 .. bucket - 1 = {}
    OBVIOUS
  <2> QED
    BY <2>1, <2>2, SumOfNone DEF CarriedIn
<1> SUFFICES ASSUME NEW h \in HostsOf(Hosts) PROVE tally.hostCarried[h] = 0
  OBVIOUS
<1>2. IsFiniteSet(Members(Hosts, h)) /\ \A r \in Members(Hosts, h) : tally.carried[r] = 0
  BY <1>1, InputsTyped, HostsFinite DEF Members
<1> QED
  BY <1>2, SumOfZeros DEF HostTallies

LEMMA GreedyKeepsEven ==
  ASSUME IInv, NEW i \in waiting, NEW r \in DOMAIN Hosts, Chosen(tally, Hosts, FALSE, r), Place(i, r)
  PROVE  EvenHostsFirst'
<1> DEFINE n == Cardinality(HostsOf(Hosts))
<1>1. /\ bucket' = bucket /\ Hosts' = Hosts /\ (AllFree' <=> AllFree)
      /\ Placed' = Placed \cup {i} /\ i \notin Placed
      /\ Has(owners'[bucket], r) = Has(owners[bucket], r) \cup {i}
      /\ \A q \in DOMAIN Hosts \ {r} : Has(owners'[bucket], q) = Has(owners[bucket], q)
  BY PlaceGives, PlaceOwned DEF IInv
<1>2. n \in Nat /\ IsFiniteSet(Placed) /\ Cardinality(Placed) \in Nat
  <2>1. IsFiniteSet(DOMAIN Loads)
    BY InputsTyped DEF IInv, Typed, Loads
  <2>2. n \in Nat
    BY InputsTyped, HostsFinite DEF IInv
  <2> QED
    BY <2>1, <2>2, FS_Subset, FS_CardinalityType DEF Placed
<1> SUFFICES ASSUME AllFree, bucket = 1, 2 * Cardinality(Placed \cup {i}) <= n + 1
             PROVE  \A q \in DOMAIN Hosts : Has(owners'[1], q) # {} => Hosts[q] % 2 = 0
  BY <1>1 DEF EvenHostsFirst, OwnedBy, Has
<1>3. 2 * Cardinality(Placed) < n /\ 2 * Cardinality(Placed) <= n + 1
  <2>1. Cardinality(Placed \cup {i}) = Cardinality(Placed) + 1
    BY <1>1, <1>2, FS_AddElement
  <2> HIDE DEF n
  <2> QED
    BY <1>2, <2>1
<1>4. \A q \in DOMAIN Hosts : Has(owners[1], q) # {} => Hosts[q] % 2 = 0
  BY <1>3 DEF IInv, EvenHostsFirst, OwnedBy, Has
<1>5. Hosts[r] % 2 = 0
  <2>1. PICK e \in HostsOf(Hosts) : e % 2 = 0 /\ \A k \in Placed : Hosts[owners[bucket][k]] # e
    BY <1>3, SomeEvenUnused DEF IInv
  <2>2. \A q \in Members(Hosts, e) : OwnedBy(bucket, q) = {}
    <3>1. \A q \in DOMAIN Hosts : q # NoOwner
      BY InputsTyped DEF IInv
    <3>2. DOMAIN owners[bucket] = DOMAIN Loads
      BY DEF IInv, Typed, Loads
    <3> QED
      BY <2>1, <3>1, <3>2 DEF Members, OwnedBy, Placed
  <2>3. tally.hostPrimary[e] = 0 /\ tally.hostSecondary[e] = 0
    BY <2>2 DEF IInv, Unused
  <2>4. tally.hostCarried[e] = 0
    BY NothingCarriedFirst DEF IInv
  <2> DEFINE t == tally
             hosts == Hosts
             h == Hosts[r]
  <2>5. /\ AreHosts(hosts) /\ h \in HostsOf(hosts) /\ e \in HostsOf(hosts)
        /\ t.hostPrimary[h] \in Nat /\ t.hostSecondary[h] \in Nat /\ t.hostCarried[h] \in Nat
    BY InputsTyped DEF IInv, Typed, IsTally, HostsOf
  <2>6. ~Precedes(HostKey(t, hosts, e), HostKey(t, hosts, h))
    BY DEF Chosen, OpenRanks, OpenHosts, HostsOf
  <2> HIDE DEF t, hosts, h
  <2>7. HostKey(t, hosts, e) = <<0, 0, 0, HostPosition(hosts, e)>>
    BY <2>3, <2>4 DEF HostKey, t, hosts
  <2>8. ~(HostPosition(hosts, e) < HostPosition(hosts, h))
    BY <2>5, <2>6, <2>7 DEF Precedes, HostKey
  <2>9. /\ HostPosition(hosts, e) \in Nat /\ HostPosition(hosts, h) \in Nat
        /\ HostPosition(hosts, e) < (Cardinality(HostsOf(hosts)) + 1) \div 2
        /\ HostPosition(hosts, h) < (Cardinality(HostsOf(hosts)) + 1) \div 2 => h % 2 = 0
    BY <2>1, <2>5, HostPositions
  <2>10. (Cardinality(HostsOf(hosts)) + 1) \div 2 \in Int
    BY <1>2 DEF hosts
  <2>11. h % 2 = 0
    BY <2>8, <2>9, <2>10
  <2> QED
    BY <2>11 DEF h
<1> QED
  BY <1>1, <1>4, <1>5

OneEach == \A b \in DOMAIN input.buckets : Len(input.buckets[b]) = 1

LEMMA GreedyKeepsShare ==
  ASSUME IInv, NEW i \in waiting, NEW r \in DOMAIN Hosts, Chosen(tally, Hosts, FALSE, r), Place(i, r)
  PROVE  BucketsShareLoad'
<1> DEFINE d == Loads[i].primary
<1>1. /\ input' = input /\ bucket' = bucket /\ Hosts' = Hosts /\ (AllFree' <=> AllFree)
      /\ i \in DOMAIN Loads /\ d \in Nat
      /\ tally'.primary = [tally.primary EXCEPT ![r] = @ + d] /\ tally'.carried = tally.carried
  BY PlaceGives, PlaceTallies, InputsTyped DEF IInv, Typed, Loads
<1> SUFFICES ASSUME AllFree, OneEach
             PROVE  /\ \A g, h \in HostsOf(Hosts) : (TotalOn(g) - TotalOn(h) <= LargestSoFar)'
                    /\ \A q, s \in DOMAIN Hosts : Hosts[q] = Hosts[s] => (Totals[q] - Totals[s] <= LargestSoFar)'
  BY <1>1 DEF BucketsShareLoad, OneEach
<1>2. DOMAIN Loads = {1} /\ i = 1 /\ bucket \in DOMAIN input.buckets
  <2>1. bucket \in DOMAIN input.buckets
    BY DEF IInv, Typed
  <2>2. Loads \in Seq([primary : Nat, secondary : Nat, fixed : Nat]) /\ Len(Loads) = 1
    BY <2>1, InputsAssumption DEF IInv, Typed, Loads, OneEach
  <2>3. DOMAIN Loads = 1 .. 1
    BY <2>2
  <2> QED
    BY <1>1, <2>1, <2>3
\* Nobody owns a load of this bucket yet.
<1>3. \A q \in DOMAIN Hosts : OwnedBy(bucket, q) = {}
  <2>1. owners[bucket][1] = NoOwner /\ DOMAIN owners[bucket] = {1}
    BY <1>2 DEF IInv, TypeOK, Typed, Loads
  <2>2. \A q \in DOMAIN Hosts : q # NoOwner
    BY InputsTyped DEF IInv
  <2> QED
    BY <2>1, <2>2 DEF OwnedBy
<1>4. /\ \A q \in DOMAIN Hosts : tally.primary[q] = 0 /\ tally.secondary[q] = 0
      /\ \A h \in HostsOf(Hosts) : tally.hostPrimary[h] = 0 /\ tally.hostSecondary[h] = 0
  BY <1>3 DEF IInv, Unused, Members
<1>5. /\ Hosts \in Seq(Nat) /\ Hosts[r] \in HostsOf(Hosts)
      /\ tally.primary \in [DOMAIN Hosts -> Nat] /\ tally.carried \in [DOMAIN Hosts -> Nat]
      /\ tally.hostCarried \in [HostsOf(Hosts) -> Nat]
  BY InputsTyped DEF IInv, Typed, IsTally, HostsOf
<1>6. /\ \A h \in HostsOf(Hosts) : tally.hostCarried[Hosts[r]] <= tally.hostCarried[h]
      /\ \A q \in DOMAIN Hosts : Hosts[q] = Hosts[r] => tally.carried[r] <= tally.carried[q]
  <2>1. ASSUME NEW h \in HostsOf(Hosts) PROVE tally.hostCarried[Hosts[r]] <= tally.hostCarried[h]
    <3>1. ~Precedes(HostKey(tally, Hosts, h), HostKey(tally, Hosts, Hosts[r]))
      BY DEF Chosen, OpenRanks, OpenHosts, HostsOf
    <3>2. ~(tally.hostCarried[h] < tally.hostCarried[Hosts[r]])
      BY <1>4, <1>5, <3>1 DEF Precedes, HostKey
    <3> QED
      BY <1>5, <3>2
  <2>2. ASSUME NEW q \in DOMAIN Hosts, Hosts[q] = Hosts[r] PROVE tally.carried[r] <= tally.carried[q]
    <3>1. ~Precedes(RankKey(tally, Hosts, q), RankKey(tally, Hosts, r))
      BY <2>2 DEF Chosen, OpenRanks
    <3>2. ~(tally.carried[q] < tally.carried[r])
      BY <1>4, <3>1 DEF Precedes, RankKey
    <3> QED
      BY <1>5, <3>2
  <2> QED
    BY <2>1, <2>2
<1>7. /\ \A q \in DOMAIN Hosts : /\ Totals[q] = tally.carried[q] /\ Totals[q] \in Nat
                                 /\ Totals'[q] = IF q = r THEN Totals[q] + d ELSE Totals[q]
  BY <1>1, <1>4, <1>5 DEF Totals
<1>8. \A h \in HostsOf(Hosts) : TotalOn(h) = tally.hostCarried[h] /\ TotalOn(h) \in Nat
  <2> SUFFICES ASSUME NEW h \in HostsOf(Hosts) PROVE TotalOn(h) = tally.hostCarried[h] /\ TotalOn(h) \in Nat
    OBVIOUS
  <2>1. IsFiniteSet(Members(Hosts, h)) /\ \A q \in Members(Hosts, h) : Totals[q] = tally.carried[q]
    BY <1>5, <1>7, HostsFinite DEF Members
  <2>2. TotalOn(h) = SumFunctionOnSet(tally.carried, Members(Hosts, h))
    BY <2>1, SumSame DEF TotalOn
  <2> QED
    BY <1>5, <2>2 DEF IInv, HostTallies
<1>9. ASSUME NEW h \in HostsOf(Hosts)
      PROVE  TotalOn(h)' = TotalOn(h) + (IF h = Hosts[r] THEN d ELSE 0)
  <2> DEFINE f == Totals
             g == Totals'
             hosts == Hosts
             c == d
  <2>1. /\ hosts \in Seq(Nat) /\ r \in DOMAIN hosts /\ c \in Nat /\ \A q \in DOMAIN hosts : f[q] \in Nat
        /\ g[r] = f[r] + c /\ \A q \in DOMAIN hosts \ {r} : g[q] = f[q]
    BY <1>1, <1>5, <1>7
  <2> HIDE DEF f, g, hosts, c
  <2>2. SumFunctionOnSet(g, Members(hosts, h)) =
          SumFunctionOnSet(f, Members(hosts, h)) + (IF h = hosts[r] THEN c ELSE 0)
    BY <2>1, PlaceSums
  <2> QED
    BY <1>1, <2>2 DEF f, g, hosts, c, TotalOn
<1>10. LargestSoFar' = LargestSoFar /\ LargestSoFar \in Nat /\ d <= LargestSoFar
  <2>1. Max(Largests(bucket)) \in Nat /\ \A x \in Largests(bucket) : x <= Max(Largests(bucket))
    BY <1>2, LargestIsGreatest DEF IInv, OneEach
  <2>2. bucket \in 1 .. bucket
    BY <1>2, InputsTyped DEF IInv
  <2>3. d \in Largests(bucket)
    BY <1>2, <2>2 DEF Largests, Loads
  <2>4. LargestSoFar = Max(Largests(bucket)) /\ LargestSoFar' = LargestSoFar
    BY <1>1 DEF LargestSoFar, Largests
  <2> QED
    BY <2>1, <2>3, <2>4
<1>11. /\ \A g, h \in HostsOf(Hosts) : TotalOn(g) - TotalOn(h) <= LargestSoFar
       /\ \A q, s \in DOMAIN Hosts : Hosts[q] = Hosts[s] => Totals[q] - Totals[s] <= LargestSoFar
  BY DEF IInv, BucketsShareLoad, OneEach
<1> HIDE DEF d
<1>12. ASSUME NEW g \in HostsOf(Hosts), NEW h \in HostsOf(Hosts)
       PROVE  TotalOn(g)' - TotalOn(h)' <= LargestSoFar
  <2>1. /\ TotalOn(g)' = TotalOn(g) + (IF g = Hosts[r] THEN d ELSE 0)
        /\ TotalOn(h)' = TotalOn(h) + (IF h = Hosts[r] THEN d ELSE 0)
    BY <1>9
  <2>2. /\ TotalOn(g) \in Nat /\ TotalOn(h) \in Nat /\ TotalOn(g) - TotalOn(h) <= LargestSoFar
        /\ g = Hosts[r] => TotalOn(g) <= TotalOn(h)
    BY <1>5, <1>6, <1>8, <1>11
  <2> QED
    BY <1>1, <1>10, <2>1, <2>2
<1>13. ASSUME NEW q \in DOMAIN Hosts, NEW s \in DOMAIN Hosts, Hosts[q] = Hosts[s]
       PROVE  Totals'[q] - Totals'[s] <= LargestSoFar
  BY <1>1, <1>6, <1>7, <1>10, <1>11, <1>13
<1> QED
  BY <1>10, <1>12, <1>13

LEMMA PlaceLargestKeeps ==
  ASSUME IInv, PlaceLargest
  PROVE  IInv'
<1>1. PICK i \in waiting : \E r \in DOMAIN Hosts : Chosen(tally, Hosts, FALSE, r) /\ Place(i, r)
  BY DEF PlaceLargest
<1>2. PICK r \in DOMAIN Hosts : Chosen(tally, Hosts, FALSE, r) /\ Place(i, r)
  BY <1>1
<1>3. Loads[i].fixed \in {NoOwner, r}
  BY DEF PlaceLargest, Fixed
<1>4. Typed' /\ TypeOK'
  BY <1>2, <1>3, PlaceTallies, PlaceKeepsTypeOK DEF IInv
<1>5. Later' /\ HostTallies' /\ Unused'
  BY <1>2, PlaceKeepsRest DEF IInv
<1>6. EvenHostsFirst' /\ HostsAndRanksBalanced' /\ BucketsShareLoad'
  BY <1>2, GreedyKeepsEven, GreedyKeepsBalance, GreedyKeepsShare
<1> QED
  BY <1>4, <1>5, <1>6 DEF IInv

\* Where the program fixes an owner, nothing is said of the balance.
LEMMA PlaceFixedKeeps ==
  ASSUME IInv, PlaceFixed
  PROVE  IInv'
<1>1. PICK i \in Fixed : Place(i, Loads[i].fixed)
  BY DEF PlaceFixed
<1>2. i \in waiting /\ Loads[i].fixed # NoOwner
  BY DEF Fixed
<1>3. i \in DOMAIN Loads /\ Loads = input.buckets[bucket] /\ bucket \in DOMAIN input.buckets
  BY <1>2 DEF IInv, Typed, Loads
<1>4. Loads[i].fixed \in DOMAIN Hosts
  BY <1>2, <1>3, InputsTyped DEF IInv
<1>5. Typed' /\ TypeOK' /\ (AllFree' <=> AllFree)
  BY <1>1, <1>2, <1>4, PlaceGives, PlaceTallies, PlaceKeepsTypeOK DEF IInv
<1>6. Later' /\ HostTallies' /\ Unused'
  BY <1>1, <1>2, <1>4, PlaceKeepsRest DEF IInv
<1>7. ~AllFree
  BY <1>2, <1>3 DEF AllFree
<1>8. EvenHostsFirst' /\ HostsAndRanksBalanced' /\ BucketsShareLoad'
  BY <1>5, <1>7 DEF EvenHostsFirst, HostsAndRanksBalanced, BucketsShareLoad
<1> QED
  BY <1>5, <1>6, <1>8 DEF IInv

----------------------------------------------------------------------------
(* The next bucket. *)

LEMMA CarriedNext ==
  ASSUME NEW own, NEW bs, NEW n \in Nat, NEW r,
         \A b \in 1 .. n + 1 : LoadIn(own[b], bs[b], r) \in Nat
  PROVE  CarriedIn(own, bs, n + 1, r) = CarriedIn(own, bs, n, r) + LoadIn(own[n + 1], bs[n + 1], r)
<1> DEFINE f == [b \in 1 .. n + 1 |-> LoadIn(own[b], bs[b], r)]
           g == [b \in 1 .. n |-> LoadIn(own[b], bs[b], r)]
           S == 1 .. n
<1>1. IsFiniteSet(S) /\ 1 .. n + 1 = S \cup {n + 1} /\ n + 1 \notin S
  <2>1. IsFiniteSet(1 .. n)
    BY FS_Interval
  <2>2. 1 .. n + 1 = (1 .. n) \cup {n + 1} /\ n + 1 \notin 1 .. n
    OBVIOUS
  <2> QED
    BY <2>1, <2>2
<1>2. /\ \A b \in S : f[b] = g[b]
      /\ \A b \in S \cup {n + 1} : f[b] \in Nat
      /\ f[n + 1] = LoadIn(own[n + 1], bs[n + 1], r)
  OBVIOUS
<1>3. /\ CarriedIn(own, bs, n + 1, r) = SumFunctionOnSet(f, 1 .. n + 1)
      /\ CarriedIn(own, bs, n, r) = SumFunctionOnSet(g, S)
  BY DEF CarriedIn
<1> HIDE DEF f, g, S
<1>4. SumFunctionOnSet(f, S) = SumFunctionOnSet(g, S)
  BY <1>1, <1>2, SumSame
<1>5. SumFunctionOnSet(f, S \cup {n + 1}) = SumFunctionOnSet(f, S) + f[n + 1]
  <2> DEFINE x == n + 1
  <2>1. x \notin S /\ \A b \in S \cup {x} : f[b] \in Nat
    BY <1>1, <1>2
  <2> HIDE DEF x
  <2>2. SumFunctionOnSet(f, S \cup {x}) = SumFunctionOnSet(f, S) + f[x]
    BY <1>1, <2>1, SumWith
  <2> QED
    BY <2>2 DEF x
<1> QED
  BY <1>1, <1>2, <1>3, <1>4, <1>5

LEMMA NextBucketKeeps ==
  ASSUME IInv, NextBucket
  PROVE  IInv'
<1> DEFINE carried == [r \in DOMAIN Hosts |-> tally.carried[r] + tally.primary[r]]
<1>1. /\ input' = input /\ owners' = owners /\ bucket' = bucket + 1 /\ bucket < Len(input.buckets)
      /\ waiting' = DOMAIN input.buckets[bucket + 1] /\ tally' = NewTally(Hosts, carried)
      /\ Hosts' = Hosts /\ (AllFree' <=> AllFree)
  BY DEF NextBucket, Hosts, AllFree
<1>2. /\ bucket \in Nat /\ bucket # 0 /\ bucket' \in DOMAIN input.buckets /\ bucket \in DOMAIN owners
      /\ 1 .. bucket \subseteq DOMAIN owners /\ 1 .. bucket' = 1 .. bucket \cup {bucket + 1}
      /\ Hosts \in Seq(Nat) /\ DOMAIN owners = DOMAIN input.buckets
  <2>1. /\ bucket \in DOMAIN input.buckets /\ DOMAIN owners = DOMAIN input.buckets
        /\ Len(input.buckets) \in Nat /\ DOMAIN input.buckets = 1 .. Len(input.buckets)
        /\ Hosts \in Seq(Nat)
    BY InputsTyped DEF IInv, Typed
  <2>2. bucket \in Nat /\ bucket # 0 /\ bucket + 1 \in 1 .. Len(input.buckets)
    BY <1>1, <2>1
  <2>3. 1 .. bucket \subseteq 1 .. Len(input.buckets) /\ 1 .. bucket + 1 = 1 .. bucket \cup {bucket + 1}
    BY <1>1, <2>1, <2>2
  <2> QED
    BY <1>1, <2>1, <2>2, <2>3
<1>3. carried \in [DOMAIN Hosts -> Nat]
  BY DEF IInv, Typed, IsTally
<1>4. IsTally(tally', Hosts) /\ tally'.carried = carried
  <2> HIDE DEF carried
  <2> QED BY <1>1, <1>2, <1>3, NewTallyIsEmpty
<1>5. Typed'
  BY <1>1, <1>2, <1>4 DEF IInv, Typed, Loads
<1>6. OwnedByNobody(bucket)'
  BY <1>1, <1>2 DEF IInv, Later, OwnedByNobody
<1>7. Fresh'
  BY <1>1, <1>3, <1>5, <1>6 DEF Fresh
<1>8. FreshParts'
  BY <1>7, FreshTally, PTL
<1>9. TypeOK'
  <2>1. waiting' = {i \in DOMAIN Loads' : owners'[bucket'][i] = NoOwner}
    BY <1>1, <1>2, <1>6 DEF Loads, OwnedByNobody, IInv, Typed
  <2>2. ASSUME NEW r \in DOMAIN Hosts
        PROVE  tally'.carried[r] = CarriedIn(owners, input.buckets, bucket, r)
    <3>1. /\ tally.primary[r] = LoadIn(owners[bucket], input.buckets[bucket], r)
          /\ tally.carried[r] = CarriedIn(owners, input.buckets, bucket - 1, r)
      BY TypeOKIs DEF IInv, Parts, Loads
    <3>2. ASSUME NEW b \in 1 .. bucket PROVE LoadIn(owners[b], input.buckets[b], r) \in Nat
      <4>1. b \in DOMAIN owners
        BY <1>2
      <4> QED
        BY <4>1, LoadOfTyped DEF IInv, LoadOf, OwnedBy, LoadIn, Has
    <3> DEFINE n == bucket - 1
    <3>3. n \in Nat /\ bucket = n + 1
      BY <1>2
    <3> HIDE DEF n
    <3>4. \A b \in 1 .. n + 1 : LoadIn(owners[b], input.buckets[b], r) \in Nat
      BY <3>2, <3>3
    <3>5. CarriedIn(owners, input.buckets, n + 1, r) =
            CarriedIn(owners, input.buckets, n, r) + LoadIn(owners[n + 1], input.buckets[n + 1], r)
      BY <3>3, <3>4, CarriedNext
    <3>6. tally'.carried[r] = tally.carried[r] + tally.primary[r]
      BY <1>4
    <3> QED
      BY <3>1, <3>3, <3>5, <3>6 DEF n
  <2>3. bucket' - 1 = bucket
    BY <1>1, <1>2
  <2>4. Parts'
    BY <1>1, <1>8, <2>1, <2>2, <2>3 DEF Parts, IInv, TypeOK, FreshParts
  <2> QED
    BY <2>4, TypeOKIs, PTL
<1>10. Later'
  BY <1>1, <1>2, InputsTyped DEF IInv, Typed, Later, OwnedByNobody
<1>11. BucketsShareLoad'
  <2> SUFFICES ASSUME AllFree, OneEach
               PROVE  /\ \A g, h \in HostsOf(Hosts) : (TotalOn(g) - TotalOn(h) <= LargestSoFar)'
                      /\ \A q, s \in DOMAIN Hosts : Hosts[q] = Hosts[s] => (Totals[q] - Totals[s] <= LargestSoFar)'
    BY <1>1 DEF BucketsShareLoad, OneEach
  <2>1. /\ \A g, h \in HostsOf(Hosts) : TotalOn(g) - TotalOn(h) <= LargestSoFar
        /\ \A q, s \in DOMAIN Hosts : Hosts[q] = Hosts[s] => Totals[q] - Totals[s] <= LargestSoFar
    BY DEF IInv, BucketsShareLoad, OneEach
  <2>2. Totals' = Totals /\ Totals \in [DOMAIN Hosts -> Nat]
    <3>1. \A r \in DOMAIN Hosts : tally'.primary[r] = 0 /\ tally'.carried[r] = carried[r] /\ carried[r] \in Nat
      BY <1>1, <1>3, <1>4, <1>8 DEF FreshParts
    <3>2. \A r \in DOMAIN Hosts : tally'.carried[r] + tally'.primary[r] = tally.carried[r] + tally.primary[r]
      BY <3>1
    <3> QED
      BY <1>1, <1>3, <3>2 DEF Totals
  <2>3. \A h \in HostsOf(Hosts) : TotalOn(h) \in Nat
    <3> SUFFICES ASSUME NEW h \in HostsOf(Hosts) PROVE TotalOn(h) \in Nat
      OBVIOUS
    <3>1. IsFiniteSet(Members(Hosts, h)) /\ \A q \in Members(Hosts, h) : Totals[q] \in Nat
      BY <1>2, <2>2, HostsFinite DEF Members
    <3> QED
      BY <3>1, SumTyped DEF TotalOn
  <2>4. LargestSoFar \in Nat /\ LargestSoFar' \in Nat /\ LargestSoFar <= LargestSoFar'
    <3>1. /\ Max(Largests(bucket)) \in Largests(bucket) /\ Max(Largests(bucket)) \in Nat
          /\ Max(Largests(bucket')) \in Nat
          /\ \A x \in Largests(bucket') : x <= Max(Largests(bucket'))
      BY <1>2, LargestIsGreatest DEF IInv, OneEach
    <3>2. Largests(bucket) \subseteq Largests(bucket')
      BY <1>2 DEF Largests
    <3>3. LargestSoFar = Max(Largests(bucket)) /\ LargestSoFar' = Max(Largests(bucket'))
      BY <1>1 DEF LargestSoFar, Largests
    <3> QED
      BY <3>1, <3>2, <3>3
  <2>5. \A h \in HostsOf(Hosts) : TotalOn(h)' = TotalOn(h)
    BY <1>1, <2>2 DEF TotalOn
  <2>6. ASSUME NEW g \in HostsOf(Hosts), NEW h \in HostsOf(Hosts)
        PROVE  (TotalOn(g) - TotalOn(h) <= LargestSoFar)'
    <3>1. TotalOn(g)' = TotalOn(g) /\ TotalOn(h)' = TotalOn(h)
      BY <2>5
    <3>2. TotalOn(g) \in Nat /\ TotalOn(h) \in Nat /\ TotalOn(g) - TotalOn(h) <= LargestSoFar
      BY <2>1, <2>3
    <3> QED
      BY <2>4, <3>1, <3>2
  <2> QED
    BY <2>1, <2>2, <2>4, <2>6
<1> QED
  BY <1>5, <1>8, <1>9, <1>10, <1>11 DEF IInv, FreshParts

----------------------------------------------------------------------------
(* The theorems. *)

LEMMA NextKeeps == IInv /\ [Next]_vars => IInv'
<1> SUFFICES ASSUME IInv, [Next]_vars PROVE IInv'
  OBVIOUS
<1>1. CASE UNCHANGED vars
  <2>1. input' = input /\ bucket' = bucket /\ waiting' = waiting /\ tally' = tally /\ owners' = owners
    BY <1>1 DEF vars
  <2>2. Typed' /\ Later' /\ HostTallies' /\ Unused' /\ EvenHostsFirst' /\ HostsAndRanksBalanced'
    BY <2>1 DEF IInv, Typed, Later, HostTallies, Unused, EvenHostsFirst, HostsAndRanksBalanced,
                AllFree, WithinOneLoad, Placed, OwnedBy, OwnedByNobody, Hosts, Loads
  <2>3. TypeOK'
    <3>1. Parts
      BY TypeOKIs DEF IInv
    <3>2. Parts'
      BY <2>1, <3>1 DEF Parts, Hosts, Loads
    <3> QED
      BY <3>2, TypeOKIs, PTL
  <2>4. BucketsShareLoad'
    <3>1. Totals' = Totals /\ LargestSoFar' = LargestSoFar /\ Hosts' = Hosts /\ (AllFree' <=> AllFree)
      BY <2>1 DEF Totals, LargestSoFar, Hosts, AllFree
    <3> QED
      BY <2>1, <3>1 DEF IInv, BucketsShareLoad, TotalOn
  <2> QED
    BY <2>2, <2>3, <2>4 DEF IInv
<1>2. CASE PlaceFixed
  BY <1>2, PlaceFixedKeeps
<1>3. CASE PlaceLargest
  BY <1>3, PlaceLargestKeeps
<1>4. CASE NextBucket
  BY <1>4, NextBucketKeeps
<1> QED
  BY <1>1, <1>2, <1>3, <1>4 DEF Next, Over

LEMMA IInvHolds == Spec => []IInv
BY InitIInv, NextKeeps, PTL DEF Spec

\* No load is lost, given twice or taken from its configured owner, and the
\* running tallies of a rank and of its host (OwnerBalancer.assign,
\* _assign_balanced_owner_ranks) are the sums of what the owners hold, over this
\* bucket and, carried, over the earlier ones.
THEOREM TalliesCorrect == Spec => []TypeOK
<1>1. IInv => TypeOK
  BY DEF IInv
<1> QED
  BY <1>1, IInvHolds, PTL

\* "Each load, largest first, goes to the host with the least primary load": at
\* every point of a balanced placement (_assign_balanced_owner_ranks,
\* OwnerBalancer.choose_rank) no host is ahead of another, and no rank of one of
\* its host's others, by more than one load placed already.
THEOREM PlacementsAreBalanced == Spec => []HostsAndRanksBalanced
<1>1. IInv => HostsAndRanksBalanced
  BY DEF IInv
<1> QED
  BY <1>1, IInvHolds, PTL

\* Every rank plans alone, and all plan the same: the keys of
\* OwnerBalancer.choose_rank and the sort of the loads leave exactly one load and
\* one rank, however the loads tie.
THEOREM OwnersAreDetermined == Spec => []Deterministic
<1>1. Typed => Deterministic
  <2> SUFFICES ASSUME Typed PROVE Deterministic
    OBVIOUS
  <2>1. Cardinality({r \in DOMAIN Hosts : Chosen(tally, Hosts, FALSE, r)}) = 1
    <3>1. AreHosts(Hosts) /\ IsTally(tally, Hosts) /\ OpenRanks(tally, Hosts, FALSE) # {}
      BY InputsTyped DEF Typed, OpenRanks
    <3>2. PICK r \in DOMAIN Hosts : {q \in DOMAIN Hosts : Chosen(tally, Hosts, FALSE, q)} = {r}
      <4> DEFINE t == tally
                 hosts == Hosts
                 one == FALSE
      <4>1. AreHosts(hosts) /\ IsTally(t, hosts) /\ OpenRanks(t, hosts, one) # {}
        BY <3>1
      <4> HIDE DEF t, hosts, one
      <4>2. \E r \in DOMAIN hosts : {q \in DOMAIN hosts : Chosen(t, hosts, one, q)} = {r}
        BY <4>1, OneIsChosen
      <4> QED
        BY <4>2 DEF t, hosts, one
    <3> QED
      BY <3>2, FS_Singleton
  <2>2. ASSUME waiting # {}
        PROVE  Cardinality({i \in waiting : \A j \in waiting : ~Precedes(LoadKey(j), LoadKey(i))}) = 1
    <3> DEFINE key == [i \in waiting |-> LoadKey(i)]
    <3>1. /\ IsFiniteSet(DOMAIN Loads) /\ waiting \subseteq DOMAIN Loads
          /\ \A i \in DOMAIN Loads : i \in Nat /\ Loads[i].primary \in Nat /\ Loads[i].secondary \in Nat
      BY InputsTyped DEF Typed, Loads
    <3>2. IsFiniteSet(waiting)
      BY <3>1, FS_Subset
    <3>3. \A i \in waiting : IsKey(key[i]) /\ key[i][3] = i
      BY <3>1 DEF IsKey, LoadKey
    <3>4. {i \in waiting : \A j \in waiting : ~Precedes(LoadKey(j), LoadKey(i))} = LeastOf(waiting, key)
      BY DEF LeastOf
    <3> HIDE DEF key
    <3>5. \E i \in waiting : LeastOf(waiting, key) = {i}
      BY <2>2, <3>2, <3>3, OneLeast
    <3> QED
      BY <3>4, <3>5, FS_Singleton
  <2> QED
    BY <2>1, <2>2 DEF Deterministic
<1>2. IInv => Typed
  BY DEF IInv
<1> QED
  BY <1>1, <1>2, IInvHolds, PTL

\* "Heavy and light hosts alternate in partition order" (even_first_permutation):
\* while there are as many even hosts as loads, no two neighbouring hosts hold
\* one in the first bucket.
THEOREM HeavyHostsApart == Spec => []HeavyHostsAlternate
<1>1. IInv => HeavyHostsAlternate
  <2> SUFFICES ASSUME IInv, AllFree, bucket = 1,
                      NEW q \in DOMAIN Hosts, NEW r \in DOMAIN Hosts,
                      OwnedBy(1, q) # {}, OwnedBy(1, r) # {},
                      2 * Cardinality(Placed) <= Cardinality(HostsOf(Hosts)) + 1
               PROVE  Hosts[q] # Hosts[r] + 1
    BY DEF HeavyHostsAlternate
  <2>1. Hosts[q] % 2 = 0 /\ Hosts[r] % 2 = 0
    BY DEF IInv, EvenHostsFirst
  <2>2. Hosts[q] \in Nat /\ Hosts[r] \in Nat
    BY InputsTyped DEF IInv
  <2> QED
    BY <2>1, <2>2
<1> QED
  BY <1>1, IInvHolds, PTL

\* "Carrying the loads from bucket to bucket" (carried_loads of
\* OwnerBalancer.for_call): small buckets, of one matrix each, never load a host,
\* or a rank of a host, by more than their largest matrix above another.
THEOREM BucketsBalanceTogether == Spec => []BucketsShareLoad
<1>1. IInv => BucketsShareLoad
  BY DEF IInv
<1> QED
  BY <1>1, IInvHolds, PTL
===============================================================================
