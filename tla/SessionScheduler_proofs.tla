----------------------- MODULE SessionScheduler_proofs -----------------------
(***************************************************************************)
(* Proofs about the launch budget of a session, for any number of requests,*)
(* providers and signals and any ceilings.                                 *)
(* Then what a launched Claude Code session is made of, ClaudeProcesses,   *)
(* StatusProbe and ClaudeTurn, as the instances Warm, Probe and Turn of    *)
(* MCWorkers.                                                              *)
(***************************************************************************)
EXTENDS SessionScheduler, MCWorkers, FiniteSetTheorems, SequenceTheorems, TLAPS

\* The ceiling of a provider is a positive number below the common one.
LEMMA Caps ==
  ASSUME NEW p \in Provider
  PROVE  bucketCap(p) \in Nat \ {0} /\ bucketCap(p) <= Ceiling
<1>1. sessionCap(p) \in Nat \ {0}
  BY SchedulerAssumption DEF sessionCap, Least
<1> QED
  BY <1>1, SchedulerAssumption DEF bucketCap, Least

\* Sets of requests are finite, and so are their parts.
LEMMA Requests ==
  ASSUME NEW S \in SUBSET Request
  PROVE  /\ IsFiniteSet(S) /\ Cardinality(S) \in Nat
         /\ \A T \in SUBSET S : Cardinality(T) \in Nat /\ Cardinality(T) <= Cardinality(S)
<1>1. IsFiniteSet(S)
  BY SchedulerAssumption, FS_Subset
<1>2. \A T \in SUBSET S : IsFiniteSet(T) /\ Cardinality(T) <= Cardinality(S)
  BY <1>1, FS_Subset
<1> QED
  BY <1>1, <1>2, FS_CardinalityType

\* Counting two groups of requests that have none in common.
LEMMA Together ==
  ASSUME NEW S \in SUBSET Request, NEW T \in SUBSET Request, S \cap T = {}
  PROVE  Cardinality(S \cup T) = Cardinality(S) + Cardinality(T)
<1>1. IsFiniteSet(S) /\ IsFiniteSet(T) /\ Cardinality(S) \in Nat /\ Cardinality(T) \in Nat
  BY Requests
<1>2. Cardinality(S \cup T) = Cardinality(S) + Cardinality(T) - Cardinality(S \cap T)
  BY <1>1, FS_Union
<1>3. Cardinality(S \cap T) = 0
  BY FS_EmptySet
<1> QED
  BY <1>1, <1>2, <1>3

\* A finite set of places has a last one.
LEMMA LastPlace ==
  ASSUME NEW I \in SUBSET Nat, IsFiniteSet(I), I # {}
  PROVE  \E m \in I : \A i \in I : i <= m
<1> SUFFICES ASSUME \A m \in I : \E i \in I : m < i PROVE FALSE
  OBVIOUS
<1> DEFINE n == Cardinality(I)
           below(m) == {i \in I : i < m}
           c == [m \in I |-> Cardinality(below(m))]
<1>1. n \in Nat
  BY FS_CardinalityType
<1>2. ASSUME NEW m \in I PROVE Cardinality(below(m)) \in 0 .. n - 2
  <2>1. PICK k \in I : m < k
    OBVIOUS
  <2>2. IsFiniteSet(I \ {m}) /\ Cardinality(I \ {m}) = n - 1
    BY FS_RemoveElement
  <2>3. IsFiniteSet((I \ {m}) \ {k}) /\ Cardinality((I \ {m}) \ {k}) = n - 2
    <3>1. k \in I \ {m}
      BY <2>1
    <3>2. Cardinality((I \ {m}) \ {k}) = Cardinality(I \ {m}) - 1 /\ IsFiniteSet((I \ {m}) \ {k})
      BY <2>2, <3>1, FS_RemoveElement
    <3> HIDE DEF n
    <3> QED
      BY <1>1, <2>2, <3>2
  <2>4. below(m) \in SUBSET ((I \ {m}) \ {k})
    BY <2>1
  <2>5. IsFiniteSet(below(m)) /\ Cardinality(below(m)) <= n - 2
    BY <2>3, <2>4, FS_Subset
  <2>6. Cardinality(below(m)) \in Nat
    BY <2>5, FS_CardinalityType
  <2> QED
    BY <1>1, <2>5, <2>6
<1>3. c \in [I -> 0 .. n - 2]
  <2> HIDE DEF n, below
  <2> QED
    BY <1>2
<1>4. IsFiniteSet(0 .. n - 2) /\ Cardinality(0 .. n - 2) < n
  <2>1. n # 0
    BY FS_EmptySet
  <2> HIDE DEF n
  <2>2. 0 \in Int /\ n - 2 \in Int
    BY <1>1
  <2>3. IsFiniteSet(0 .. n - 2) /\ Cardinality(0 .. n - 2) = IF 0 > n - 2 THEN 0 ELSE n - 2 - 0 + 1
    BY <2>2, FS_Interval
  <2> QED
    BY <1>1, <2>1, <2>3
<1>5. PICK x \in I, y \in I : x # y /\ c[x] = c[y]
  <2> HIDE DEF c
  <2> QED
    BY <1>3, <1>4, FS_PigeonHole
<1>6. ASSUME NEW u \in I, NEW v \in I, u < v, c[u] = c[v] PROVE FALSE
  <2>1. below(u) \in SUBSET below(v) /\ u \in below(v) /\ u \notin below(u)
    <3>1. ~(u < u) /\ \A i \in I : i < u => i < v
      <4>1. u \in Nat /\ v \in Nat /\ \A i \in I : i \in Nat
        OBVIOUS
      <4> QED
        BY <1>6, <4>1
    <3> QED
      BY <1>6, <3>1
  <2>2. IsFiniteSet(below(v))
    BY FS_Subset
  <2> QED
    BY <1>6, <2>1, <2>2, FS_Subset
<1> QED
  BY <1>5, <1>6

\* The last in line of some requests has all the others of them before it.
LEMMA LastInLine ==
  ASSUME NEW q, DOMAIN q \subseteq Nat, IsFiniteSet(DOMAIN q),
         NEW S \in SUBSET Entries(q), S # {}
  PROVE  \E i \in DOMAIN q :
           q[i] \in S /\ S \ {q[i]} \subseteq {q[j] : j \in {k \in DOMAIN q : k < i}}
<1> DEFINE I == {i \in DOMAIN q : q[i] \in S}
<1>1. I \in SUBSET Nat /\ IsFiniteSet(I) /\ I # {}
  BY FS_Subset DEF Entries
<1>2. PICK m \in I : \A i \in I : i <= m
  BY <1>1, LastPlace
<1>3. ASSUME NEW x \in S \ {q[m]} PROVE x \in {q[j] : j \in {k \in DOMAIN q : k < m}}
  <2>1. PICK i \in DOMAIN q : x = q[i]
    BY DEF Entries
  <2>2. i \in I /\ i # m /\ i <= m
    BY <1>2, <2>1
  <2> QED
    BY <1>1, <2>1, <2>2
<1> QED
  BY <1>2, <1>3
-----------------------------------------------------------------------------
\* What drain finds: a line of distinct requests, places in it no later than
\* the arrivals, counters that count the leases, and ceilings that are kept.
Waits(q, pcs) ==
  /\ q \in [DOMAIN q -> Request]
  /\ DOMAIN q \subseteq 1 .. Cardinality({r \in Request : pcs[r] # "idle"})
  /\ Entries(q) = {r \in Request : pcs[r] = "queued"}
  /\ \A i, j \in DOMAIN q : q[i] = q[j] => i = j

Held(pcs) == {r \in Request : pcs[r] \in {"granted", "running"}}

Counted(leases, byBucket, pcs) ==
  /\ leases = Cardinality(Held(pcs)) /\ leases <= Ceiling
  /\ byBucket \in [Provider -> Nat]
  /\ \A p \in Provider : /\ byBucket[p] = Cardinality(OfProvider(p, Held(pcs)))
                         /\ byBucket[p] <= bucketCap(p)

\* The places of a line are natural numbers, finitely many.
LEMMA Places ==
  ASSUME NEW q, NEW pcs, Waits(q, pcs)
  PROVE  DOMAIN q \subseteq Nat /\ IsFiniteSet(DOMAIN q) /\ Entries(q) \subseteq Request
<1> DEFINE n == Cardinality({r \in Request : pcs[r] # "idle"})
<1>1. n \in Nat
  BY Requests
<1>2. IsFiniteSet(1 .. n)
  BY <1>1, FS_Interval
<1>3. DOMAIN q \in SUBSET (1 .. n) /\ Entries(q) \subseteq Request
  BY DEF Waits
<1> HIDE DEF n
<1> QED
  BY <1>1, <1>2, <1>3, FS_Subset

\* A scan does not grant more than there is room for.
LEMMA ScanFits ==
  ASSUME NEW q, NEW pcs, Waits(q, pcs), NEW leases, NEW byBucket, Counted(leases, byBucket, pcs),
         NEW G \in SUBSET Entries(q), Scan(q, G, leases, byBucket)
  PROVE  /\ leases + Cardinality(G) <= Ceiling
         /\ \A p \in Provider : byBucket[p] + Cardinality(OfProvider(p, G)) <= bucketCap(p)
<1>1. DOMAIN q \subseteq Nat /\ IsFiniteSet(DOMAIN q) /\ Entries(q) \subseteq Request
  BY Places
<1>2. leases \in Nat /\ Ceiling \in Nat
  BY Requests, SchedulerAssumption DEF Counted, Held
<1>3. leases + Cardinality(G) <= Ceiling
  <2>1. CASE G = {}
    BY <1>2, <2>1, FS_EmptySet DEF Counted
  <2>2. CASE G # {}
    <3>1. PICK i \in DOMAIN q : /\ q[i] \in G
                                /\ G \ {q[i]} \subseteq {q[j] : j \in {k \in DOMAIN q : k < i}}
      BY <1>1, <2>2, LastInLine
    <3> DEFINE before == {q[j] : j \in {k \in DOMAIN q : k < i}} \cap G
    <3>2. leases + Cardinality(before) < Ceiling
      BY <3>1 DEF Scan, HasRoom
    <3>3. G \ {q[i]} \in SUBSET before /\ before \in SUBSET Request
      BY <1>1, <3>1
    <3> HIDE DEF before
    <3>4. Cardinality(G \ {q[i]}) <= Cardinality(before) /\ Cardinality(before) \in Nat
      BY <3>3, Requests
    <3>5. Cardinality(G \ {q[i]}) = Cardinality(G) - 1 /\ Cardinality(G) \in Nat
      BY <1>1, <3>1, Requests, FS_RemoveElement
    <3> QED
      BY <1>2, <3>2, <3>4, <3>5
  <2> QED
    BY <2>1, <2>2
<1>4. ASSUME NEW p \in Provider PROVE byBucket[p] + Cardinality(OfProvider(p, G)) <= bucketCap(p)
  <2> DEFINE S == OfProvider(p, G)
  <2>0. byBucket[p] \in Nat /\ byBucket[p] <= bucketCap(p) /\ bucketCap(p) \in Nat
    BY Caps DEF Counted
  <2>1. CASE S = {}
    BY <2>0, <2>1, FS_EmptySet
  <2>2. CASE S # {}
    <3>0. S \in SUBSET Entries(q) /\ S \in SUBSET Request
      BY <1>1 DEF OfProvider
    <3>1. PICK i \in DOMAIN q : /\ q[i] \in S
                                /\ S \ {q[i]} \subseteq {q[j] : j \in {k \in DOMAIN q : k < i}}
      BY <1>1, <2>2, <3>0, LastInLine
    <3> DEFINE before == {q[j] : j \in {k \in DOMAIN q : k < i}} \cap G
    <3>2. byBucket[p] + Cardinality(OfProvider(p, before)) < bucketCap(p)
      BY <3>1 DEF Scan, HasRoom, OfProvider
    <3>3. S \ {q[i]} \in SUBSET OfProvider(p, before) /\ OfProvider(p, before) \in SUBSET Request
      BY <1>1, <3>1 DEF OfProvider
    <3> HIDE DEF before, S
    <3>4. Cardinality(S \ {q[i]}) <= Cardinality(OfProvider(p, before))
          /\ Cardinality(OfProvider(p, before)) \in Nat
      BY <3>3, Requests
    <3>5. Cardinality(S \ {q[i]}) = Cardinality(S) - 1 /\ Cardinality(S) \in Nat
      BY <3>0, <3>1, Requests, FS_RemoveElement
    <3>6. byBucket[p] + Cardinality(S) <= bucketCap(p)
      BY <2>0, <3>2, <3>4, <3>5
    <3> QED
      BY <3>6 DEF S
  <2> QED
    BY <2>1, <2>2
<1> QED
  BY <1>3, <1>4

\* Who is left in the line by a scan finds no room when it is over either.
LEMMA ScanRests ==
  ASSUME NEW q, NEW pcs, Waits(q, pcs), NEW leases, NEW byBucket, Counted(leases, byBucket, pcs),
         NEW G \in SUBSET Entries(q), Scan(q, G, leases, byBucket),
         NEW i \in DOMAIN q, q[i] \notin G
  PROVE  \/ leases + Cardinality(G) >= Ceiling
         \/ byBucket[ProviderOf(q[i])] + Cardinality(OfProvider(ProviderOf(q[i]), G))
              >= bucketCap(ProviderOf(q[i]))
<1> DEFINE before == {q[j] : j \in {k \in DOMAIN q : k < i}} \cap G
           p == ProviderOf(q[i])
<1>0. p \in Provider
  BY SchedulerAssumption DEF Waits
<1>1. ~ (/\ leases + Cardinality(before) < Ceiling
         /\ byBucket[p] + Cardinality(OfProvider(p, before)) < bucketCap(p))
  BY DEF Scan, HasRoom
<1>2. G \in SUBSET Request /\ before \in SUBSET G
      /\ OfProvider(p, G) \in SUBSET Request /\ OfProvider(p, before) \in SUBSET OfProvider(p, G)
  BY Places DEF OfProvider
<1>3. leases \in Nat /\ Ceiling \in Nat /\ byBucket[p] \in Nat /\ bucketCap(p) \in Nat
  BY <1>0, Caps, Requests, SchedulerAssumption DEF Counted, Held
<1> HIDE DEF before, p
<1>4. /\ Cardinality(before) \in Nat /\ Cardinality(G) \in Nat
      /\ Cardinality(before) <= Cardinality(G)
  BY <1>2, Requests
<1>5. /\ Cardinality(OfProvider(p, before)) \in Nat /\ Cardinality(OfProvider(p, G)) \in Nat
      /\ Cardinality(OfProvider(p, before)) <= Cardinality(OfProvider(p, G))
  BY <1>2, Requests
<1>6. \/ leases + Cardinality(G) >= Ceiling
      \/ byBucket[p] + Cardinality(OfProvider(p, G)) >= bucketCap(p)
  BY <1>1, <1>3, <1>4, <1>5
<1> QED
  BY <1>6 DEF p
-----------------------------------------------------------------------------
\* A handler that ends in drain leaves the books in order: it is enough that
\* drain found them in order.
LEMMA DrainSafe ==
  ASSUME NEW q, NEW pcs \in [Request -> Labels], Waits(q, pcs),
         NEW leases, NEW byBucket, Counted(leases, byBucket, pcs),
         aborted' \subseteq Signal, \A i \in DOMAIN q : SignalOf(q[i]) \notin aborted',
         Drain(q, leases, byBucket, pcs)
  PROVE  Inductive'
<1>1. PICK G \in SUBSET Entries(q) :
        /\ Scan(q, G, leases, byBucket)
        /\ queue' = Without(q, G)
        /\ activeLeases' = leases + Cardinality(G)
        /\ activeByBucket' = [p \in Provider |-> byBucket[p] + Cardinality(OfProvider(p, G))]
        /\ pc' = [r \in Request |-> IF r \in G THEN "granted" ELSE pcs[r]]
  BY DEF Drain
<1>2. /\ DOMAIN queue' = {j \in DOMAIN q : q[j] \notin G}
      /\ \A j \in DOMAIN queue' : queue'[j] = q[j]
      /\ queue' \in [DOMAIN queue' -> Request]
  BY <1>1 DEF Without, Waits
<1>3. G \in SUBSET Request /\ \A r \in G : pcs[r] = "queued"
  BY <1>1 DEF Waits
<1>4. \A r \in Request : pc'[r] = IF r \in G THEN "granted" ELSE pcs[r]
  BY <1>1
<1>5. Holding' = Held(pcs) \cup G /\ Held(pcs) \cap G = {} /\ Held(pcs) \in SUBSET Request
  BY <1>3, <1>4 DEF Holding, Held
<1>6. activeLeases' = Cardinality(Holding')
  BY <1>1, <1>3, <1>5, Together DEF Counted
<1>7. ASSUME NEW p \in Provider
      PROVE  activeByBucket'[p] = Cardinality(OfProvider(p, Holding'))
  <2>1. /\ OfProvider(p, Holding') = OfProvider(p, Held(pcs)) \cup OfProvider(p, G)
        /\ OfProvider(p, Held(pcs)) \cap OfProvider(p, G) = {}
        /\ OfProvider(p, Held(pcs)) \in SUBSET Request /\ OfProvider(p, G) \in SUBSET Request
    BY <1>3, <1>5 DEF OfProvider
  <2>2. activeByBucket'[p] = Cardinality(OfProvider(p, Held(pcs))) + Cardinality(OfProvider(p, G))
    BY <1>1 DEF Counted
  <2> QED
    BY <2>1, <2>2, Together
<1>8. CountersExact'
  BY <1>6, <1>7 DEF CountersExact
<1>9. TypeOK'
  <2>1. pc' \in [Request -> Labels]
    BY <1>1 DEF Labels
  <2>2. activeLeases' \in Nat
    BY <1>3, <1>5, <1>6, Requests
  <2>3. activeByBucket' \in [Provider -> Nat]
    <3>1. \A p \in Provider : OfProvider(p, Holding') \in SUBSET Request
      BY <1>3, <1>5 DEF OfProvider
    <3>2. \A p \in Provider : activeByBucket'[p] \in Nat
      BY <1>7, <3>1, Requests
    <3> QED
      BY <1>1, <3>2
  <2> QED
    BY <1>2, <2>1, <2>2, <2>3, Places DEF TypeOK
<1>10. WithinCeilings'
  <2>1. activeLeases' <= Ceiling
    BY <1>1, ScanFits
  <2>2. \A p \in Provider : activeByBucket'[p] <= bucketCap(p)
    BY <1>1, ScanFits
  <2> QED
    BY <1>6, <1>7, <2>1, <2>2 DEF WithinCeilings
<1>11. QueueExact'
  <2>1. Entries(queue') = {r \in Request : pc'[r] = "queued"}
    BY <1>2, <1>3, <1>4 DEF Entries, Waits
  <2>2. \A i, j \in DOMAIN queue' : queue'[i] = queue'[j] => i = j
    BY <1>2 DEF Waits
  <2> QED
    BY <2>1, <2>2 DEF QueueExact
<1>12. NobodyWaitsInVain'
  <2> SUFFICES ASSUME NEW i \in DOMAIN queue'
               PROVE  /\ SignalOf(queue'[i]) \notin aborted'
                      /\ \/ activeLeases' >= Ceiling
                         \/ activeByBucket'[ProviderOf(queue'[i])] >= bucketCap(ProviderOf(queue'[i]))
    BY DEF NobodyWaitsInVain
  <2>1. i \in DOMAIN q /\ queue'[i] = q[i] /\ q[i] \notin G /\ ProviderOf(q[i]) \in Provider
    BY <1>2, SchedulerAssumption
  <2> QED
    BY <1>1, <2>1, ScanRests
<1>13. PlacesTaken'
  <2>1. {r \in Request : pc'[r] # "idle"} = {r \in Request : pcs[r] # "idle"}
    BY <1>3, <1>4
  <2> QED
    BY <1>2, <2>1 DEF PlacesTaken, Arrived, Waits
<1> QED
  BY <1>8, <1>9, <1>10, <1>11, <1>12, <1>13 DEF Inductive, IInv

\* Between handlers the books are as drain wants to find them.
LEMMA Books ==
  ASSUME Inductive
  PROVE  Waits(queue, pc) /\ Counted(activeLeases, activeByBucket, pc)
<1>1. Waits(queue, pc)
  BY DEF Inductive, IInv, TypeOK, QueueExact, PlacesTaken, Arrived, Waits
<1>2. Counted(activeLeases, activeByBucket, pc)
  BY DEF Inductive, IInv, TypeOK, CountersExact, WithinCeilings, Holding, Held, Counted
<1> QED
  BY <1>1, <1>2

\* A call that queues up.
LEMMA PushBooks ==
  ASSUME Inductive, NEW r \in Request, pc[r] = "idle"
  PROVE  /\ Waits(Push(queue, r), [pc EXCEPT ![r] = "queued"])
         /\ Counted(activeLeases, activeByBucket, [pc EXCEPT ![r] = "queued"])
<1> DEFINE q == Push(queue, r)
           pcs == [pc EXCEPT ![r] = "queued"]
           came(f) == {x \in Request : f[x] # "idle"}
<1>1. Waits(queue, pc) /\ Counted(activeLeases, activeByBucket, pc) /\ pc \in [Request -> Labels]
  BY Books DEF Inductive, TypeOK
<1>2. \A x \in Request : pcs[x] = IF x = r THEN "queued" ELSE pc[x]
  BY <1>1
<1>3. Held(pcs) = Held(pc)
  BY <1>2 DEF Held
<1>4. Arrived \in Nat /\ Cardinality(came(pcs)) = Arrived + 1
  <2>1. came(pc) \in SUBSET Request /\ r \notin came(pc) /\ came(pcs) = came(pc) \cup {r}
    BY <1>2
  <2>2. IsFiniteSet(came(pc)) /\ Cardinality(came(pc)) \in Nat
    BY <2>1, Requests
  <2>3. Arrived = Cardinality(came(pc))
    BY DEF Arrived
  <2> HIDE DEF came, pcs
  <2> QED
    BY <2>1, <2>2, <2>3, FS_AddElement
<1>5. /\ DOMAIN q = DOMAIN queue \cup {Arrived + 1}
      /\ q[Arrived + 1] = r
      /\ \A i \in DOMAIN queue : q[i] = queue[i]
      /\ Arrived + 1 \notin DOMAIN queue
      /\ DOMAIN queue \subseteq 1 .. Arrived
  <2>1. DOMAIN queue \subseteq 1 .. Arrived
    BY <1>1 DEF Waits, Arrived
  <2>2. Arrived + 1 \notin 1 .. Arrived
    BY <1>4
  <2> HIDE DEF came, pcs
  <2> QED
    BY <2>1, <2>2 DEF Push
<1>6. q \in [DOMAIN q -> Request]
  BY <1>1 DEF Push, Waits
<1> HIDE DEF q, pcs
<1>7. Waits(q, pcs)
  <2>1. DOMAIN q \subseteq 1 .. Cardinality(came(pcs))
    <3> HIDE DEF came
    <3> QED
      BY <1>4, <1>5
  <2>2. Entries(q) = {x \in Request : pcs[x] = "queued"}
    BY <1>1, <1>2, <1>5 DEF Entries, Waits
  <2>3. \A i, j \in DOMAIN q : q[i] = q[j] => i = j
    <3>1. \A i \in DOMAIN queue : queue[i] # r
      BY <1>1 DEF Waits, Entries
    <3> QED
      BY <1>1, <1>5, <3>1 DEF Waits
  <2> QED
    BY <1>6, <2>1, <2>2, <2>3 DEF Waits
<1>8. Counted(activeLeases, activeByBucket, pcs)
  BY <1>1, <1>3 DEF Counted
<1> QED
  BY <1>7, <1>8 DEF q, pcs

\* The abort of a signal, before its drain.
LEMMA AbortBooks ==
  ASSUME Inductive, NEW s \in Signal
  PROVE  LET q == Without(queue, {r \in Request : SignalOf(r) = s})
             pcs == [r \in Request |-> IF pc[r] = "queued" /\ SignalOf(r) = s THEN "rejected" ELSE pc[r]]
         IN /\ pcs \in [Request -> Labels]
            /\ Waits(q, pcs) /\ Counted(activeLeases, activeByBucket, pcs)
            /\ \A i \in DOMAIN q : i \in DOMAIN queue /\ q[i] = queue[i] /\ SignalOf(q[i]) # s
<1> DEFINE q == Without(queue, {r \in Request : SignalOf(r) = s})
           pcs == [r \in Request |-> IF pc[r] = "queued" /\ SignalOf(r) = s THEN "rejected" ELSE pc[r]]
           came(f) == {x \in Request : f[x] # "idle"}
<1>1. Waits(queue, pc) /\ Counted(activeLeases, activeByBucket, pc) /\ pc \in [Request -> Labels]
  BY Books DEF Inductive, TypeOK
<1>2. pcs \in [Request -> Labels]
  BY <1>1 DEF Labels
<1>3. \A r \in Request : pcs[r] = IF pc[r] = "queued" /\ SignalOf(r) = s THEN "rejected" ELSE pc[r]
  OBVIOUS
<1>4. /\ DOMAIN q = {i \in DOMAIN queue : SignalOf(queue[i]) # s}
      /\ \A i \in DOMAIN q : q[i] = queue[i]
      /\ q \in [DOMAIN q -> Request]
  BY <1>1 DEF Without, Waits
<1> HIDE DEF q, pcs
<1>5. Waits(q, pcs)
  <2>1. came(pcs) = came(pc)
    BY <1>3
  <2>2. DOMAIN q \subseteq 1 .. Cardinality(came(pcs))
    BY <1>1, <1>4, <2>1 DEF Waits
  <2>3. Entries(q) = {x \in Request : pcs[x] = "queued"}
    BY <1>1, <1>3, <1>4 DEF Entries, Waits
  <2>4. \A i, j \in DOMAIN q : q[i] = q[j] => i = j
    BY <1>1, <1>4 DEF Waits
  <2> QED
    BY <1>4, <2>2, <2>3, <2>4 DEF Waits
<1>6. Held(pcs) = Held(pc)
  BY <1>3 DEF Held
<1>7. Counted(activeLeases, activeByBucket, pcs)
  BY <1>1, <1>6 DEF Counted
<1> QED
  BY <1>2, <1>4, <1>5, <1>7 DEF q, pcs

\* The return of a lease, before its drain.
LEMMA ReleaseBooks ==
  ASSUME Inductive, NEW r \in Request, pc[r] \in {"granted", "running"},
         NEW label \in {"rejected", "done"}
  PROVE  LET pcs == [pc EXCEPT ![r] = label]
         IN /\ pcs \in [Request -> Labels] /\ Waits(queue, pcs)
            /\ Counted(activeLeases - 1,
                       [activeByBucket EXCEPT ![ProviderOf(r)] = IF @ <= 1 THEN 0 ELSE @ - 1], pcs)
<1> DEFINE pcs == [pc EXCEPT ![r] = label]
           b == [activeByBucket EXCEPT ![ProviderOf(r)] = IF @ <= 1 THEN 0 ELSE @ - 1]
           came(f) == {x \in Request : f[x] # "idle"}
<1>1. Waits(queue, pc) /\ Counted(activeLeases, activeByBucket, pc) /\ pc \in [Request -> Labels]
  BY Books DEF Inductive, TypeOK
<1>2. pcs \in [Request -> Labels]
  BY <1>1 DEF Labels
<1>3. \A x \in Request : pcs[x] = IF x = r THEN label ELSE pc[x]
  BY <1>1
<1>4. b \in [Provider -> Nat]
  <2>1. activeByBucket \in [Provider -> Nat] /\ \A n \in Nat : (IF n <= 1 THEN 0 ELSE n - 1) \in Nat
    BY <1>1 DEF Counted
  <2> QED
    BY <2>1
<1>5. \A p \in Provider : b[p] = IF p = ProviderOf(r)
                                 THEN IF activeByBucket[p] <= 1 THEN 0 ELSE activeByBucket[p] - 1
                                 ELSE activeByBucket[p]
  BY <1>1 DEF Counted
<1> HIDE DEF b, pcs
<1>6. Waits(queue, pcs)
  <2>1. came(pcs) = came(pc) /\ {x \in Request : pcs[x] = "queued"} = {x \in Request : pc[x] = "queued"}
    BY <1>3
  <2> QED
    BY <1>1, <2>1 DEF Waits
<1>7. Held(pcs) = Held(pc) \ {r} /\ r \in Held(pc) /\ Held(pc) \in SUBSET Request
  BY <1>3 DEF Held
<1>8. activeLeases - 1 = Cardinality(Held(pcs)) /\ activeLeases - 1 <= Ceiling
  <2>1. IsFiniteSet(Held(pc)) /\ Cardinality(Held(pc)) \in Nat /\ Ceiling \in Nat
    BY <1>7, Requests, SchedulerAssumption
  <2>2. Cardinality(Held(pc) \ {r}) = Cardinality(Held(pc)) - 1
    BY <1>7, <2>1, FS_RemoveElement
  <2> QED
    BY <1>1, <1>7, <2>1, <2>2 DEF Counted
<1>9. ASSUME NEW p \in Provider
      PROVE  b[p] = Cardinality(OfProvider(p, Held(pcs))) /\ b[p] <= bucketCap(p)
  <2> DEFINE S == OfProvider(p, Held(pc))
  <2>1. S \in SUBSET Request
    BY <1>7 DEF OfProvider
  <2>2. IsFiniteSet(S) /\ Cardinality(S) \in Nat /\ bucketCap(p) \in Nat
    BY <2>1, Caps, Requests
  <2>3. activeByBucket[p] = Cardinality(S) /\ activeByBucket[p] <= bucketCap(p)
    BY <1>1 DEF Counted
  <2>4. CASE p # ProviderOf(r)
    <3>1. OfProvider(p, Held(pcs)) = S
      BY <1>7, <2>4 DEF OfProvider
    <3> QED
      BY <1>5, <2>3, <2>4, <3>1
  <2>5. CASE p = ProviderOf(r)
    <3>1. OfProvider(p, Held(pcs)) = S \ {r} /\ r \in S
      BY <1>7, <2>5 DEF OfProvider
    <3> HIDE DEF S
    <3>2. Cardinality(S \ {r}) = Cardinality(S) - 1 /\ Cardinality(S) # 0
      BY <2>2, <3>1, FS_RemoveElement, FS_EmptySet
    <3> QED
      BY <1>5, <2>2, <2>3, <2>5, <3>1, <3>2
  <2> QED
    BY <2>4, <2>5
<1>10. Counted(activeLeases - 1, b, pcs)
  BY <1>4, <1>8, <1>9 DEF Counted
<1> QED
  BY <1>2, <1>6, <1>10 DEF b, pcs
-----------------------------------------------------------------------------
\* The books are in order at the start.
LEMMA InitSafe == Init => Inductive
<1> SUFFICES ASSUME Init PROVE Inductive
  OBVIOUS
<1>1. Holding = {} /\ \A p \in Provider : OfProvider(p, Holding) = {}
  BY DEF Init, Holding, OfProvider
<1>2. Cardinality(Holding) = 0 /\ \A p \in Provider : Cardinality(OfProvider(p, Holding)) = 0
  BY <1>1, FS_EmptySet
<1>3. DOMAIN queue = {}
  BY DEF Init
<1>4. TypeOK
  BY <1>3 DEF Init, TypeOK, Labels
<1>5. WithinCeilings
  BY <1>2, Caps, SchedulerAssumption DEF WithinCeilings
<1>6. CountersExact
  BY <1>2 DEF Init, CountersExact
<1>7. QueueExact /\ NobodyWaitsInVain /\ PlacesTaken
  BY <1>3 DEF Init, QueueExact, Entries, NobodyWaitsInVain, PlacesTaken
<1> QED
  BY <1>4, <1>5, <1>6, <1>7 DEF Inductive, IInv

\* A step that moves one request between labels that neither wait nor hold.
LEMMA Moved ==
  ASSUME Inductive, NEW r \in Request, NEW label \in Labels, pc' = [pc EXCEPT ![r] = label],
         UNCHANGED <<queue, activeLeases, activeByBucket, aborted>>,
         \/ pc[r] = "idle" /\ label = "rejected"
         \/ pc[r] = "granted" /\ label = "running"
  PROVE  Inductive'
<1>1. pc \in [Request -> Labels] /\ \A x \in Request : pc'[x] = IF x = r THEN label ELSE pc[x]
  BY DEF Inductive, TypeOK
<1>2. Holding' = Holding
  BY <1>1 DEF Holding
<1>3. TypeOK'
  BY <1>1 DEF Inductive, TypeOK
<1>4. WithinCeilings' /\ CountersExact'
  BY <1>2 DEF Inductive, IInv, WithinCeilings, CountersExact
<1>5. QueueExact' /\ NobodyWaitsInVain'
  BY <1>1 DEF Inductive, IInv, QueueExact, NobodyWaitsInVain
<1>6. PlacesTaken'
  <2> DEFINE came == {x \in Request : pc[x] # "idle"}
  <2>1. came \in SUBSET came' /\ came' \in SUBSET Request
    BY <1>1
  <2>2. Cardinality(came) \in Nat /\ Cardinality(came') \in Nat /\ Cardinality(came) <= Cardinality(came')
    BY <2>1, Requests
  <2>3. DOMAIN queue' \subseteq 1 .. Cardinality(came)
    BY DEF Inductive, IInv, PlacesTaken, Arrived
  <2>4. Arrived' = Cardinality(came')
    BY DEF Arrived
  <2> HIDE DEF came
  <2> QED
    BY <2>2, <2>3, <2>4 DEF PlacesTaken
<1> QED
  BY <1>3, <1>4, <1>5, <1>6 DEF Inductive, IInv

\* run leaves the books in order.
LEMMA RunSafe == ASSUME Inductive, NEW r \in Request, Run(r) PROVE Inductive'
<1>1. aborted' = aborted /\ aborted \subseteq Signal /\ pc[r] = "idle" /\ pc \in [Request -> Labels]
  BY DEF Run, Inductive, TypeOK
<1>2. CASE /\ pc' = [pc EXCEPT ![r] = "rejected"]
           /\ UNCHANGED <<queue, activeLeases, activeByBucket>>
  BY <1>1, <1>2, Moved DEF Labels
<1>3. CASE /\ SignalOf(r) \notin aborted
           /\ Drain(Push(queue, r), activeLeases, activeByBucket, [pc EXCEPT ![r] = "queued"])
  <2> DEFINE q == Push(queue, r)
             pcs == [pc EXCEPT ![r] = "queued"]
  <2>1. Waits(q, pcs) /\ Counted(activeLeases, activeByBucket, pcs)
    BY <1>1, PushBooks
  <2>2. pcs \in [Request -> Labels]
    BY <1>1 DEF Labels
  <2>3. \A i \in DOMAIN q : SignalOf(q[i]) \notin aborted'
    BY <1>1, <1>3 DEF Push, Inductive, IInv, NobodyWaitsInVain
  <2>4. Drain(q, activeLeases, activeByBucket, pcs)
    BY <1>3
  <2> HIDE DEF q, pcs
  <2> QED
    BY <1>1, <2>1, <2>2, <2>3, <2>4, DrainSafe
<1> QED
  BY <1>2, <1>3 DEF Run

\* An abort event leaves the books in order.
LEMMA AbortSafe == ASSUME Inductive, NEW s \in Signal, Abort(s) PROVE Inductive'
<1> DEFINE q == Without(queue, {r \in Request : SignalOf(r) = s})
           pcs == [r \in Request |-> IF pc[r] = "queued" /\ SignalOf(r) = s THEN "rejected" ELSE pc[r]]
<1>1. /\ pcs \in [Request -> Labels]
      /\ Waits(q, pcs) /\ Counted(activeLeases, activeByBucket, pcs)
      /\ \A i \in DOMAIN q : i \in DOMAIN queue /\ q[i] = queue[i] /\ SignalOf(q[i]) # s
  BY AbortBooks
<1>2. Drain(q, activeLeases, activeByBucket, pcs) /\ aborted' = aborted \cup {s}
  BY DEF Abort
<1> HIDE DEF q, pcs
<1>3. aborted' \subseteq Signal /\ \A i \in DOMAIN q : SignalOf(q[i]) \notin aborted'
  BY <1>1, <1>2 DEF Inductive, TypeOK, IInv, NobodyWaitsInVain
<1> QED
  BY <1>1, <1>2, <1>3, DrainSafe

\* The return of a lease leaves the books in order.
LEMMA ReleaseSafe ==
  ASSUME Inductive, NEW r \in Request, pc[r] \in {"granted", "running"},
         NEW label \in {"rejected", "done"}, Release(r, label), UNCHANGED aborted
  PROVE  Inductive'
<1> DEFINE pcs == [pc EXCEPT ![r] = label]
           b == [activeByBucket EXCEPT ![ProviderOf(r)] = IF @ <= 1 THEN 0 ELSE @ - 1]
<1>1. /\ pcs \in [Request -> Labels] /\ Waits(queue, pcs)
      /\ Counted(activeLeases - 1, b, pcs)
  BY ReleaseBooks
<1>2. Drain(queue, activeLeases - 1, b, pcs)
  BY DEF Release
<1> HIDE DEF pcs, b
<1>3. aborted' \subseteq Signal /\ \A i \in DOMAIN queue : SignalOf(queue[i]) \notin aborted'
  BY DEF Inductive, TypeOK, IInv, NobodyWaitsInVain
<1> QED
  BY <1>1, <1>2, <1>3, DrainSafe

\* The continuation of a granted request leaves the books in order.
LEMMA ResumeSafe == ASSUME Inductive, NEW r \in Request, Resume(r) PROVE Inductive'
<1>1. pc[r] = "granted" /\ UNCHANGED aborted
  BY DEF Resume
<1>2. CASE Release(r, "rejected")
  BY <1>1, <1>2, ReleaseSafe
<1>3. CASE pc' = [pc EXCEPT ![r] = "running"] /\ UNCHANGED <<queue, activeLeases, activeByBucket>>
  BY <1>1, <1>3, Moved DEF Labels
<1> QED
  BY <1>2, <1>3 DEF Resume

\* The end of a launch leaves the books in order.
LEMMA SettleSafe == ASSUME Inductive, NEW r \in Request, Settle(r) PROVE Inductive'
  BY ReleaseSafe DEF Settle

\* Steps that change nothing keep the invariant.
LEMMA StutterSafe == Inductive /\ UNCHANGED vars => Inductive'
  BY DEF Inductive, IInv, TypeOK, WithinCeilings, CountersExact, QueueExact, NobodyWaitsInVain,
         PlacesTaken, Arrived, Holding, Entries, OfProvider, vars

\* Every handler keeps the books in order.
LEMMA StepSafe == Inductive /\ [Next]_vars => Inductive'
<1> SUFFICES ASSUME Inductive, [Next]_vars PROVE Inductive'
  OBVIOUS
<1>1. ASSUME NEW r \in Request, Run(r) PROVE Inductive'
  BY <1>1, RunSafe
<1>2. ASSUME NEW r \in Request, Resume(r) PROVE Inductive'
  BY <1>2, ResumeSafe
<1>3. ASSUME NEW r \in Request, Settle(r) PROVE Inductive'
  BY <1>3, SettleSafe
<1>4. ASSUME NEW s \in Signal, Abort(s) PROVE Inductive'
  BY <1>4, AbortSafe
<1>5. CASE UNCHANGED vars
  BY <1>5, StutterSafe
<1> QED
  BY <1>1, <1>2, <1>3, <1>4, <1>5 DEF Next

\* The inductive invariant holds in every reachable state.
THEOREM SafetyInvariant == Spec => []Inductive
<1> QED
  BY InitSafe, StepSafe, PTL DEF Spec

\* Accounted: whatever the interleaving of calls, aborts between grant and
\* launch, and releases, the counters count the leases that are out, the line
\* holds the waiting requests, the ceilings are kept, and nobody waits beside a
\* free slot (scheduler.ts, drain and the release function of a lease).
THEOREM BooksAreExact == Spec => []Accounted
<1>1. Inductive => Accounted
  BY DEF Inductive, IInv, Accounted
<1> QED
  BY <1>1, SafetyInvariant, PTL
-----------------------------------------------------------------------------
\* A scan passes nobody over for a later request of the same provider.
LEMMA ScanInOrder ==
  ASSUME NEW q, NEW pcs, Waits(q, pcs), NEW leases, NEW byBucket, Counted(leases, byBucket, pcs),
         NEW G \in SUBSET Entries(q), Scan(q, G, leases, byBucket),
         NEW i \in DOMAIN q, NEW j \in DOMAIN q, i < j,
         ProviderOf(q[i]) = ProviderOf(q[j]), q[j] \in G
  PROVE  q[i] \in G
<1> DEFINE before(k) == {q[n] : n \in {m \in DOMAIN q : m < k}} \cap G
           p == ProviderOf(q[i])
<1>0. DOMAIN q \subseteq Nat /\ Entries(q) \subseteq Request
  BY Places
<1>1. /\ leases + Cardinality(before(j)) < Ceiling
      /\ byBucket[p] + Cardinality(OfProvider(p, before(j))) < bucketCap(p)
  BY DEF Scan, HasRoom
<1>2. before(i) \in SUBSET before(j) /\ before(j) \in SUBSET Request
  <2>1. \A n \in DOMAIN q : n < i => n < j
    BY <1>0
  <2> QED
    BY <1>0, <2>1
<1>3. /\ OfProvider(p, before(i)) \in SUBSET OfProvider(p, before(j))
      /\ OfProvider(p, before(j)) \in SUBSET Request
  BY <1>2 DEF OfProvider
<1>4. p \in Provider
  BY SchedulerAssumption DEF Waits
<1>5. leases \in Nat /\ Ceiling \in Nat /\ byBucket[p] \in Nat /\ bucketCap(p) \in Nat
  BY <1>4, Caps, Requests, SchedulerAssumption DEF Counted, Held
<1>6. HasRoom(q, i, G, leases, byBucket) <=>
        /\ leases + Cardinality(before(i)) < Ceiling
        /\ byBucket[p] + Cardinality(OfProvider(p, before(i))) < bucketCap(p)
  BY DEF HasRoom
<1> HIDE DEF before, p
<1>7. HasRoom(q, i, G, leases, byBucket)
  <2>1. /\ Cardinality(before(i)) \in Nat /\ Cardinality(before(j)) \in Nat
        /\ Cardinality(before(i)) <= Cardinality(before(j))
    BY <1>2, Requests
  <2>2. /\ Cardinality(OfProvider(p, before(i))) \in Nat /\ Cardinality(OfProvider(p, before(j))) \in Nat
        /\ Cardinality(OfProvider(p, before(i))) <= Cardinality(OfProvider(p, before(j)))
    BY <1>3, Requests
  <2> QED
    BY <1>1, <1>5, <1>6, <2>1, <2>2
<1> QED
  BY <1>7 DEF Scan

\* Neither does a drain.
LEMMA DrainInOrder ==
  ASSUME NEW q, NEW pcs, Waits(q, pcs), NEW leases, NEW byBucket, Counted(leases, byBucket, pcs),
         Drain(q, leases, byBucket, pcs),
         NEW i \in DOMAIN q, NEW j \in DOMAIN q, i < j,
         ProviderOf(q[i]) = ProviderOf(q[j]), pc'[q[j]] = "granted"
  PROVE  pc'[q[i]] = "granted"
<1>1. PICK G \in SUBSET Entries(q) :
        /\ Scan(q, G, leases, byBucket)
        /\ pc' = [r \in Request |-> IF r \in G THEN "granted" ELSE pcs[r]]
  BY DEF Drain
<1>2. q[i] \in Request /\ q[j] \in Request /\ pcs[q[j]] = "queued"
  BY DEF Waits, Entries
<1>3. q[j] \in G
  BY <1>1, <1>2
<1>4. q[i] \in G
  BY <1>1, <1>3, ScanInOrder
<1> QED
  BY <1>1, <1>2, <1>4

\* FifoPerProvider: no handler grants a request while an earlier one of its
\* provider stays in the line (scheduler.ts, the scan of drain).
THEOREM ServedInOrder == Spec => FifoPerProvider
<1> DEFINE InOrder == \A i, j \in DOMAIN queue :
             i < j /\ ProviderOf(queue[i]) = ProviderOf(queue[j]) /\ pc'[queue[j]] = "granted"
               => pc'[queue[i]] # "queued"
<1>1. Inductive /\ [Next]_vars => InOrder
  <2> SUFFICES ASSUME Inductive, [Next]_vars, NEW i \in DOMAIN queue, NEW j \in DOMAIN queue, i < j,
                      ProviderOf(queue[i]) = ProviderOf(queue[j]), pc'[queue[j]] = "granted"
               PROVE  pc'[queue[i]] # "queued"
    OBVIOUS
  <2>0. /\ queue[i] \in Request /\ queue[j] \in Request
        /\ pc[queue[i]] = "queued" /\ pc[queue[j]] = "queued" /\ pc \in [Request -> Labels]
    BY DEF Inductive, IInv, TypeOK, QueueExact, Entries
  <2>1. ASSUME NEW r \in Request, Run(r) PROVE pc'[queue[i]] # "queued"
    <3>1. pc[r] = "idle"
      BY <2>1 DEF Run
    <3>2. CASE pc' = [pc EXCEPT ![r] = "rejected"]
      BY <2>0, <3>1, <3>2
    <3>3. CASE Drain(Push(queue, r), activeLeases, activeByBucket, [pc EXCEPT ![r] = "queued"])
      <4> DEFINE q == Push(queue, r)
                 pcs == [pc EXCEPT ![r] = "queued"]
      <4>1. Waits(q, pcs) /\ Counted(activeLeases, activeByBucket, pcs)
        BY <3>1, PushBooks
      <4>2. i \in DOMAIN q /\ j \in DOMAIN q /\ q[i] = queue[i] /\ q[j] = queue[j]
        <5>1. Arrived + 1 \notin DOMAIN queue
          <6>1. Arrived \in Nat
            BY Requests DEF Arrived
          <6> QED
            BY <6>1 DEF Inductive, IInv, PlacesTaken
        <5> QED
          BY <5>1 DEF Push
      <4>3. Drain(q, activeLeases, activeByBucket, pcs)
        BY <3>3
      <4> HIDE DEF q, pcs
      <4>4. pc'[q[i]] = "granted"
        BY <4>1, <4>2, <4>3, DrainInOrder
      <4> QED
        BY <4>2, <4>4
    <3> QED
      BY <2>1, <3>2, <3>3 DEF Run
  <2>2. ASSUME NEW s \in Signal, Abort(s) PROVE pc'[queue[i]] # "queued"
    <3> DEFINE q == Without(queue, {r \in Request : SignalOf(r) = s})
               pcs == [r \in Request |-> IF pc[r] = "queued" /\ SignalOf(r) = s THEN "rejected" ELSE pc[r]]
    <3>1. /\ Waits(q, pcs) /\ Counted(activeLeases, activeByBucket, pcs)
          /\ Drain(q, activeLeases, activeByBucket, pcs)
      BY <2>2, AbortBooks DEF Abort
    <3>2. /\ \A k \in DOMAIN queue : SignalOf(queue[k]) # s => k \in DOMAIN q /\ q[k] = queue[k]
          /\ \A r \in Request : pc[r] = "queued" /\ SignalOf(r) = s => pcs[r] = "rejected"
      BY <2>0 DEF Without, Inductive, TypeOK
    <3> HIDE DEF q, pcs
    <3>3. \A r \in Request : pc'[r] = pcs[r] \/ pc'[r] = "granted"
      BY <3>1 DEF Drain
    <3>4. CASE SignalOf(queue[i]) = s
      BY <2>0, <3>2, <3>3, <3>4
    <3>5. CASE SignalOf(queue[i]) # s /\ SignalOf(queue[j]) = s
      <4>1. PICK G \in SUBSET Entries(q) : pc' = [r \in Request |-> IF r \in G THEN "granted" ELSE pcs[r]]
        BY <3>1 DEF Drain
      <4>2. pcs[queue[j]] = "rejected"
        BY <2>0, <3>2, <3>5
      <4>3. queue[j] \in G
        BY <2>0, <4>1, <4>2
      <4> QED
        BY <3>1, <4>2, <4>3 DEF Waits
    <3>6. CASE SignalOf(queue[i]) # s /\ SignalOf(queue[j]) # s
      <4>1. i \in DOMAIN q /\ j \in DOMAIN q /\ q[i] = queue[i] /\ q[j] = queue[j]
        BY <3>2, <3>6
      <4>2. pc'[q[i]] = "granted"
        BY <3>1, <4>1, DrainInOrder
      <4> QED
        BY <4>1, <4>2
    <3> QED
      BY <3>4, <3>5, <3>6
  <2>3. ASSUME NEW r \in Request, NEW label \in {"rejected", "done"},
               pc[r] \in {"granted", "running"}, Release(r, label)
        PROVE  pc'[queue[i]] # "queued"
    <3> DEFINE pcs == [pc EXCEPT ![r] = label]
               b == [activeByBucket EXCEPT ![ProviderOf(r)] = IF @ <= 1 THEN 0 ELSE @ - 1]
    <3>1. Waits(queue, pcs) /\ Counted(activeLeases - 1, b, pcs)
      BY <2>3, ReleaseBooks
    <3>2. Drain(queue, activeLeases - 1, b, pcs)
      BY <2>3 DEF Release
    <3> HIDE DEF pcs, b
    <3>3. pc'[queue[i]] = "granted"
      BY <3>1, <3>2, DrainInOrder
    <3> QED
      BY <3>3
  <2>4. ASSUME NEW r \in Request, Resume(r) PROVE pc'[queue[i]] # "queued"
    <3>1. CASE Release(r, "rejected")
      BY <2>3, <2>4, <3>1 DEF Resume
    <3>2. CASE pc' = [pc EXCEPT ![r] = "running"]
      BY <2>0, <2>4, <3>2 DEF Resume
    <3> QED
      BY <2>4, <3>1, <3>2 DEF Resume
  <2>5. ASSUME NEW r \in Request, Settle(r) PROVE pc'[queue[i]] # "queued"
    BY <2>3, <2>5 DEF Settle
  <2>6. CASE UNCHANGED vars
    BY <2>0, <2>6 DEF vars
  <2> QED
    BY <2>1, <2>2, <2>4, <2>5, <2>6 DEF Next
<1> QED
  BY <1>1, SafetyInvariant, PTL DEF Spec, FifoPerProvider
-----------------------------------------------------------------------------
(* ClaudeProcesses. The warm processes of the Claude Code provider: a      *)
(* process serves one request, continues the conversation that it holds,   *)
(* and none is forgotten, for any requests and sessions and any room in the*)
(* cache.                                                                  *)

\* ClaudeProcesses counts with the same operator.
LEMMA WarmSize == \A S : Warm!Cardinality(S) = Cardinality(S)
BY DEF Warm!Cardinality, Cardinality

-----------------------------------------------------------------------------
(* The warm processes.                                                     *)

\* There are finitely many sessions, and they are numbers.
LEMMA WarmFewSessions == IsFiniteSet(Warm!Sessions) /\ Warm!Sessions \in SUBSET (Nat \ {0}) /\ Warm!Requests \in SUBSET (Nat \ {0})
<1>1. Warm!Requests = 1 .. Len(Session) /\ Len(Session) \in Nat /\ \A r \in Warm!Requests : Session[r] \in Nat
  BY WarmAssumption DEF Warm!Requests
<1>2. IsFiniteSet(Warm!Requests)
  BY <1>1, FS_Interval
<1>3. IsFiniteSet({Session[r] : r \in Warm!Requests})
  <2> DEFINE T == {Session[r] : r \in Warm!Requests}
             g == [r \in Warm!Requests |-> Session[r]]
  <2>1. g \in Surjection(Warm!Requests, T)
    BY DEF Surjection
  <2> QED
    BY <1>2, <2>1, FS_Surjection
<1> QED
  BY <1>1, <1>3, FS_Subset DEF Warm!Sessions

\* The place of a session in the cache.
LEMMA WarmPlaceOf == \A r \in Warm!Requests : Session[r] \in Nat /\ (Session[r] # 0 => Session[r] \in Warm!Sessions)
BY WarmAssumption DEF Warm!Requests, Warm!Sessions

\* The chain of the lock: who joins it or leaves it does not move its head.
LEMMA WarmJoined ==
  ASSUME wQueue \in Seq(Warm!Jobs), NEW j \in Warm!Jobs, wQueue' = Append(wQueue, j)
  PROVE  wQueue' \in Seq(Warm!Jobs) /\ (wQueue # <<>> => wQueue' # <<>> /\ wQueue'[1] = wQueue[1])
BY DEF Warm!Jobs

LEMMA WarmPopped ==
  ASSUME wQueue \in Seq(Warm!Jobs), wQueue # <<>>
  PROVE  Tail(wQueue) \in Seq(Warm!Jobs)
BY DEF Warm!Jobs

LEMMA WarmRemoved ==
  ASSUME wQueue \in Seq(Warm!Jobs), NEW i \in DOMAIN wQueue, wQueue' = Warm!RemoveAt(wQueue, i)
  PROVE  wQueue' \in Seq(Warm!Jobs) /\ (i # 1 => wQueue' # <<>> /\ wQueue'[1] = wQueue[1])
<1>1. i \in 1 .. Len(wQueue) /\ Len(wQueue) \in Nat
  OBVIOUS
<1>2. /\ SubSeq(wQueue, 1, i - 1) \in Seq(Warm!Jobs) /\ Len(SubSeq(wQueue, 1, i - 1)) = i - 1
      /\ \A k \in 1 .. i - 1 : SubSeq(wQueue, 1, i - 1)[k] = wQueue[k]
  BY <1>1
<1>3. SubSeq(wQueue, i + 1, Len(wQueue)) \in Seq(Warm!Jobs)
  BY <1>1
<1>4. wQueue' = SubSeq(wQueue, 1, i - 1) \o SubSeq(wQueue, i + 1, Len(wQueue))
  BY DEF Warm!RemoveAt
<1> QED
  BY <1>1, <1>2, <1>3, <1>4, SMTT(25)

\* With the lock in somebody else's hands a request does not work on the cache.
LEMMA WarmOneHolds ==
  ASSUME Warm!IInv, NEW j, Warm!Holds(j), NEW x \in Warm!Requests, j # <<"acquire", x>>
  PROVE  ~Warm!Working(x)
BY DEF Warm!IInv, Warm!Locked, Warm!Holds

\* The lock is kept by whoever goes on.
LEMMA WarmLockKept ==
  ASSUME Warm!IInv,
         \A x \in Warm!Requests : Warm!Working(x)' =>
           /\ Warm!Working(x) /\ wKept'[x] = wKept[x] /\ (wReq'[x] # "dropping" => wReq[x] # "dropping")
           /\ wQueue' # <<>> /\ wQueue'[1] = wQueue[1],
         \A s \in Warm!Sessions : wCache'[s] \in {0, wCache[s]}
  PROVE  Warm!Locked'
<1>1. SUFFICES ASSUME NEW x \in Warm!Requests, Warm!Working(x)'
               PROVE  /\ wQueue' # <<>> /\ wQueue'[1] = <<"acquire", x>>
                      /\ wKept'[x] /\ wReq'[x] # "dropping" => Session[x] # 0 /\ wCache'[Session[x]] = 0
  BY DEF Warm!Locked, Warm!Holds
<1>2. /\ Warm!Holds(<<"acquire", x>>)
      /\ wKept[x] /\ wReq[x] # "dropping" => Session[x] # 0 /\ wCache[Session[x]] = 0
  BY <1>1 DEF Warm!IInv, Warm!Locked
<1> QED
  BY <1>1, <1>2, WarmPlaceOf DEF Warm!Holds

Alive == {"open", "dead", "killed"}
Early == {"idle", "waiting", "replacing", "evicting", "creating"}
Pending == {"queued", "stranded"}

\* All steps but those with which a worker changes hands: the workers of G are torn
\* down, those in use may move their conversation, and a turn may end if its worker
\* is discarded.
LEMMA WarmEffect ==
  ASSUME Warm!IInv, Warm!Typed', wUser' \in [Warm!Requests -> {0} \cup Warm!Requests], Warm!Locked',
         NEW G \in SUBSET Warm!Requests,
         wCache' \in [Warm!Sessions -> {0} \cup Warm!Requests],
         \A s \in Warm!Sessions : wCache'[s] = IF wCache[s] \in G THEN 0 ELSE wCache[s],
         UNCHANGED wBusy,
         \A w \in Warm!Requests : wBusy[w] \/ (wHeld'[w] = wHeld[w] /\ wTip'[w] = wTip[w]),
         wProc' \in [Warm!Requests -> {"none", "open", "dead", "killed", "closing", "gone"}],
         \A w \in Warm!Requests :
           /\ wProc'[w] = "none" <=> wProc[w] = "none"
           /\ wProc'[w] \in Alive <=> w \notin G /\ wProc[w] \in Alive
           /\ wProc'[w] \in {"open", "dead"} => wProc[w] \in {"open", "dead"},
         \A x \in Warm!Requests :
           /\ wReq'[x] = "running" => wReq[x] = "running" /\ wUser'[x] = wUser[x]
           /\ wReq[x] = "running" /\ wReq'[x] # "running" => wUser[x] \in G \/ wDrop'[wUser[x]] \in Pending
           /\ wReq'[x] \in Early => wReq[x] \in Early,
         \A w \in Warm!Requests : wDrop[w] \in Pending => w \in G \/ wDrop'[w] \in Pending
  PROVE  Warm!IInv'
<1>1. Warm!TypeOK'
  BY DEF Warm!TypeOK
<1>2. Warm!Fresh'
  <2>1. \A w \in Warm!Requests : wProc'[w] = "none" => ~wBusy'[w]
    BY DEF Warm!IInv, Warm!Fresh
  <2>2. \A w \in Warm!Requests : wReq'[w] \in Early => wProc'[w] = "none"
    BY DEF Warm!IInv, Warm!Fresh, Early
  <2>3. ASSUME NEW r \in Warm!Requests, wReq'[r] = "running" PROVE wUser'[r] # 0 /\ wProc'[wUser'[r]] # "none"
    <3>1. wUser'[r] = wUser[r] /\ wUser[r] # 0 /\ wProc[wUser[r]] # "none" /\ wUser[r] \in Warm!Requests
      BY <2>3 DEF Warm!IInv, Warm!Fresh, Warm!ProcessesSound, Warm!TypeOK
    <3> QED
      BY <3>1
  <2> QED
    BY <2>1, <2>2, <2>3 DEF Warm!Fresh, Early
<1>3. Warm!OneUser'
  BY DEF Warm!IInv, Warm!ProcessesSound, Warm!OneUser
<1>4. \A s \in Warm!Sessions : wCache'[s] # 0 => wCache'[s] = wCache[s] /\ wCache[s] \in Warm!Requests \ G
  BY DEF Warm!IInv, Warm!ProcessesSound, Warm!TypeOK
<1>5. Warm!TipIsHeld'
  <2>1. SUFFICES ASSUME NEW s \in Warm!Sessions, wCache'[s] # 0, NEW w \in Warm!Requests, w = wCache'[s],
                        ~wBusy[w], wProc'[w] \in {"open", "dead"}, wTip'[w] # 0
                 PROVE  wHeld'[w] = wTip'[w]
    BY <1>4 DEF Warm!TipIsHeld, Warm!Cached
  <2>2. s \in Warm!Cached /\ wCache[s] = w
    BY <1>4, <2>1 DEF Warm!Cached
  <2>3. wProc[w] \in {"open", "dead"} /\ wHeld'[w] = wHeld[w] /\ wTip'[w] = wTip[w]
    BY <2>1
  <2> QED
    BY <2>1, <2>2, <2>3 DEF Warm!IInv, Warm!ProcessesSound, Warm!TipIsHeld
<1>6. Warm!CacheBounded'
  <2>1. Warm!Cached' \in SUBSET Warm!Cached /\ IsFiniteSet(Warm!Cached)
    BY <1>4, WarmFewSessions, FS_Subset DEF Warm!Cached
  <2>2. Cardinality(Warm!Cached') <= Cardinality(Warm!Cached) /\ IsFiniteSet(Warm!Cached')
    BY <2>1, FS_Subset
  <2>3. Cardinality(Warm!Cached') \in Nat /\ Cardinality(Warm!Cached) \in Nat
    BY <2>1, <2>2, FS_CardinalityType
  <2>4. Cardinality(Warm!Cached') <= MaxCached
    BY WarmSize, <2>2, <2>3, WarmAssumption DEF Warm!IInv, Warm!ProcessesSound, Warm!CacheBounded
  <2>5. ASSUME NEW s \in Warm!Cached' PROVE Session[wCache'[s]] = s /\ wProc'[wCache'[s]] \in Alive
    <3>1. wCache'[s] = wCache[s] /\ wCache[s] \in Warm!Requests \ G /\ s \in Warm!Cached
      BY <1>4, <2>5 DEF Warm!Cached
    <3> QED
      BY <3>1 DEF Warm!IInv, Warm!ProcessesSound, Warm!CacheBounded, Alive
  <2> QED
    BY WarmSize, <2>4, <2>5 DEF Warm!CacheBounded, Alive
<1>7. Warm!NothingForgotten'
  <2>1. SUFFICES ASSUME NEW w \in Warm!Requests, wProc'[w] \in Alive
                 PROVE  \/ \E r \in Warm!Requests : wReq'[r] = "running" /\ wUser'[r] = w
                        \/ wDrop'[w] \in Pending
                        \/ (\E s \in Warm!Sessions : wCache'[s] = w) /\ ~wBusy'[w]
    BY DEF Warm!NothingForgotten, Alive, Pending, Warm!InCache
  <2>2. w \notin G /\ wProc[w] \in Alive
    BY <2>1
  <2>3. \/ \E r \in Warm!Requests : wReq[r] = "running" /\ wUser[r] = w
        \/ wDrop[w] \in Pending
        \/ Warm!InCache(w) /\ ~wBusy[w]
    BY <2>2 DEF Warm!IInv, Warm!ProcessesSound, Warm!NothingForgotten, Alive, Pending
  <2>4. CASE \E r \in Warm!Requests : wReq[r] = "running" /\ wUser[r] = w
    BY <2>2, <2>4
  <2>5. CASE wDrop[w] \in Pending
    BY <2>2, <2>5
  <2>6. CASE Warm!InCache(w) /\ ~wBusy[w]
    BY <2>2, <2>6 DEF Warm!InCache
  <2> QED
    BY <2>3, <2>4, <2>5, <2>6
<1> QED
  BY <1>1, <1>2, <1>3, <1>5, <1>6, <1>7 DEF Warm!IInv, Warm!ProcessesSound

\* The steps that leave the processes and the cache alone.
LEMMA WarmQuiet ==
  ASSUME Warm!IInv, Warm!Typed', wUser' \in [Warm!Requests -> {0} \cup Warm!Requests], Warm!Locked',
         UNCHANGED <<wProc, wBusy, wTip, wHeld, wCache>>,
         \A x \in Warm!Requests :
           /\ wReq'[x] = "running" <=> wReq[x] = "running"
           /\ wReq[x] = "running" => wUser'[x] = wUser[x]
           /\ wReq'[x] \in Early => wReq[x] \in Early,
         \A w \in Warm!Requests : wDrop[w] \in Pending => wDrop'[w] \in Pending
  PROVE  Warm!IInv'
<1>1. wCache' \in [Warm!Sessions -> {0} \cup Warm!Requests]
  BY DEF Warm!IInv, Warm!ProcessesSound, Warm!TypeOK
<1>2. wProc' \in [Warm!Requests -> {"none", "open", "dead", "killed", "closing", "gone"}]
  BY DEF Warm!IInv, Warm!ProcessesSound, Warm!TypeOK
<1> DEFINE G == {}
<1>3. G \in SUBSET Warm!Requests /\ \A s \in Warm!Sessions : wCache'[s] = IF wCache[s] \in G THEN 0 ELSE wCache[s]
  OBVIOUS
<1>4. \A w \in Warm!Requests :
        /\ wProc'[w] = "none" <=> wProc[w] = "none"
        /\ wProc'[w] \in Alive <=> w \notin G /\ wProc[w] \in Alive
        /\ wProc'[w] \in {"open", "dead"} => wProc[w] \in {"open", "dead"}
  OBVIOUS
<1>5. \A x \in Warm!Requests :
        /\ wReq'[x] = "running" => wReq[x] = "running" /\ wUser'[x] = wUser[x]
        /\ wReq[x] = "running" /\ wReq'[x] # "running" => wUser[x] \in G \/ wDrop'[wUser[x]] \in Pending
        /\ wReq'[x] \in Early => wReq[x] \in Early
  OBVIOUS
<1>6. /\ \A w \in Warm!Requests : wDrop[w] \in Pending => w \in G \/ wDrop'[w] \in Pending
      /\ \A w \in Warm!Requests : wBusy[w] \/ (wHeld'[w] = wHeld[w] /\ wTip'[w] = wTip[w])
  OBVIOUS
<1> HIDE DEF G
<1> QED
  BY <1>1, <1>2, <1>3, <1>4, <1>5, <1>6, WarmEffect

\* A request is made: it queues for the lock.
LEMMA WarmCallSafe == ASSUME Warm!IInv, NEW r \in Warm!Requests, Warm!Call(r) PROVE Warm!IInv'
<1>1. /\ wReq[r] = "idle" /\ wReq' = [wReq EXCEPT ![r] = "waiting"] /\ wQueue' = Append(wQueue, <<"acquire", r>>)
      /\ UNCHANGED <<wStop, wUser, wKept, Warm!workers, wDrop, wCache, wTroubles>>
  BY DEF Warm!Call
<1>2. \A x \in Warm!Requests : wReq'[x] = IF x = r THEN "waiting" ELSE wReq[x]
  BY <1>1 DEF Warm!IInv, Warm!Typed
<1>3. wQueue' \in Seq(Warm!Jobs) /\ (wQueue # <<>> => wQueue' # <<>> /\ wQueue'[1] = wQueue[1])
  BY <1>1, WarmJoined, WarmFewSessions DEF Warm!IInv, Warm!Typed, Warm!Jobs
<1>4. Warm!Typed'
  BY <1>1, <1>3 DEF Warm!IInv, Warm!Typed, Warm!workers
<1>5. Warm!Locked'
  <2>1. \A x \in Warm!Requests : Warm!Working(x)' =>
           /\ Warm!Working(x) /\ wKept'[x] = wKept[x] /\ (wReq'[x] # "dropping" => wReq[x] # "dropping")
           /\ wQueue' # <<>> /\ wQueue'[1] = wQueue[1]
    BY <1>1, <1>2, <1>3 DEF Warm!IInv, Warm!Locked, Warm!Working, Warm!Holds
  <2> QED
    BY <1>1, <2>1, WarmLockKept DEF Warm!workers
<1> QED
  BY <1>1, <1>2, <1>4, <1>5, WarmQuiet DEF Warm!workers, Warm!IInv, Warm!ProcessesSound, Warm!TypeOK,
     Early

\* A deadline, a process that ages, a session that is closed: nothing of the cache
\* moves yet.
LEMMA WarmNoticeSafe ==
  ASSUME Warm!IInv, \/ \E r \in Warm!Requests : Warm!Deadline(r) \/ Warm!Ages(r) \/ Warm!TimerFires(r)
                    \/ \E s \in {0} \cup Warm!Sessions : Warm!CloseCall(s)
  PROVE  Warm!IInv'
<1>1. /\ UNCHANGED <<wReq, wUser, wKept, wProc, wBusy, wTip, wHeld, wDrop, wCache>>
      /\ wArmed' \in [Warm!Requests -> BOOLEAN]
      /\ wQueue' = wQueue \/ \E j \in Warm!Jobs : wQueue' = Append(wQueue, j)
  <2>1. CASE \E r \in Warm!Requests : Warm!Deadline(r) \/ Warm!Ages(r)
    BY <2>1 DEF Warm!Deadline, Warm!Ages, Warm!workers, Warm!IInv, Warm!Typed
  <2>2. CASE \E r \in Warm!Requests : Warm!TimerFires(r)
    BY <2>2, WarmFewSessions DEF Warm!TimerFires, Warm!IInv, Warm!Typed, Warm!Jobs
  <2>3. CASE \E s \in {0} \cup Warm!Sessions : Warm!CloseCall(s)
    <3>1. PICK s \in {0} \cup Warm!Sessions : Warm!CloseCall(s)
      BY <2>3
    <3>2. <<"close", s>> \in Warm!Jobs
      BY WarmFewSessions DEF Warm!Jobs
    <3> QED
      BY <3>1, <3>2 DEF Warm!CloseCall, Warm!workers, Warm!IInv, Warm!Typed
  <2> QED
    BY <2>1, <2>2, <2>3
<1>2. wQueue' \in Seq(Warm!Jobs) /\ (wQueue # <<>> => wQueue' # <<>> /\ wQueue'[1] = wQueue[1])
  BY <1>1, WarmJoined DEF Warm!IInv, Warm!Typed
<1>3. Warm!Typed'
  BY <1>1, <1>2 DEF Warm!IInv, Warm!Typed
<1>4. Warm!Locked'
  <2>1. \A x \in Warm!Requests : Warm!Working(x)' =>
           /\ Warm!Working(x) /\ wKept'[x] = wKept[x] /\ (wReq'[x] # "dropping" => wReq[x] # "dropping")
           /\ wQueue' # <<>> /\ wQueue'[1] = wQueue[1]
    BY <1>1, <1>2 DEF Warm!IInv, Warm!Locked, Warm!Working, Warm!Holds
  <2> QED
    BY <1>1, <2>1, WarmLockKept
<1> QED
  BY <1>1, <1>3, <1>4, WarmQuiet DEF Warm!IInv, Warm!ProcessesSound, Warm!TypeOK

\* A request leaves the chain before its turn.
LEMMA WarmLeaveSafe == ASSUME Warm!IInv, NEW r \in Warm!Requests, Warm!Leave(r) PROVE Warm!IInv'
<1>1. /\ wReq[r] = "waiting" /\ UNCHANGED <<wStop, wBase, wUser, wKept, Warm!workers, wDrop, wCache, wTroubles>>
      /\ \E s \in {"aborted", "failed"} : wReq' = [wReq EXCEPT ![r] = s]
      /\ \E i \in DOMAIN wQueue : wQueue[i] = <<"acquire", r>> /\ wQueue' = Warm!RemoveAt(wQueue, i)
  BY DEF Warm!Leave, Warm!Refusal
<1>2. PICK s \in {"aborted", "failed"} : wReq' = [wReq EXCEPT ![r] = s]
  BY <1>1
<1>3. \A x \in Warm!Requests : wReq'[x] = IF x = r THEN s ELSE wReq[x]
  BY <1>2 DEF Warm!IInv, Warm!Typed
<1>4. PICK i \in DOMAIN wQueue : wQueue[i] = <<"acquire", r>> /\ wQueue' = Warm!RemoveAt(wQueue, i)
  BY <1>1
<1>5. wQueue' \in Seq(Warm!Jobs) /\ (i # 1 => wQueue' # <<>> /\ wQueue'[1] = wQueue[1])
  BY <1>4, WarmRemoved DEF Warm!IInv, Warm!Typed
<1>6. Warm!Typed'
  BY <1>1, <1>2, <1>5 DEF Warm!IInv, Warm!Typed, Warm!workers
<1>7. Warm!Locked'
  <2>1. ASSUME NEW x \in Warm!Requests, Warm!Working(x)'
        PROVE  /\ Warm!Working(x) /\ wKept'[x] = wKept[x] /\ (wReq'[x] # "dropping" => wReq[x] # "dropping")
               /\ wQueue' # <<>> /\ wQueue'[1] = wQueue[1]
    <3>1. x # r /\ Warm!Working(x) /\ wReq'[x] = wReq[x]
      BY <1>3, <2>1 DEF Warm!Working
    <3>2. wQueue # <<>> /\ wQueue[1] = <<"acquire", x>>
      BY <3>1 DEF Warm!IInv, Warm!Locked, Warm!Holds
    <3>3. i # 1
      BY <1>4, <3>1, <3>2
    <3> QED
      BY <1>1, <1>5, <3>1, <3>3
  <2> QED
    BY <1>1, <2>1, WarmLockKept DEF Warm!workers
<1> QED
  BY <1>1, <1>3, <1>6, <1>7, WarmQuiet DEF Warm!workers, Warm!IInv, Warm!ProcessesSound, Warm!TypeOK,
     Early

\* A request with the lock goes on to look for room and for a process.
LEMMA WarmRoomSafe ==
  ASSUME Warm!IInv, NEW r \in Warm!Requests, Warm!Miss(r) \/ Warm!Create(r) \/ Warm!Replaced(r)
  PROVE  Warm!IInv'
<1>1. /\ UNCHANGED <<wStop, wBase, Warm!workers, wDrop, wCache, wQueue, wTroubles>>
      /\ \/ wReq[r] = "waiting" /\ wReq' = [wReq EXCEPT ![r] = "evicting"] /\ Warm!Holds(<<"acquire", r>>)
            /\ wKept' = [wKept EXCEPT ![r] = Session[r] # 0 /\ Warm!CacheOf(r) = 0] /\ wUser' = wUser
         \/ wReq[r] = "evicting" /\ wReq' = [wReq EXCEPT ![r] = "creating"] /\ UNCHANGED <<wUser, wKept>>
         \/ /\ wReq[r] = "replacing" /\ wReq' = [wReq EXCEPT ![r] = "evicting"]
            /\ wUser' = [wUser EXCEPT ![r] = 0] /\ wKept' = wKept
  BY DEF Warm!Miss, Warm!Create, Warm!Replaced
<1>2. \A x \in Warm!Requests : wReq'[x] = IF x = r THEN IF wReq[r] = "evicting" THEN "creating" ELSE "evicting" ELSE wReq[x]
  BY <1>1 DEF Warm!IInv, Warm!Typed
<1>3. /\ wKept' \in [Warm!Requests -> BOOLEAN]
      /\ \A x \in Warm!Requests : wKept'[x] = IF x = r /\ wReq[r] = "waiting" THEN Session[r] # 0 /\ Warm!CacheOf(r) = 0 ELSE wKept[x]
  BY <1>1 DEF Warm!IInv, Warm!Typed
<1>4. Warm!Typed'
  BY <1>1, <1>3 DEF Warm!IInv, Warm!Typed, Warm!workers
<1>5. Warm!Holds(<<"acquire", r>>)
  BY <1>1 DEF Warm!IInv, Warm!Locked, Warm!Working
<1>6. Warm!Locked'
  <2>1. ASSUME NEW x \in Warm!Requests, Warm!Working(x)'
        PROVE  /\ Warm!Holds(<<"acquire", x>>)'
               /\ wKept'[x] /\ wReq'[x] # "dropping" => Session[x] # 0 /\ wCache'[Session[x]] = 0
    <3>1. CASE x # r
      BY <1>1, <1>2, <1>3, <2>1, <3>1 DEF Warm!IInv, Warm!Locked, Warm!Working, Warm!Holds
    <3>2. CASE x = r /\ wReq[r] = "waiting"
      BY <1>1, <1>3, <1>5, <3>2 DEF Warm!Holds, Warm!CacheOf
    <3>3. CASE x = r /\ wReq[r] # "waiting"
      <4>1. Warm!Working(r) /\ wReq[r] # "dropping" /\ wKept'[r] = wKept[r]
        BY <1>1, <1>3, <3>3 DEF Warm!Working
      <4> QED
        BY <1>1, <3>3, <4>1 DEF Warm!IInv, Warm!Locked, Warm!Holds
    <3> QED
      BY <3>1, <3>2, <3>3
  <2> QED
    BY <2>1 DEF Warm!Locked
<1>7. \A x \in Warm!Requests : wReq[x] = "running" => wUser'[x] = wUser[x]
  BY <1>1 DEF Warm!IInv, Warm!Typed, Warm!ProcessesSound, Warm!TypeOK
<1>11. wUser' \in [Warm!Requests -> {0} \cup Warm!Requests]
  BY <1>1 DEF Warm!IInv, Warm!ProcessesSound, Warm!TypeOK
<1>8. \A x \in Warm!Requests : /\ wReq'[x] = "running" <=> wReq[x] = "running"
                               /\ wReq'[x] \in Early => wReq[x] \in Early
  BY <1>1, <1>2 DEF Early
<1>9. wProc' = wProc /\ wBusy' = wBusy /\ wTip' = wTip /\ wHeld' = wHeld /\ wCache' = wCache
  BY <1>1 DEF Warm!workers
<1>12. \A w \in Warm!Requests : wDrop[w] \in Pending => wDrop'[w] \in Pending
  BY <1>1
<1>10. \A x \in Warm!Requests : /\ wReq'[x] = "running" <=> wReq[x] = "running"
                                /\ wReq[x] = "running" => wUser'[x] = wUser[x]
                                /\ wReq'[x] \in Early => wReq[x] \in Early
  BY <1>7, <1>8
<1> QED
  BY <1>4, <1>6, <1>9, <1>10, <1>11, <1>12, WarmQuiet

\* A request gives up with the lock in hand, or has its process torn down: the lock
\* passes on.
LEMMA WarmPassOnSafe ==
  ASSUME Warm!IInv, NEW r \in Warm!Requests, Warm!CreateFails(r) \/ Warm!Dropped(r)
  PROVE  Warm!IInv'
<1>1. /\ Warm!Working(r) /\ UNCHANGED <<wStop, wBase, wUser, wKept, Warm!workers, wDrop, wCache, wTroubles>>
      /\ \E s \in {"aborted", "failed"} : wReq' = [wReq EXCEPT ![r] = s]
      /\ wQueue' = Tail(wQueue)
  BY DEF Warm!CreateFails, Warm!Dropped, Warm!Refusal, Warm!Working
<1>2. PICK s \in {"aborted", "failed"} : wReq' = [wReq EXCEPT ![r] = s]
  BY <1>1
<1>3. \A x \in Warm!Requests : wReq'[x] = IF x = r THEN s ELSE wReq[x]
  BY <1>2 DEF Warm!IInv, Warm!Typed
<1>4. Warm!Holds(<<"acquire", r>>)
  BY <1>1 DEF Warm!IInv, Warm!Locked
<1>5. wQueue' \in Seq(Warm!Jobs)
  BY <1>1, <1>4, WarmPopped DEF Warm!IInv, Warm!Typed, Warm!Holds
<1>6. Warm!Typed'
  BY <1>1, <1>2, <1>5 DEF Warm!IInv, Warm!Typed, Warm!workers
<1>7. \A x \in Warm!Requests : ~Warm!Working(x)'
  <2>1. ASSUME NEW x \in Warm!Requests, x # r PROVE ~Warm!Working(x)
    BY <1>4, <2>1, WarmOneHolds
  <2> QED
    BY <1>3, <2>1 DEF Warm!Working
<1>8. Warm!Locked'
  BY <1>7 DEF Warm!Locked
<1>9. \A x \in Warm!Requests : /\ wReq'[x] = "running" <=> wReq[x] = "running"
                               /\ wReq[x] = "running" => wUser'[x] = wUser[x]
                               /\ wReq'[x] \in Early => wReq[x] \in Early
  BY <1>1, <1>3 DEF Early, Warm!Working
<1>10. wProc' = wProc /\ wBusy' = wBusy /\ wTip' = wTip /\ wHeld' = wHeld /\ wCache' = wCache
  BY <1>1 DEF Warm!workers
<1>12. \A w \in Warm!Requests : wDrop[w] \in Pending => wDrop'[w] \in Pending
  BY <1>1
<1>11. wUser' \in [Warm!Requests -> {0} \cup Warm!Requests]
  BY <1>1 DEF Warm!IInv, Warm!ProcessesSound, Warm!TypeOK
<1> QED
  BY <1>6, <1>8, <1>9, <1>10, <1>11, <1>12, WarmQuiet

\* The request whose worker was discarded settles.
LEMMA WarmReleasedSafe == ASSUME Warm!IInv, NEW r \in Warm!Requests, Warm!Released(r) PROVE Warm!IInv'
<1>1. /\ wReq[r] = "releasing" /\ UNCHANGED <<wStop, wBase, wUser, wKept, Warm!workers, wDrop, wCache, wQueue, wTroubles>>
      /\ \E s \in {"done", "failed"} : wReq' = [wReq EXCEPT ![r] = s]
  BY DEF Warm!Released
<1>2. PICK s \in {"done", "failed"} : wReq' = [wReq EXCEPT ![r] = s]
  BY <1>1
<1>3. \A x \in Warm!Requests : wReq'[x] = IF x = r THEN s ELSE wReq[x]
  BY <1>2 DEF Warm!IInv, Warm!Typed
<1>4. Warm!Typed'
  BY <1>1, <1>2 DEF Warm!IInv, Warm!Typed, Warm!workers
<1>5. Warm!Locked'
  <2>1. \A x \in Warm!Requests : Warm!Working(x)' =>
           /\ Warm!Working(x) /\ wKept'[x] = wKept[x] /\ (wReq'[x] # "dropping" => wReq[x] # "dropping")
           /\ wQueue' # <<>> /\ wQueue'[1] = wQueue[1]
    BY <1>1, <1>3 DEF Warm!IInv, Warm!Locked, Warm!Working, Warm!Holds
  <2> QED
    BY <1>1, <2>1, WarmLockKept DEF Warm!workers
<1>6. \A x \in Warm!Requests : /\ wReq'[x] = "running" <=> wReq[x] = "running"
                               /\ wReq'[x] \in Early => wReq[x] \in Early
  BY <1>1, <1>3 DEF Early
<1> QED
  BY <1>1, <1>4, <1>5, <1>6, WarmQuiet DEF Warm!workers, Warm!IInv, Warm!ProcessesSound, Warm!TypeOK

\* The wait for the lock of a discard gives up: the worker is stranded.
LEMMA WarmStrandedSafe == ASSUME Warm!IInv, NEW w \in Warm!Requests, Warm!Stranded(w) PROVE Warm!IInv'
<1>1. /\ wDrop[w] = "queued" /\ ~Warm!Holds(<<"discard", w>>) /\ wDrop' = [wDrop EXCEPT ![w] = "stranded"]
      /\ UNCHANGED <<wReq, wStop, wBase, wUser, wKept, Warm!workers, wCache>>
  BY DEF Warm!Stranded
<1>2. PICK i \in DOMAIN wQueue : wQueue[i] = <<"discard", w>> /\ wQueue' = Warm!RemoveAt(wQueue, i)
  BY DEF Warm!Stranded
<1>3. wQueue' \in Seq(Warm!Jobs) /\ wQueue' # <<>> /\ wQueue'[1] = wQueue[1]
  <2>1. wQueue # <<>>
    BY <1>2
  <2>2. i # 1
    BY <1>1, <1>2, <2>1 DEF Warm!Holds
  <2> QED
    BY <1>2, <2>2, WarmRemoved DEF Warm!IInv, Warm!Typed
<1>4. Warm!Typed'
  BY <1>1, <1>3 DEF Warm!IInv, Warm!Typed, Warm!workers
<1>5. Warm!Locked'
  <2>1. \A x \in Warm!Requests : Warm!Working(x)' =>
           /\ Warm!Working(x) /\ wKept'[x] = wKept[x] /\ (wReq'[x] # "dropping" => wReq[x] # "dropping")
           /\ wQueue' # <<>> /\ wQueue'[1] = wQueue[1]
    BY <1>1, <1>3 DEF Warm!Working
  <2> QED
    BY <1>1, <2>1, WarmLockKept DEF Warm!workers
<1>6. \A x \in Warm!Requests : wDrop[x] \in Pending => wDrop'[x] \in Pending
  BY <1>1 DEF Pending, Warm!IInv, Warm!Typed
<1> QED
  BY <1>1, <1>4, <1>5, <1>6, WarmQuiet DEF Warm!workers, Warm!IInv, Warm!ProcessesSound, Warm!TypeOK

\* A process dies, or is gone at last, or is killed under the turn that it runs.
LEMMA WarmHurtSafe ==
  ASSUME Warm!IInv, NEW r \in Warm!Requests, Warm!Dies(r) \/ Warm!Torn(r) \/ Warm!Abort(r)
  PROVE  Warm!IInv'
<1>1. /\ UNCHANGED <<wReq, wUser, wKept, wBusy, wTip, wHeld, wDrop, wCache, wQueue>>
      /\ \E w \in Warm!Requests, p \in {"dead", "killed", "gone"} :
            /\ wArmed' \in {wArmed, [wArmed EXCEPT ![w] = FALSE]}
            /\ \/ wProc' = wProc
               \/ /\ wProc' = [wProc EXCEPT ![w] = p] /\ (p \in Alive <=> wProc[w] \in Alive)
                  /\ p = "dead" => wProc[w] = "open"
                  /\ wProc[w] # "none"
  <2>1. CASE Warm!Dies(r)
    BY <2>1 DEF Warm!Dies, Alive
  <2>2. CASE Warm!Torn(r)
    BY <2>2 DEF Warm!Torn, Alive
  <2>3. CASE Warm!Abort(r) /\ wReq[r] # "running"
    BY <2>3 DEF Warm!Abort
  <2>4. CASE Warm!Abort(r) /\ wReq[r] = "running"
    <3>1. PICK w \in Warm!Requests : w = wUser[r]
      BY <2>4 DEF Warm!IInv, Warm!Fresh, Warm!ProcessesSound, Warm!TypeOK
    <3>2. /\ wProc' = [wProc EXCEPT ![w] = IF wProc[w] \in {"open", "dead"} THEN "killed" ELSE wProc[w]]
          /\ wArmed' = [wArmed EXCEPT ![w] = FALSE]
          /\ UNCHANGED <<wReq, wUser, wKept, wBusy, wTip, wHeld, wDrop, wCache, wQueue>>
      BY <2>4, <3>1 DEF Warm!Abort, Warm!Kill
    <3>3. CASE wProc[w] \in {"open", "dead"}
      BY <3>2, <3>3 DEF Alive
    <3>4. CASE wProc[w] \notin {"open", "dead"}
      <4>1. wProc' = wProc
        BY <3>2, <3>4 DEF Warm!IInv, Warm!ProcessesSound, Warm!TypeOK
      <4> QED
        BY <3>2, <4>1
    <3> QED
      BY <3>3, <3>4
  <2> QED
    BY <2>1, <2>2, <2>3, <2>4
<1>2. PICK w \in Warm!Requests, p \in {"dead", "killed", "gone"} :
         /\ wArmed' \in {wArmed, [wArmed EXCEPT ![w] = FALSE]}
         /\ \/ wProc' = wProc
            \/ /\ wProc' = [wProc EXCEPT ![w] = p] /\ (p \in Alive <=> wProc[w] \in Alive)
               /\ p = "dead" => wProc[w] = "open"
               /\ wProc[w] # "none"
  BY <1>1
<1>3. Warm!Typed'
  BY <1>1, <1>2 DEF Warm!IInv, Warm!Typed
<1>4. Warm!Locked'
  <2>1. \A x \in Warm!Requests : Warm!Working(x)' =>
           /\ Warm!Working(x) /\ wKept'[x] = wKept[x] /\ (wReq'[x] # "dropping" => wReq[x] # "dropping")
           /\ wQueue' # <<>> /\ wQueue'[1] = wQueue[1]
    BY <1>1 DEF Warm!IInv, Warm!Locked, Warm!Working, Warm!Holds
  <2> QED
    BY <1>1, <2>1, WarmLockKept
<1> DEFINE G == {}
<1>10. wProc' \in [Warm!Requests -> {"none", "open", "dead", "killed", "closing", "gone"}]
  BY <1>2 DEF Warm!IInv, Warm!ProcessesSound, Warm!TypeOK
<1>5. \A x \in Warm!Requests :
        /\ wProc'[x] = "none" <=> wProc[x] = "none"
        /\ wProc'[x] \in Alive <=> x \notin G /\ wProc[x] \in Alive
        /\ wProc'[x] \in {"open", "dead"} => wProc[x] \in {"open", "dead"}
  <2>1. \A x \in Warm!Requests : wProc'[x] = wProc[x] \/ (x = w /\ wProc'[x] = p /\ wProc' # wProc)
    BY <1>2 DEF Warm!IInv, Warm!ProcessesSound, Warm!TypeOK
  <2>2. wProc' # wProc => /\ wProc[w] # "none" /\ (p \in Alive <=> wProc[w] \in Alive)
                          /\ p = "dead" => wProc[w] = "open"
    BY <1>2
  <2>3. ASSUME NEW x \in Warm!Requests, wProc'[x] # wProc[x] PROVE x = w /\ wProc'[x] = p /\ wProc' # wProc
    BY <2>1, <2>3
  <2> QED
    BY <2>2, <2>3
<1>6. G \in SUBSET Warm!Requests /\ \A s \in Warm!Sessions : wCache'[s] = IF wCache[s] \in G THEN 0 ELSE wCache[s]
  BY <1>1
<1>7. /\ wUser' \in [Warm!Requests -> {0} \cup Warm!Requests] /\ wCache' \in [Warm!Sessions -> {0} \cup Warm!Requests]
      /\ UNCHANGED wBusy
  BY <1>1 DEF Warm!IInv, Warm!ProcessesSound, Warm!TypeOK
<1>8. \A x \in Warm!Requests :
        /\ wReq'[x] = "running" => wReq[x] = "running" /\ wUser'[x] = wUser[x]
        /\ wReq[x] = "running" /\ wReq'[x] # "running" => wUser[x] \in G \/ wDrop'[wUser[x]] \in Pending
        /\ wReq'[x] \in Early => wReq[x] \in Early
  BY <1>1
<1>9. /\ \A x \in Warm!Requests : wDrop[x] \in Pending => x \in G \/ wDrop'[x] \in Pending
      /\ \A x \in Warm!Requests : wBusy[x] \/ (wHeld'[x] = wHeld[x] /\ wTip'[x] = wTip[x])
  BY <1>1
<1> HIDE DEF G
<1> QED
  BY <1>3, <1>4, <1>5, <1>6, <1>7, <1>8, <1>9, <1>10, WarmEffect

\* What closing a worker does.
LEMMA WarmCloseEffect ==
  ASSUME Warm!IInv, NEW w \in Warm!Requests, Warm!Close(w)
  PROVE  /\ wProc' \in [Warm!Requests -> {"none", "open", "dead", "killed", "closing", "gone"}]
         /\ wArmed' \in [Warm!Requests -> BOOLEAN]
         /\ \A x \in Warm!Requests :
              /\ wProc'[x] = "none" <=> wProc[x] = "none"
              /\ wProc'[x] \in Alive <=> x \notin {w} /\ wProc[x] \in Alive
              /\ wProc'[x] \in {"open", "dead"} => wProc[x] \in {"open", "dead"}
<1>1. /\ wProc' = [wProc EXCEPT ![w] = IF wProc[w] \in Alive THEN "closing" ELSE wProc[w]]
      /\ wArmed' = [wArmed EXCEPT ![w] = FALSE] /\ wArmed \in [Warm!Requests -> BOOLEAN]
      /\ wProc \in [Warm!Requests -> {"none", "open", "dead", "killed", "closing", "gone"}]
  BY DEF Warm!Close, Alive, Warm!IInv, Warm!Typed, Warm!ProcessesSound, Warm!TypeOK
<1>2. \A x \in Warm!Requests : wProc'[x] = IF x = w /\ wProc[x] \in Alive THEN "closing" ELSE wProc[x]
  BY <1>1
<1> QED
  BY <1>1, <1>2 DEF Alive

\* A request with the lock closes an idle process: the one that does not fit, or one
\* whose place it needs.
LEMMA WarmTakeOutSafe ==
  ASSUME Warm!IInv, NEW r \in Warm!Requests, Warm!Replace(r) \/ Warm!Evict(r)
  PROVE  Warm!IInv'
<1>1. /\ UNCHANGED <<wStop, wBase, wBusy, wTip, wHeld, wOld, wDrop, wQueue, wTroubles>>
      /\ wReq[r] \in {"waiting", "evicting"} /\ wReq' = [wReq EXCEPT ![r] = "replacing"]
      /\ \E t \in Warm!Sessions, w \in Warm!Requests :
           /\ wCache[t] = w /\ wCache' = [wCache EXCEPT ![t] = 0] /\ Warm!Close(w)
           /\ wUser' = [wUser EXCEPT ![r] = w]
           /\ \/ wKept' = [wKept EXCEPT ![r] = TRUE] /\ wReq[r] = "waiting" /\ Warm!Holds(<<"acquire", r>>) /\ t = Session[r]
              \/ wKept' = wKept /\ wReq[r] = "evicting"
  <2>1. CASE Warm!Replace(r)
    <3>1. PICK t \in Warm!Sessions : t = Session[r] /\ wCache[t] = Warm!CacheOf(r) /\ Warm!CacheOf(r) # 0
      BY <2>1, WarmPlaceOf DEF Warm!Replace, Warm!CacheOf
    <3>2. PICK w \in Warm!Requests : w = Warm!CacheOf(r)
      BY <3>1 DEF Warm!IInv, Warm!ProcessesSound, Warm!TypeOK
    <3>3. /\ UNCHANGED <<wStop, wBase, wBusy, wTip, wHeld, wOld, wDrop, wQueue, wTroubles>>
          /\ wReq[r] \in {"waiting", "evicting"} /\ wReq' = [wReq EXCEPT ![r] = "replacing"]
          /\ wCache' = [wCache EXCEPT ![t] = 0] /\ Warm!Close(w)
          /\ wUser' = [wUser EXCEPT ![r] = w] /\ wReq[r] = "waiting" /\ Warm!Holds(<<"acquire", r>>)
          /\ wKept' = [wKept EXCEPT ![r] = TRUE]
      BY <2>1, <3>1, <3>2 DEF Warm!Replace
    <3> QED
      BY <3>1, <3>2, <3>3
  <2>2. CASE Warm!Evict(r)
    <3>1. PICK t \in Warm!Victims : /\ wCache' = [wCache EXCEPT ![t] = 0] /\ Warm!Close(wCache[t])
                                    /\ wUser' = [wUser EXCEPT ![r] = wCache[t]]
      BY <2>2 DEF Warm!Evict
    <3>2. t \in Warm!Sessions /\ wCache[t] \in Warm!Requests
      BY DEF Warm!Victims, Warm!Cached, Warm!IInv, Warm!ProcessesSound, Warm!TypeOK
    <3>3. PICK w \in Warm!Requests : w = wCache[t]
      BY <3>2
    <3>4. /\ UNCHANGED <<wStop, wBase, wBusy, wTip, wHeld, wOld, wDrop, wQueue, wTroubles>>
          /\ wReq[r] \in {"waiting", "evicting"} /\ wReq' = [wReq EXCEPT ![r] = "replacing"]
          /\ wKept' = wKept /\ wReq[r] = "evicting"
      BY <2>2 DEF Warm!Evict
    <3>5. Warm!Close(w) /\ wUser' = [wUser EXCEPT ![r] = w]
      BY <3>1, <3>3
    <3> QED
      BY <3>1, <3>2, <3>3, <3>4, <3>5
  <2> QED
    BY <2>1, <2>2
<1>2. PICK t \in Warm!Sessions, w \in Warm!Requests :
           /\ wCache[t] = w /\ wCache' = [wCache EXCEPT ![t] = 0] /\ Warm!Close(w)
           /\ wUser' = [wUser EXCEPT ![r] = w]
           /\ \/ wKept' = [wKept EXCEPT ![r] = TRUE] /\ wReq[r] = "waiting" /\ Warm!Holds(<<"acquire", r>>) /\ t = Session[r]
              \/ wKept' = wKept /\ wReq[r] = "evicting"
  BY <1>1
<1>3. \A x \in Warm!Requests : wReq'[x] = IF x = r THEN "replacing" ELSE wReq[x]
  BY <1>1 DEF Warm!IInv, Warm!Typed
<1>4. /\ wCache' \in [Warm!Sessions -> {0} \cup Warm!Requests]
      /\ \A s \in Warm!Sessions : wCache'[s] = IF s = t THEN 0 ELSE wCache[s]
  BY <1>2 DEF Warm!IInv, Warm!ProcessesSound, Warm!TypeOK
<1>5. \A s \in Warm!Sessions : wCache[s] = w <=> s = t
  <2>1. w # 0
    BY WarmFewSessions
  <2> QED
    BY <1>2, <2>1 DEF Warm!IInv, Warm!ProcessesSound, Warm!CacheBounded, Warm!Cached
<1> DEFINE G == {w}
<1>6. G \in SUBSET Warm!Requests /\ \A s \in Warm!Sessions : wCache'[s] = IF wCache[s] \in G THEN 0 ELSE wCache[s]
  BY <1>4, <1>5
<1>7. /\ wProc' \in [Warm!Requests -> {"none", "open", "dead", "killed", "closing", "gone"}]
      /\ wArmed' \in [Warm!Requests -> BOOLEAN]
      /\ \A x \in Warm!Requests :
           /\ wProc'[x] = "none" <=> wProc[x] = "none"
           /\ wProc'[x] \in Alive <=> x \notin G /\ wProc[x] \in Alive
           /\ wProc'[x] \in {"open", "dead"} => wProc[x] \in {"open", "dead"}
  BY <1>2, WarmCloseEffect
<1>8. Warm!Typed'
  BY <1>1, <1>2, <1>7, ZenonT(60) DEF Warm!IInv, Warm!Typed
<1>9. Warm!Locked'
  <2>1. Warm!Holds(<<"acquire", r>>)
    BY <1>1, <1>2 DEF Warm!IInv, Warm!Locked, Warm!Working
  <2>2. ASSUME NEW x \in Warm!Requests, Warm!Working(x)'
        PROVE  /\ Warm!Holds(<<"acquire", x>>)'
               /\ wKept'[x] /\ wReq'[x] # "dropping" => Session[x] # 0 /\ wCache'[Session[x]] = 0
    <3>1. CASE x # r
      <4>1. ~Warm!Working(x)
        BY <2>1, <3>1, WarmOneHolds
      <4> QED
        BY <1>3, <2>2, <3>1, <4>1 DEF Warm!Working
    <3>2. CASE x = r /\ wReq[r] = "waiting"
      <4>1. t = Session[r] /\ t # 0
        BY <1>2, <3>2, WarmFewSessions
      <4> QED
        BY <1>1, <1>4, <2>1, <3>2, <4>1 DEF Warm!Holds
    <3>3. CASE x = r /\ wReq[r] = "evicting"
      <4>1. wKept' = wKept
        BY <1>2, <3>3
      <4>2. wKept[r] => Session[r] # 0 /\ wCache[Session[r]] = 0
        BY <3>3 DEF Warm!IInv, Warm!Locked, Warm!Working
      <4>3. wKept[r] => Session[r] # 0 /\ wCache'[Session[r]] = 0
        BY <1>4, <4>2, WarmPlaceOf
      <4> QED
        BY <1>1, <2>1, <3>3, <4>1, <4>3 DEF Warm!Holds
    <3> QED
      BY <1>1, <3>1, <3>2, <3>3
  <2> QED
    BY <2>2 DEF Warm!Locked
<1>10. /\ wUser' \in [Warm!Requests -> {0} \cup Warm!Requests]
       /\ \A x \in Warm!Requests : wReq[x] = "running" => wUser'[x] = wUser[x]
  BY <1>1, <1>2 DEF Warm!IInv, Warm!ProcessesSound, Warm!TypeOK
<1>11. \A x \in Warm!Requests :
         /\ wReq'[x] = "running" => wReq[x] = "running" /\ wUser'[x] = wUser[x]
         /\ wReq[x] = "running" /\ wReq'[x] # "running" => wUser[x] \in G \/ wDrop'[wUser[x]] \in Pending
         /\ wReq'[x] \in Early => wReq[x] \in Early
  BY <1>1, <1>3, <1>10 DEF Early
<1>12. /\ wBusy' = wBusy
       /\ \A x \in Warm!Requests : wDrop[x] \in Pending => x \in G \/ wDrop'[x] \in Pending
       /\ \A x \in Warm!Requests : wBusy[x] \/ (wHeld'[x] = wHeld[x] /\ wTip'[x] = wTip[x])
  BY <1>1
<1> HIDE DEF G
<1> QED
  BY <1>4, <1>6, <1>7, <1>8, <1>9, <1>10, <1>11, <1>12, WarmEffect

\* Whoever has the lock without being a request that looks for a process tears
\* down what it came for: what was discarded, has expired or is closed.
LEMMA WarmToreDown ==
  ASSUME Warm!IInv, NEW j, Warm!Holds(j), \A x \in Warm!Requests : j # <<"acquire", x>>, wQueue' = Tail(wQueue),
         UNCHANGED <<wReq, wUser, wKept, wBusy, wTip, wHeld>>,
         wDrop' \in [Warm!Requests -> {"no", "queued", "closing", "stranded"}],
         NEW G \in SUBSET Warm!Requests,
         wCache' \in [Warm!Sessions -> {0} \cup Warm!Requests],
         \A s \in Warm!Sessions : wCache'[s] = IF wCache[s] \in G THEN 0 ELSE wCache[s],
         wProc' \in [Warm!Requests -> {"none", "open", "dead", "killed", "closing", "gone"}],
         wArmed' \in [Warm!Requests -> BOOLEAN],
         \A w \in Warm!Requests :
           /\ wProc'[w] = "none" <=> wProc[w] = "none"
           /\ wProc'[w] \in Alive <=> w \notin G /\ wProc[w] \in Alive
           /\ wProc'[w] \in {"open", "dead"} => wProc[w] \in {"open", "dead"},
         \A w \in Warm!Requests : wDrop[w] \in Pending => w \in G \/ wDrop'[w] \in Pending
  PROVE  Warm!IInv'
<1>1. wQueue' \in Seq(Warm!Jobs)
  BY WarmPopped DEF Warm!IInv, Warm!Typed, Warm!Holds
<1>2. Warm!Typed'
  BY <1>1 DEF Warm!IInv, Warm!Typed
<1>3. \A x \in Warm!Requests : ~Warm!Working(x)'
  <2>1. \A x \in Warm!Requests : ~Warm!Working(x)
    BY WarmOneHolds
  <2> QED
    BY <2>1 DEF Warm!Working
<1>4. Warm!Locked'
  BY <1>3 DEF Warm!Locked
<1>5. wUser' \in [Warm!Requests -> {0} \cup Warm!Requests]
  BY DEF Warm!IInv, Warm!ProcessesSound, Warm!TypeOK
<1>6. \A x \in Warm!Requests :
         /\ wReq'[x] = "running" => wReq[x] = "running" /\ wUser'[x] = wUser[x]
         /\ wReq[x] = "running" /\ wReq'[x] # "running" => wUser[x] \in G \/ wDrop'[wUser[x]] \in Pending
         /\ wReq'[x] \in Early => wReq[x] \in Early
  OBVIOUS
<1>7. wBusy' = wBusy /\ \A x \in Warm!Requests : wBusy[x] \/ (wHeld'[x] = wHeld[x] /\ wTip'[x] = wTip[x])
  OBVIOUS
<1> QED
  BY <1>2, <1>4, <1>5, <1>6, <1>7, WarmEffect

\* A discard gets the lock.
LEMMA WarmDiscardSafe ==
  ASSUME Warm!IInv, NEW w \in Warm!Requests, Warm!DiscardLocked(w)
  PROVE  Warm!IInv'
<1> DEFINE j == <<"discard", w>>
           G == {w}
<1>1. /\ Warm!Holds(j) /\ wQueue' = Tail(wQueue) /\ Warm!Close(w) /\ wDrop' = [wDrop EXCEPT ![w] = "closing"]
      /\ UNCHANGED <<wReq, wUser, wKept, wBusy, wTip, wHeld>>
      /\ wCache' = [s \in Warm!Sessions |-> IF wCache[s] = w THEN 0 ELSE wCache[s]]
  BY DEF Warm!DiscardLocked
<1>2. /\ wCache' \in [Warm!Sessions -> {0} \cup Warm!Requests]
      /\ \A s \in Warm!Sessions : wCache'[s] = IF wCache[s] \in G THEN 0 ELSE wCache[s]
  BY <1>1 DEF Warm!IInv, Warm!ProcessesSound, Warm!TypeOK
<1>3. /\ wProc' \in [Warm!Requests -> {"none", "open", "dead", "killed", "closing", "gone"}]
      /\ wArmed' \in [Warm!Requests -> BOOLEAN]
      /\ \A x \in Warm!Requests :
           /\ wProc'[x] = "none" <=> wProc[x] = "none"
           /\ wProc'[x] \in Alive <=> x \notin G /\ wProc[x] \in Alive
           /\ wProc'[x] \in {"open", "dead"} => wProc[x] \in {"open", "dead"}
  BY <1>1, WarmCloseEffect
<1>4. /\ wDrop' \in [Warm!Requests -> {"no", "queued", "closing", "stranded"}]
      /\ \A x \in Warm!Requests : wDrop[x] \in Pending => x \in G \/ wDrop'[x] \in Pending
  BY <1>1 DEF Warm!IInv, Warm!Typed
<1>5. G \in SUBSET Warm!Requests /\ \A x \in Warm!Requests : j # <<"acquire", x>>
  OBVIOUS
<1> HIDE DEF G, j
<1> QED
  BY <1>1, <1>2, <1>3, <1>4, <1>5, WarmToreDown

\* The expiry looks again once it has the lock.
LEMMA WarmExpireSafe == ASSUME Warm!IInv, NEW w \in Warm!Requests, Warm!Expire(w) PROVE Warm!IInv'
<1> DEFINE j == <<"expire", w>>
           G == IF Warm!Expirable(w) THEN {w} ELSE {}
<1>1. /\ Warm!Holds(j) /\ wQueue' = Tail(wQueue) /\ wDrop' = wDrop
      /\ UNCHANGED <<wReq, wUser, wKept, wBusy, wTip, wHeld>>
      /\ IF Warm!Expirable(w) THEN wCache' = [wCache EXCEPT ![Session[w]] = 0] /\ Warm!Close(w)
                         ELSE UNCHANGED <<wCache, wProc, wArmed>>
  BY DEF Warm!Expire
<1>2. /\ wCache' \in [Warm!Sessions -> {0} \cup Warm!Requests]
      /\ \A s \in Warm!Sessions : wCache'[s] = IF wCache[s] \in G THEN 0 ELSE wCache[s]
  <2>1. CASE Warm!Expirable(w)
    <3>1. w # 0
      BY WarmFewSessions
    <3>2. Session[w] \in Warm!Sessions /\ \A s \in Warm!Sessions : wCache[s] = w <=> s = Session[w]
      <4>1. PICK s \in Warm!Sessions : wCache[s] = w
        BY <2>1 DEF Warm!Expirable, Warm!InCache
      <4>2. \A t \in Warm!Sessions : wCache[t] = w => t = Session[w]
        BY <3>1 DEF Warm!IInv, Warm!ProcessesSound, Warm!CacheBounded, Warm!Cached
      <4> QED
        BY <4>1, <4>2
    <3> QED
      BY <1>1, <2>1, <3>2 DEF Warm!IInv, Warm!ProcessesSound, Warm!TypeOK
  <2>2. CASE ~Warm!Expirable(w)
    BY <1>1, <2>2 DEF Warm!IInv, Warm!ProcessesSound, Warm!TypeOK
  <2> QED
    BY <2>1, <2>2
<1>3. /\ wProc' \in [Warm!Requests -> {"none", "open", "dead", "killed", "closing", "gone"}]
      /\ wArmed' \in [Warm!Requests -> BOOLEAN]
      /\ \A x \in Warm!Requests :
           /\ wProc'[x] = "none" <=> wProc[x] = "none"
           /\ wProc'[x] \in Alive <=> x \notin G /\ wProc[x] \in Alive
           /\ wProc'[x] \in {"open", "dead"} => wProc[x] \in {"open", "dead"}
  <2>1. CASE Warm!Expirable(w)
    <3>1. Warm!Close(w) /\ G = {w}
      BY <1>1, <2>1
    <3> HIDE DEF G
    <3> QED
      BY <3>1, WarmCloseEffect
  <2>2. CASE ~Warm!Expirable(w)
    BY <1>1, <2>2 DEF Warm!IInv, Warm!ProcessesSound, Warm!TypeOK, Warm!Typed
  <2> QED
    BY <2>1, <2>2
<1>4. /\ wDrop' \in [Warm!Requests -> {"no", "queued", "closing", "stranded"}]
      /\ \A x \in Warm!Requests : wDrop[x] \in Pending => x \in G \/ wDrop'[x] \in Pending
  BY <1>1 DEF Warm!IInv, Warm!Typed
<1>5. G \in SUBSET Warm!Requests /\ \A x \in Warm!Requests : j # <<"acquire", x>>
  OBVIOUS
<1> HIDE DEF G, j
<1> QED
  BY <1>1, <1>2, <1>3, <1>4, <1>5, WarmToreDown

\* A session, or all, is closed, in use or not.
LEMMA WarmCloseSafe ==
  ASSUME Warm!IInv, NEW t \in {0} \cup Warm!Sessions, Warm!CloseLocked(t)
  PROVE  Warm!IInv'
<1> DEFINE j == <<"close", t>>
           G == {w \in Warm!Requests : Warm!InCache(w) /\ t \in {0, Session[w]}}
<1>1. /\ Warm!Holds(j) /\ wQueue' = Tail(wQueue) /\ wDrop' = wDrop
      /\ UNCHANGED <<wReq, wUser, wKept, wBusy, wTip, wHeld>>
      /\ wCache' = [s \in Warm!Sessions |-> IF t \in {0, s} THEN 0 ELSE wCache[s]]
      /\ wProc' = [w \in Warm!Requests |-> IF w \in G THEN "closing" ELSE wProc[w]]
      /\ wArmed' = [w \in Warm!Requests |-> wArmed[w] /\ w \notin G]
  BY DEF Warm!CloseLocked
<1>2. \A s \in Warm!Sessions : wCache[s] # 0 => wCache[s] \in Warm!Requests /\ Session[wCache[s]] = s /\ Warm!InCache(wCache[s])
                                         /\ wProc[wCache[s]] \in Alive
  BY DEF Warm!IInv, Warm!ProcessesSound, Warm!TypeOK, Warm!CacheBounded, Warm!Cached, Warm!InCache,
     Alive
<1>3. /\ wCache' \in [Warm!Sessions -> {0} \cup Warm!Requests]
      /\ \A s \in Warm!Sessions : wCache'[s] = IF wCache[s] \in G THEN 0 ELSE wCache[s]
  <2>1. wCache' \in [Warm!Sessions -> {0} \cup Warm!Requests]
    BY <1>1 DEF Warm!IInv, Warm!ProcessesSound, Warm!TypeOK
  <2>2. ASSUME NEW s \in Warm!Sessions PROVE wCache'[s] = IF wCache[s] \in G THEN 0 ELSE wCache[s]
    <3>1. CASE wCache[s] = 0
      BY <1>1, <3>1
    <3>2. CASE wCache[s] # 0
      <4>1. wCache[s] \in G <=> t \in {0, s}
        BY <1>2, <3>2
      <4> QED
        BY <1>1, <4>1
    <3> QED
      BY <3>1, <3>2
  <2> QED
    BY <2>1, <2>2
<1>4. \A w \in G : wProc[w] \in Alive
  <2>1. ASSUME NEW w \in G PROVE wProc[w] \in Alive
    <3>1. PICK s \in Warm!Sessions : wCache[s] = w
      BY DEF Warm!InCache
    <3>2. w # 0
      BY WarmFewSessions
    <3> QED
      BY <1>2, <3>1, <3>2
  <2> QED
    BY <2>1
<1>5. G \in SUBSET Warm!Requests /\ \A x \in Warm!Requests : j # <<"acquire", x>>
  OBVIOUS
<1>6. wProc \in [Warm!Requests -> {"none", "open", "dead", "killed", "closing", "gone"}] /\ wArmed \in [Warm!Requests -> BOOLEAN]
  BY DEF Warm!IInv, Warm!ProcessesSound, Warm!TypeOK, Warm!Typed
<1> HIDE DEF G, j
<1>7. /\ wProc' \in [Warm!Requests -> {"none", "open", "dead", "killed", "closing", "gone"}]
      /\ wArmed' \in [Warm!Requests -> BOOLEAN]
      /\ \A x \in Warm!Requests :
           /\ wProc'[x] = "none" <=> wProc[x] = "none"
           /\ wProc'[x] \in Alive <=> x \notin G /\ wProc[x] \in Alive
           /\ wProc'[x] \in {"open", "dead"} => wProc[x] \in {"open", "dead"}
  BY <1>1, <1>4, <1>6 DEF Alive
<1>8. /\ wDrop' \in [Warm!Requests -> {"no", "queued", "closing", "stranded"}]
      /\ \A x \in Warm!Requests : wDrop[x] \in Pending => x \in G \/ wDrop'[x] \in Pending
  BY <1>1 DEF Warm!IInv, Warm!Typed
<1> QED
  BY <1>1, <1>3, <1>5, <1>7, <1>8, WarmToreDown

\* A turn ends and its process is discarded: closed at once, or, when it is in the
\* cache, as soon as the lock is free.
LEMMA WarmTurnOver ==
  ASSUME Warm!IInv, NEW r \in Warm!Requests, NEW w \in Warm!Requests, w = wUser[r], wReq[r] = "running", Warm!Discard(w),
         NEW t \in {"aborted", "releasing"}, wReq' = [wReq EXCEPT ![r] = t],
         UNCHANGED <<wUser, wKept, wBusy, wCache>>,
         wHeld' \in [Warm!Requests -> Nat], wTip' \in [Warm!Requests -> Nat],
         \A x \in Warm!Requests \ {w} : wHeld'[x] = wHeld[x] /\ wTip'[x] = wTip[x]
  PROVE  Warm!IInv'
<1> DEFINE G == IF Warm!InCache(w) THEN {} ELSE {w}
<1>1. \A x \in Warm!Requests : wReq'[x] = IF x = r THEN t ELSE wReq[x]
  BY DEF Warm!IInv, Warm!Typed
<1>2. IF Warm!InCache(w)
      THEN wDrop' = [wDrop EXCEPT ![w] = "queued"] /\ wQueue' = Append(wQueue, <<"discard", w>>) /\ UNCHANGED <<wProc, wArmed>>
      ELSE wDrop' = [wDrop EXCEPT ![w] = "closing"] /\ Warm!Close(w) /\ wQueue' = wQueue
  BY DEF Warm!Discard
<1>3. wQueue' \in Seq(Warm!Jobs) /\ (wQueue # <<>> => wQueue' # <<>> /\ wQueue'[1] = wQueue[1])
  <2>1. CASE Warm!InCache(w)
    <3>1. <<"discard", w>> \in Warm!Jobs
      BY WarmFewSessions DEF Warm!Jobs
    <3> QED
      BY <1>2, <2>1, <3>1, WarmJoined DEF Warm!IInv, Warm!Typed
  <2>2. CASE ~Warm!InCache(w)
    BY <1>2, <2>2 DEF Warm!IInv, Warm!Typed
  <2> QED
    BY <2>1, <2>2
<1>4. /\ wProc' \in [Warm!Requests -> {"none", "open", "dead", "killed", "closing", "gone"}]
      /\ wArmed' \in [Warm!Requests -> BOOLEAN]
      /\ \A x \in Warm!Requests :
           /\ wProc'[x] = "none" <=> wProc[x] = "none"
           /\ wProc'[x] \in Alive <=> x \notin G /\ wProc[x] \in Alive
           /\ wProc'[x] \in {"open", "dead"} => wProc[x] \in {"open", "dead"}
  <2>1. CASE Warm!InCache(w)
    BY <1>2, <2>1 DEF Warm!IInv, Warm!ProcessesSound, Warm!TypeOK, Warm!Typed
  <2>2. CASE ~Warm!InCache(w)
    <3>1. Warm!Close(w) /\ G = {w}
      BY <1>2, <2>2
    <3> HIDE DEF G
    <3> QED
      BY <3>1, WarmCloseEffect
  <2> QED
    BY <2>1, <2>2
<1>5. /\ G \in SUBSET Warm!Requests
      /\ \A s \in Warm!Sessions : wCache'[s] = IF wCache[s] \in G THEN 0 ELSE wCache[s]
  BY DEF Warm!InCache
<1>6. /\ wDrop' \in [Warm!Requests -> {"no", "queued", "closing", "stranded"}]
      /\ \A x \in Warm!Requests : wDrop[x] \in Pending => x \in G \/ wDrop'[x] \in Pending
      /\ w \in G \/ wDrop'[w] \in Pending
  BY <1>2 DEF Warm!IInv, Warm!Typed, Pending
<1>7. Warm!Typed'
  BY <1>1, <1>3, <1>4, <1>6 DEF Warm!IInv, Warm!Typed
<1>8. Warm!Locked'
  <2>1. \A x \in Warm!Requests : Warm!Working(x)' =>
           /\ Warm!Working(x) /\ wKept'[x] = wKept[x] /\ (wReq'[x] # "dropping" => wReq[x] # "dropping")
           /\ wQueue' # <<>> /\ wQueue'[1] = wQueue[1]
    BY <1>1, <1>3 DEF Warm!IInv, Warm!Locked, Warm!Working, Warm!Holds
  <2> QED
    BY <2>1, WarmLockKept
<1>9. \A x \in Warm!Requests : wBusy[x] \/ (wHeld'[x] = wHeld[x] /\ wTip'[x] = wTip[x])
  BY DEF Warm!IInv, Warm!ProcessesSound, Warm!OneUser
<1>10. wUser' \in [Warm!Requests -> {0} \cup Warm!Requests] /\ wCache' \in [Warm!Sessions -> {0} \cup Warm!Requests]
  BY DEF Warm!IInv, Warm!ProcessesSound, Warm!TypeOK
<1> HIDE DEF G
<1>11. \A x \in Warm!Requests :
         /\ wReq'[x] = "running" => wReq[x] = "running" /\ wUser'[x] = wUser[x]
         /\ wReq[x] = "running" /\ wReq'[x] # "running" => wUser[x] \in G \/ wDrop'[wUser[x]] \in Pending
         /\ wReq'[x] \in Early => wReq[x] \in Early
  BY <1>1, <1>6 DEF Early
<1> QED
  BY <1>4, <1>5, <1>6, <1>7, <1>8, <1>9, <1>10, <1>11, WarmEffect

\* The process goes idle with the conversation that it holds for its tip.
LEMMA WarmIdleSafe ==
  ASSUME Warm!IInv, NEW r \in Warm!Requests, NEW w \in Warm!Requests, w = wUser[r], wReq[r] = "running",
         Warm!CacheOf(r) = w,
         Warm!Typed',
         \A x \in Warm!Requests :
           /\ wReq'[x] = IF x = r THEN "done" ELSE wReq[x]
           /\ wBusy'[x] = IF x = w THEN FALSE ELSE wBusy[x]
           /\ wTip'[x] = IF x = w THEN r ELSE wTip[x]
           /\ wHeld'[x] = IF x = w THEN r ELSE wHeld[x],
         UNCHANGED <<wUser, wKept, wProc, wDrop, wCache, wQueue>>
  PROVE  Warm!IInv'
<1>1. r \in Nat /\ w # 0 /\ Warm!InCache(w)
  BY WarmFewSessions, WarmPlaceOf DEF Warm!CacheOf, Warm!InCache
<1>2. \A x \in Warm!Requests : /\ wReq'[x] = IF x = r THEN "done" ELSE wReq[x]
                               /\ wBusy'[x] = IF x = w THEN FALSE ELSE wBusy[x]
                               /\ wTip'[x] = IF x = w THEN r ELSE wTip[x]
                               /\ wHeld'[x] = IF x = w THEN r ELSE wHeld[x]
  OBVIOUS
<1>3. Warm!TypeOK'
  BY DEF Warm!IInv, Warm!ProcessesSound, Warm!TypeOK
<1>4. Warm!Locked' /\ Warm!Fresh'
  BY <1>2 DEF Warm!IInv, Warm!Locked, Warm!Fresh, Warm!Working, Warm!Holds
<1>5. \A x \in Warm!Requests \ {r} : wReq[x] = "running" => wUser[x] # w /\ wBusy[wUser[x]] /\ wUser[x] \in Warm!Requests
  BY DEF Warm!IInv, Warm!ProcessesSound, Warm!OneUser, Warm!TypeOK, Warm!Fresh
<1>6. Warm!OneUser'
  <2>1. ASSUME NEW q \in Warm!Requests, wReq'[q] = "running"
        PROVE  /\ wBusy'[wUser[q]]
               /\ \A p \in Warm!Requests \ {q} : wReq'[p] = "running" => wUser[p] # wUser[q]
    <3>1. q # r /\ wReq[q] = "running"
      BY <1>2, <2>1
    <3>2. wBusy'[wUser[q]]
      BY <1>2, <1>5, <3>1
    <3>3. \A p \in Warm!Requests \ {q} : wReq'[p] = "running" => wReq[p] = "running"
      BY <1>2
    <3> QED
      BY <3>1, <3>2, <3>3 DEF Warm!IInv, Warm!ProcessesSound, Warm!OneUser
  <2> QED
    BY <2>1 DEF Warm!OneUser
<1>7. Warm!TipIsHeld'
  <2>1. \A s \in Warm!Sessions : wCache[s] # 0 => wCache[s] \in Warm!Requests
    BY DEF Warm!IInv, Warm!ProcessesSound, Warm!TypeOK
  <2>2. ASSUME NEW s \in Warm!Sessions, NEW x \in Warm!Requests, x = wCache[s], x # 0,
               ~wBusy'[x], wProc[x] \in {"open", "dead"}, wTip'[x] # 0
        PROVE  wHeld'[x] = wTip'[x]
    <3>1. CASE x = w
      BY <1>2, <3>1
    <3>2. CASE x # w
      BY <1>2, <2>2, <3>2 DEF Warm!IInv, Warm!ProcessesSound, Warm!TipIsHeld, Warm!Cached
    <3> QED
      BY <3>1, <3>2
  <2> QED
    BY <2>1, <2>2 DEF Warm!TipIsHeld, Warm!Cached
<1>8. Warm!CacheBounded'
  BY DEF Warm!IInv, Warm!ProcessesSound, Warm!CacheBounded, Warm!Cached
<1>9. Warm!NothingForgotten'
  <2>1. SUFFICES ASSUME NEW x \in Warm!Requests, wProc[x] \in {"open", "dead", "killed"}
                 PROVE  \/ \E q \in Warm!Requests : wReq'[q] = "running" /\ wUser[q] = x
                        \/ wDrop[x] \in {"queued", "stranded"}
                        \/ Warm!InCache(x) /\ ~wBusy'[x]
    BY DEF Warm!NothingForgotten, Warm!InCache
  <2>2. CASE x = w
    BY <1>1, <1>2, <2>2
  <2>3. CASE x # w
    <3>1. \/ \E q \in Warm!Requests : wReq[q] = "running" /\ wUser[q] = x
          \/ wDrop[x] \in {"queued", "stranded"}
          \/ Warm!InCache(x) /\ ~wBusy[x]
      BY <2>1 DEF Warm!IInv, Warm!ProcessesSound, Warm!NothingForgotten
    <3> QED
      BY <1>2, <2>3, <3>1
  <2> QED
    BY <2>2, <2>3
<1> QED
  BY <1>3, <1>4, <1>6, <1>7, <1>8, <1>9 DEF Warm!IInv, Warm!ProcessesSound

\* A turn answers, or fails.
LEMMA WarmEndsSafe == ASSUME Warm!IInv, NEW r \in Warm!Requests, Warm!Ends(r) PROVE Warm!IInv'
<1>1. PICK w \in Warm!Requests : w = wUser[r] /\ wReq[r] = "running"
  BY DEF Warm!Ends, Warm!Fails, Warm!Answered, Warm!IInv, Warm!Fresh, Warm!ProcessesSound, Warm!TypeOK
<1>2. CASE Warm!Fails(r)
  <2>1. PICK t \in {"aborted", "releasing"} : wReq' = [wReq EXCEPT ![r] = t]
    BY <1>2 DEF Warm!Fails
  <2>2. /\ Warm!Discard(w) /\ wHeld' = [wHeld EXCEPT ![w] = 0] /\ UNCHANGED <<wUser, wKept, wBusy, wTip, wCache>>
    BY <1>1, <1>2 DEF Warm!Fails
  <2>3. /\ wHeld' \in [Warm!Requests -> Nat] /\ wTip' \in [Warm!Requests -> Nat]
        /\ \A x \in Warm!Requests \ {w} : wHeld'[x] = wHeld[x] /\ wTip'[x] = wTip[x]
    BY <2>2 DEF Warm!IInv, Warm!Typed
  <2> QED
    BY <1>1, <2>1, <2>2, <2>3, WarmTurnOver
<1>3. CASE \E tools \in BOOLEAN : Warm!Answered(r, tools)
  <2>1. PICK tools \in BOOLEAN : Warm!Answered(r, tools)
    BY <1>3
  <2>2. PICK c \in Nat, h \in Nat : /\ wTip' = [wTip EXCEPT ![w] = c] /\ c = Warm!Committed(r, tools)
                                    /\ wHeld' = [wHeld EXCEPT ![w] = h] /\ h = IF tools THEN 0 ELSE r
    BY <1>1, <2>1, WarmFewSessions DEF Warm!Answered, Warm!Committed
  <2>3. /\ wHeld' \in [Warm!Requests -> Nat] /\ wTip' \in [Warm!Requests -> Nat] /\ wTip'[w] = c
        /\ \A x \in Warm!Requests \ {w} : wHeld'[x] = wHeld[x] /\ wTip'[x] = wTip[x]
    BY <2>2 DEF Warm!IInv, Warm!Typed
  <2>4. CASE c # 0 /\ wKept[r] /\ Warm!CacheOf(r) = w
    <3>1. c = r /\ h = r
      BY <2>2, <2>4 DEF Warm!Committed
    <3>2. /\ wBusy' = [wBusy EXCEPT ![w] = FALSE] /\ wArmed' = [wArmed EXCEPT ![w] = TRUE]
          /\ wReq' = [wReq EXCEPT ![r] = "done"] /\ UNCHANGED <<wUser, wKept, wProc, wDrop, wCache, wQueue>>
      BY <1>1, <2>1, <2>3, <2>4 DEF Warm!Answered
    <3>3. \A x \in Warm!Requests : /\ wReq'[x] = IF x = r THEN "done" ELSE wReq[x]
                                   /\ wBusy'[x] = IF x = w THEN FALSE ELSE wBusy[x]
                                   /\ wTip'[x] = IF x = w THEN r ELSE wTip[x]
                                   /\ wHeld'[x] = IF x = w THEN r ELSE wHeld[x]
      BY <2>2, <3>1, <3>2 DEF Warm!IInv, Warm!Typed
    <3>4. Warm!Typed'
      BY <2>2, <3>2 DEF Warm!IInv, Warm!Typed
    <3> QED
      BY <1>1, <2>4, <3>2, <3>3, <3>4, WarmIdleSafe
  <2>5. CASE ~(c # 0 /\ wKept[r] /\ Warm!CacheOf(r) = w)
    <3>1. Warm!Discard(w) /\ wReq' = [wReq EXCEPT ![r] = "releasing"] /\ UNCHANGED <<wUser, wKept, wBusy, wCache>>
      BY <1>1, <2>1, <2>3, <2>5 DEF Warm!Answered
    <3> QED
      BY <1>1, <2>3, <3>1, WarmTurnOver
  <2> QED
    BY <2>4, <2>5
<1> QED
  BY <1>2, <1>3 DEF Warm!Ends

\* The warm process is taken: it was idle, and is its request's alone from now on.
LEMMA WarmReuseSafe == ASSUME Warm!IInv, NEW r \in Warm!Requests, Warm!Reuse(r) PROVE Warm!IInv'
<1>1. PICK w \in Warm!Requests : w = Warm!CacheOf(r) /\ w # 0 /\ ~wBusy[w] /\ wProc[w] = "open"
  <2>1. Warm!CacheOf(r) # 0 /\ ~wBusy[Warm!CacheOf(r)] /\ wProc[Warm!CacheOf(r)] = "open"
    BY DEF Warm!Reuse
  <2>2. Warm!CacheOf(r) \in Warm!Requests
    BY <2>1, WarmPlaceOf DEF Warm!CacheOf, Warm!IInv, Warm!ProcessesSound, Warm!TypeOK
  <2> QED
    BY <2>1, <2>2
<1>2. /\ wReq[r] = "waiting" /\ Warm!Holds(<<"acquire", r>>) /\ wQueue' = Tail(wQueue)
      /\ wArmed' = [wArmed EXCEPT ![w] = FALSE] /\ wBusy' = [wBusy EXCEPT ![w] = TRUE]
      /\ wUser' = [wUser EXCEPT ![r] = w] /\ wKept' = [wKept EXCEPT ![r] = TRUE]
      /\ wReq' = [wReq EXCEPT ![r] = "running"]
      /\ UNCHANGED <<wProc, wTip, wDrop, wCache>>
  BY <1>1 DEF Warm!Reuse
<1>3. PICK h \in Nat : wHeld' = [wHeld EXCEPT ![w] = h]
  <2>1. wHeld' = [wHeld EXCEPT ![w] = IF wHeld[w] = wBase[r] THEN 0 ELSE r]
    BY <1>1 DEF Warm!Reuse
  <2> QED
    BY <2>1, WarmFewSessions
<1>4. \A x \in Warm!Requests : /\ wReq'[x] = IF x = r THEN "running" ELSE wReq[x]
                               /\ wBusy'[x] = IF x = w THEN TRUE ELSE wBusy[x]
                               /\ wUser'[x] = IF x = r THEN w ELSE wUser[x]
                               /\ wHeld'[x] = IF x = w THEN h ELSE wHeld[x]
  BY <1>2, <1>3 DEF Warm!IInv, Warm!Typed, Warm!ProcessesSound, Warm!TypeOK
<1>5. wQueue' \in Seq(Warm!Jobs)
  BY <1>2, WarmPopped DEF Warm!IInv, Warm!Typed, Warm!Holds
<1>6. Warm!Typed' /\ Warm!TypeOK'
  BY <1>2, <1>3, <1>5 DEF Warm!IInv, Warm!Typed, Warm!ProcessesSound, Warm!TypeOK
<1>7. Warm!Locked'
  <2>1. ASSUME NEW x \in Warm!Requests PROVE ~Warm!Working(x)'
    <3>1. CASE x = r
      BY <1>4, <3>1 DEF Warm!Working
    <3>2. CASE x # r
      <4>1. ~Warm!Working(x)
        BY <1>2, <3>2, WarmOneHolds
      <4> QED
        BY <1>4, <3>2, <4>1 DEF Warm!Working
    <3> QED
      BY <3>1, <3>2
  <2> QED
    BY <2>1 DEF Warm!Locked
<1>8. \A x \in Warm!Requests : wReq[x] = "running" => wBusy[wUser[x]] /\ wUser[x] \in Warm!Requests /\ wUser[x] # w /\ x # r
  BY <1>1, <1>2 DEF Warm!IInv, Warm!ProcessesSound, Warm!OneUser, Warm!TypeOK, Warm!Fresh
<1>9. Warm!Fresh'
  <2>1. \A x \in Warm!Requests : wProc'[x] = "none" => ~wBusy'[x]
    BY <1>1, <1>2, <1>4 DEF Warm!IInv, Warm!Fresh
  <2>2. \A x \in Warm!Requests : wReq'[x] \in {"idle", "waiting", "replacing", "evicting", "creating"} => wProc'[x] = "none"
    BY <1>2, <1>4 DEF Warm!IInv, Warm!Fresh
  <2>3. ASSUME NEW x \in Warm!Requests, wReq'[x] = "running" PROVE wUser'[x] # 0 /\ wProc'[wUser'[x]] # "none"
    <3>1. CASE x = r
      BY <1>1, <1>2, <1>4, <3>1
    <3>2. CASE x # r
      <4>1. wReq[x] = "running" /\ wUser'[x] = wUser[x] /\ wProc' = wProc
        BY <1>2, <1>4, <2>3, <3>2
      <4> QED
        BY <4>1 DEF Warm!IInv, Warm!Fresh
    <3> QED
      BY <3>1, <3>2
  <2> QED
    BY <2>1, <2>2, <2>3 DEF Warm!Fresh
<1>10. Warm!OneUser'
  <2>1. ASSUME NEW q \in Warm!Requests, wReq'[q] = "running"
        PROVE  /\ wBusy'[wUser'[q]]
               /\ \A p \in Warm!Requests \ {q} : wReq'[p] = "running" => wUser'[p] # wUser'[q]
    <3>1. CASE q = r
      BY <1>4, <1>8, <3>1
    <3>2. CASE q # r
      <4>1. wReq[q] = "running" /\ wUser'[q] = wUser[q]
        BY <1>4, <2>1, <3>2
      <4>2. wBusy'[wUser'[q]]
        BY <1>4, <1>8, <4>1
      <4>3. \A p \in Warm!Requests \ {q, r} : wReq'[p] = "running" => wReq[p] = "running" /\ wUser'[p] = wUser[p]
        BY <1>4
      <4>4. \A p \in Warm!Requests \ {q, r} : wReq'[p] = "running" => wUser'[p] # wUser'[q]
        BY <4>1, <4>3 DEF Warm!IInv, Warm!ProcessesSound, Warm!OneUser
      <4>5. wUser'[r] # wUser'[q]
        BY <1>4, <1>8, <4>1
      <4> QED
        BY <4>2, <4>4, <4>5
    <3> QED
      BY <3>1, <3>2
  <2> QED
    BY <2>1 DEF Warm!OneUser
<1>11. Warm!TipIsHeld'
  <2>1. \A s \in Warm!Sessions : wCache[s] # 0 => wCache[s] \in Warm!Requests
    BY DEF Warm!IInv, Warm!ProcessesSound, Warm!TypeOK
  <2>2. ASSUME NEW s \in Warm!Sessions, NEW x \in Warm!Requests, x = wCache[s], x # 0,
               ~wBusy'[x], wProc[x] \in {"open", "dead"}, wTip[x] # 0
        PROVE  wHeld'[x] = wTip[x]
    BY <1>4, <2>2 DEF Warm!IInv, Warm!ProcessesSound, Warm!TipIsHeld, Warm!Cached
  <2> QED
    BY <1>2, <2>1, <2>2 DEF Warm!TipIsHeld, Warm!Cached
<1>12. Warm!CacheBounded'
  BY <1>2 DEF Warm!IInv, Warm!ProcessesSound, Warm!CacheBounded, Warm!Cached
<1>13. Warm!NothingForgotten'
  <2>1. SUFFICES ASSUME NEW x \in Warm!Requests, wProc[x] \in {"open", "dead", "killed"}
                 PROVE  \/ \E q \in Warm!Requests : wReq'[q] = "running" /\ wUser'[q] = x
                        \/ wDrop[x] \in {"queued", "stranded"}
                        \/ Warm!InCache(x) /\ ~wBusy'[x]
    BY <1>2 DEF Warm!NothingForgotten, Warm!InCache
  <2>2. CASE x = w
    BY <1>4, <2>2
  <2>3. CASE x # w
    <3>1. \/ \E q \in Warm!Requests : wReq[q] = "running" /\ wUser[q] = x
          \/ wDrop[x] \in {"queued", "stranded"}
          \/ Warm!InCache(x) /\ ~wBusy[x]
      BY <2>1 DEF Warm!IInv, Warm!ProcessesSound, Warm!NothingForgotten
    <3> QED
      BY <1>4, <1>8, <2>3, <3>1
  <2> QED
    BY <2>2, <2>3
<1> QED
  BY <1>6, <1>7, <1>9, <1>10, <1>11, <1>12, <1>13 DEF Warm!IInv, Warm!ProcessesSound

\* Nobody knows a worker that was not created.
LEMMA WarmUnknown ==
  ASSUME Warm!IInv, NEW r \in Warm!Requests, wProc[r] = "none"
  PROVE  /\ \A x \in Warm!Requests : wReq[x] = "running" => wUser[x] # r /\ wUser[x] \in Warm!Requests
         /\ \A s \in Warm!Sessions : wCache[s] # r
<1>1. \A x \in Warm!Requests : wReq[x] = "running" => wUser[x] # r /\ wUser[x] \in Warm!Requests
  BY DEF Warm!IInv, Warm!ProcessesSound, Warm!TypeOK, Warm!Fresh
<1>2. \A s \in Warm!Sessions : wCache[s] # r
  <2>1. r # 0
    BY WarmFewSessions
  <2> QED
    BY <2>1 DEF Warm!IInv, Warm!ProcessesSound, Warm!CacheBounded, Warm!Cached
<1> QED
  BY <1>1, <1>2

\* A process is created for a request that has given up: it is torn down.
LEMMA WarmTooLateSafe ==
  ASSUME Warm!IInv, NEW r \in Warm!Requests, Warm!Created(r), wStop[r] # "no"
  PROVE  Warm!IInv'
<1>1. /\ wReq[r] = "creating" /\ wUser' = [wUser EXCEPT ![r] = r]
      /\ wProc' = [wProc EXCEPT ![r] = "closing"] /\ wReq' = [wReq EXCEPT ![r] = "dropping"]
      /\ UNCHANGED <<wKept, wBusy, wCache, wQueue, wTip, wArmed, wHeld, wDrop>>
  BY DEF Warm!Created
<1>2. /\ wProc[r] = "none" /\ ~wBusy[r]
      /\ \A x \in Warm!Requests : wReq[x] = "running" => wUser[x] # r /\ wUser[x] \in Warm!Requests
      /\ \A s \in Warm!Sessions : wCache[s] # r
  <2>1. wProc[r] = "none" /\ ~wBusy[r]
    BY <1>1 DEF Warm!IInv, Warm!Fresh
  <2> QED
    BY <2>1, WarmUnknown
<1>3. \A x \in Warm!Requests : /\ wReq'[x] = IF x = r THEN "dropping" ELSE wReq[x]
                               /\ wProc'[x] = IF x = r THEN "closing" ELSE wProc[x]
                               /\ wUser'[x] = IF x = r THEN r ELSE wUser[x]
  BY <1>1 DEF Warm!IInv, Warm!Typed, Warm!ProcessesSound, Warm!TypeOK
<1>4. Warm!Typed' /\ Warm!TypeOK'
  BY <1>1 DEF Warm!IInv, Warm!Typed, Warm!ProcessesSound, Warm!TypeOK
<1>5. Warm!Locked'
  <2>1. \A x \in Warm!Requests : Warm!Working(x)' => Warm!Working(x)
    BY <1>1, <1>3 DEF Warm!Working
  <2>2. \A x \in Warm!Requests : x # r => wReq'[x] = wReq[x]
    BY <1>3
  <2>3. wReq'[r] = "dropping"
    BY <1>3
  <2> QED
    BY <1>1, <2>1, <2>2, <2>3 DEF Warm!IInv, Warm!Locked, Warm!Holds
<1>6. Warm!Fresh' /\ Warm!OneUser'
  BY <1>1, <1>2, <1>3 DEF Warm!IInv, Warm!ProcessesSound, Warm!Fresh, Warm!OneUser
<1>7. \A s \in Warm!Sessions : wCache[s] # 0 => wCache[s] \in Warm!Requests /\ wProc'[wCache[s]] = wProc[wCache[s]]
  BY <1>2, <1>3 DEF Warm!IInv, Warm!ProcessesSound, Warm!TypeOK
<1>8. Warm!TipIsHeld' /\ Warm!CacheBounded'
  BY <1>1, <1>7 DEF Warm!IInv, Warm!ProcessesSound, Warm!TipIsHeld, Warm!CacheBounded, Warm!Cached
<1>9. Warm!NothingForgotten'
  BY <1>1, <1>2, <1>3 DEF Warm!IInv, Warm!ProcessesSound, Warm!NothingForgotten, Warm!InCache
<1> QED
  BY <1>4, <1>5, <1>6, <1>8, <1>9 DEF Warm!IInv, Warm!ProcessesSound

\* A process is created, and cached if there is room by now.
LEMMA WarmCreatedSafe ==
  ASSUME Warm!IInv, NEW r \in Warm!Requests, Warm!Created(r), wStop[r] = "no"
  PROVE  Warm!IInv'
<1> DEFINE room == wKept[r] /\ Cardinality(Warm!Cached) < MaxCached
<1>1. /\ wReq[r] = "creating" /\ wUser' = [wUser EXCEPT ![r] = r]
      /\ wProc' = [wProc EXCEPT ![r] = "open"] /\ wBusy' = [wBusy EXCEPT ![r] = TRUE]
      /\ wKept' = [wKept EXCEPT ![r] = room]
      /\ wCache' = IF wKept'[r] THEN [wCache EXCEPT ![Session[r]] = r] ELSE wCache
      /\ wReq' = [wReq EXCEPT ![r] = "running"] /\ wQueue' = Tail(wQueue)
      /\ UNCHANGED <<wTip, wArmed, wHeld, wDrop>>
  BY WarmSize DEF Warm!Created
<1>2. /\ wProc[r] = "none" /\ ~wBusy[r]
      /\ \A x \in Warm!Requests : wReq[x] = "running" => wUser[x] # r /\ wUser[x] \in Warm!Requests
      /\ \A s \in Warm!Sessions : wCache[s] # r
  <2>1. wProc[r] = "none" /\ ~wBusy[r]
    BY <1>1 DEF Warm!IInv, Warm!Fresh
  <2> QED
    BY <2>1, WarmUnknown
<1>3. /\ room \in BOOLEAN
      /\ room => Session[r] \in Warm!Sessions /\ wCache[Session[r]] = 0 /\ Cardinality(Warm!Cached) < MaxCached
      /\ Warm!Holds(<<"acquire", r>>)
  <2>1. Warm!Working(r) /\ wReq[r] # "dropping"
    BY <1>1 DEF Warm!Working
  <2>2. Warm!Holds(<<"acquire", r>>) /\ (wKept[r] => Session[r] # 0 /\ wCache[Session[r]] = 0) /\ wKept[r] \in BOOLEAN
    BY <2>1 DEF Warm!IInv, Warm!Locked, Warm!Typed
  <2> QED
    BY <2>2, WarmPlaceOf
<1>4. wKept'[r] = room /\ wKept' \in [Warm!Requests -> BOOLEAN]
  BY <1>1, <1>3 DEF Warm!IInv, Warm!Typed
<1> HIDE DEF room
<1>5. /\ wCache' \in [Warm!Sessions -> {0} \cup Warm!Requests]
      /\ \A s \in Warm!Sessions : wCache'[s] = IF room /\ s = Session[r] THEN r ELSE wCache[s]
  BY <1>1, <1>3, <1>4 DEF Warm!IInv, Warm!ProcessesSound, Warm!TypeOK
<1>6. \A x \in Warm!Requests : /\ wReq'[x] = IF x = r THEN "running" ELSE wReq[x]
                               /\ wProc'[x] = IF x = r THEN "open" ELSE wProc[x]
                               /\ wBusy'[x] = IF x = r THEN TRUE ELSE wBusy[x]
                               /\ wUser'[x] = IF x = r THEN r ELSE wUser[x]
  BY <1>1 DEF Warm!IInv, Warm!Typed, Warm!ProcessesSound, Warm!TypeOK
<1>7. Warm!Typed' /\ Warm!TypeOK'
  <2>1. wQueue' \in Seq(Warm!Jobs)
    BY <1>1, <1>3, WarmPopped DEF Warm!IInv, Warm!Typed, Warm!Holds
  <2> QED
    BY <1>1, <1>4, <1>5, <2>1 DEF Warm!IInv, Warm!Typed, Warm!ProcessesSound, Warm!TypeOK
<1>8. Warm!Locked'
  <2>1. ASSUME NEW x \in Warm!Requests PROVE ~Warm!Working(x)'
    <3>1. CASE x = r
      BY <1>6, <3>1 DEF Warm!Working
    <3>2. CASE x # r
      <4>1. ~Warm!Working(x)
        BY <1>3, <3>2, WarmOneHolds
      <4> QED
        BY <1>6, <3>2, <4>1 DEF Warm!Working
    <3> QED
      BY <3>1, <3>2
  <2> QED
    BY <2>1 DEF Warm!Locked
<1>9. Warm!Fresh'
  <2>1. \A x \in Warm!Requests : wProc'[x] = "none" => ~wBusy'[x]
    BY <1>6 DEF Warm!IInv, Warm!Fresh
  <2>2. \A x \in Warm!Requests : wReq'[x] \in {"idle", "waiting", "replacing", "evicting", "creating"} => wProc'[x] = "none"
    BY <1>6 DEF Warm!IInv, Warm!Fresh
  <2>3. ASSUME NEW x \in Warm!Requests, wReq'[x] = "running" PROVE wUser'[x] # 0 /\ wProc'[wUser'[x]] # "none"
    <3>1. CASE x = r
      BY <1>6, <3>1, WarmFewSessions
    <3>2. CASE x # r
      <4>1. wReq[x] = "running" /\ wUser'[x] = wUser[x]
        BY <1>6, <2>3, <3>2
      <4>2. wUser[x] \in Warm!Requests /\ wUser[x] # r /\ wProc[wUser[x]] # "none"
        BY <1>2, <4>1 DEF Warm!IInv, Warm!Fresh
      <4> QED
        BY <1>6, <4>1, <4>2, WarmFewSessions
    <3> QED
      BY <3>1, <3>2
  <2> QED
    BY <2>1, <2>2, <2>3 DEF Warm!Fresh
<1>10. Warm!OneUser'
  <2>1. ASSUME NEW q \in Warm!Requests, wReq'[q] = "running"
        PROVE  /\ wBusy'[wUser'[q]]
               /\ \A p \in Warm!Requests \ {q} : wReq'[p] = "running" => wUser'[p] # wUser'[q]
    <3>1. CASE q = r
      BY <1>2, <1>6, <3>1
    <3>2. CASE q # r
      <4>1. wReq[q] = "running" /\ wUser'[q] = wUser[q]
        BY <1>6, <2>1, <3>2
      <4>2. wBusy[wUser[q]] /\ wUser[q] \in Warm!Requests /\ wUser[q] # r
        BY <1>2, <4>1 DEF Warm!IInv, Warm!ProcessesSound, Warm!OneUser
      <4>3. \A p \in Warm!Requests \ {q, r} : wReq'[p] = "running" => wReq[p] = "running" /\ wUser'[p] = wUser[p]
        BY <1>6
      <4>4. \A p \in Warm!Requests \ {q, r} : wReq'[p] = "running" => wUser'[p] # wUser'[q]
        BY <4>1, <4>3 DEF Warm!IInv, Warm!ProcessesSound, Warm!OneUser
      <4>5. wUser'[r] # wUser'[q]
        BY <1>6, <4>1, <4>2
      <4> QED
        BY <1>6, <4>1, <4>2, <4>4, <4>5
    <3> QED
      BY <3>1, <3>2
  <2> QED
    BY <2>1 DEF Warm!OneUser
<1>11. \A s \in Warm!Sessions : wCache'[s] # 0 => /\ wCache'[s] \in Warm!Requests
                                                  /\ wCache'[s] = r \/ (wCache'[s] = wCache[s] /\ wProc'[wCache'[s]] = wProc[wCache[s]] /\ wBusy'[wCache'[s]] = wBusy[wCache[s]])
  <2>1. \A s \in Warm!Sessions : wCache[s] # 0 => wCache[s] \in Warm!Requests /\ wCache[s] # r
    BY <1>2 DEF Warm!IInv, Warm!ProcessesSound, Warm!TypeOK
  <2>2. ASSUME NEW s \in Warm!Sessions, wCache'[s] # 0
        PROVE  /\ wCache'[s] \in Warm!Requests
               /\ \/ wCache'[s] = r
                  \/ wCache'[s] = wCache[s] /\ wProc'[wCache'[s]] = wProc[wCache[s]] /\ wBusy'[wCache'[s]] = wBusy[wCache[s]]
    <3>1. CASE wCache'[s] = r
      BY <3>1
    <3>2. CASE wCache'[s] # r
      <4>1. wCache'[s] = wCache[s]
        BY <1>5, <3>2
      <4>2. wCache[s] \in Warm!Requests /\ wCache[s] # r
        BY <2>1, <2>2, <4>1
      <4>3. wProc'[wCache[s]] = wProc[wCache[s]] /\ wBusy'[wCache[s]] = wBusy[wCache[s]]
        BY <1>6, <4>2
      <4> QED
        BY <4>1, <4>2, <4>3
    <3> QED
      BY <3>1, <3>2
  <2> QED
    BY <2>2
<1>12. Warm!TipIsHeld'
  <2>1. ASSUME NEW s \in Warm!Sessions, wCache'[s] # 0, ~wBusy'[wCache'[s]], wProc'[wCache'[s]] \in {"open", "dead"},
               wTip[wCache'[s]] # 0
        PROVE  wHeld[wCache'[s]] = wTip[wCache'[s]]
    <3>1. wCache'[s] # r
      BY <1>6, <2>1
    <3>2. wCache'[s] = wCache[s] /\ wProc'[wCache'[s]] = wProc[wCache[s]] /\ wBusy'[wCache'[s]] = wBusy[wCache[s]]
      BY <1>11, <2>1, <3>1
    <3> QED
      BY <2>1, <3>2 DEF Warm!IInv, Warm!ProcessesSound, Warm!TipIsHeld, Warm!Cached
  <2> QED
    BY <1>1, <2>1 DEF Warm!TipIsHeld, Warm!Cached
<1>13. Warm!CacheBounded'
  <2>1. ASSUME NEW s \in Warm!Sessions, wCache'[s] # 0
        PROVE  Session[wCache'[s]] = s /\ wProc'[wCache'[s]] \in {"open", "dead", "killed"}
    <3>1. CASE wCache'[s] = r
      <4>1. s = Session[r]
        BY <1>2, <1>5, <3>1
      <4> QED
        BY <1>6, <3>1, <4>1
    <3>2. CASE wCache'[s] # r
      <4>1. wCache'[s] = wCache[s] /\ wProc'[wCache'[s]] = wProc[wCache[s]]
        BY <1>11, <2>1, <3>2
      <4> QED
        BY <2>1, <4>1 DEF Warm!IInv, Warm!ProcessesSound, Warm!CacheBounded, Warm!Cached
    <3> QED
      BY <3>1, <3>2
  <2>2. IsFiniteSet(Warm!Cached) /\ Cardinality(Warm!Cached) \in Nat /\ Cardinality(Warm!Cached) <= MaxCached
    <3>1. IsFiniteSet(Warm!Cached)
      BY WarmFewSessions, FS_Subset DEF Warm!Cached
    <3> QED
      BY WarmSize, <3>1, FS_CardinalityType DEF Warm!IInv, Warm!ProcessesSound, Warm!CacheBounded
  <2>3. CASE room
    <3>1. Warm!Cached' = Warm!Cached \cup {Session[r]} /\ Session[r] \notin Warm!Cached
      <4>1. r # 0
        BY WarmFewSessions
      <4> QED
        BY <1>3, <1>5, <2>3, <4>1 DEF Warm!Cached
    <3>2. Cardinality(Warm!Cached') = Cardinality(Warm!Cached) + 1
      BY <2>2, <3>1, FS_AddElement
    <3>3. Cardinality(Warm!Cached) < MaxCached
      BY <1>3, <2>3
    <3>4. Cardinality(Warm!Cached') <= MaxCached
      BY <2>2, <3>2, <3>3, WarmAssumption
    <3> QED
      BY WarmSize, <2>1, <3>4 DEF Warm!CacheBounded, Warm!Cached
  <2>4. CASE ~room
    <3>1. Warm!Cached' = Warm!Cached
      BY <1>5, <2>4 DEF Warm!Cached
    <3> QED
      BY WarmSize, <2>1, <2>2, <3>1 DEF Warm!CacheBounded, Warm!Cached
  <2> QED
    BY <2>3, <2>4
<1>14. Warm!NothingForgotten'
  <2>1. SUFFICES ASSUME NEW x \in Warm!Requests, wProc'[x] \in {"open", "dead", "killed"}
                 PROVE  \/ \E q \in Warm!Requests : wReq'[q] = "running" /\ wUser'[q] = x
                        \/ wDrop[x] \in {"queued", "stranded"}
                        \/ (\E s \in Warm!Sessions : wCache'[s] = x) /\ ~wBusy'[x]
    BY <1>1 DEF Warm!NothingForgotten, Warm!InCache
  <2>2. CASE x = r
    BY <1>6, <2>2
  <2>3. CASE x # r
    <3>1. \/ \E q \in Warm!Requests : wReq[q] = "running" /\ wUser[q] = x
          \/ wDrop[x] \in {"queued", "stranded"}
          \/ Warm!InCache(x) /\ ~wBusy[x]
      BY <1>6, <2>1, <2>3 DEF Warm!IInv, Warm!ProcessesSound, Warm!NothingForgotten
    <3>2. CASE Warm!InCache(x) /\ ~wBusy[x]
      <4>1. PICK s \in Warm!Sessions : wCache[s] = x
        BY <3>2 DEF Warm!InCache
      <4>2. wCache[s] # 0
        BY <4>1, WarmFewSessions
      <4>3. wCache'[s] = x
        BY <1>3, <1>5, <4>1, <4>2
      <4> QED
        BY <1>6, <2>3, <3>2, <4>3
    <3>3. CASE \E q \in Warm!Requests : wReq[q] = "running" /\ wUser[q] = x
      BY <1>1, <1>6, <3>3
    <3> QED
      BY <3>1, <3>2, <3>3
  <2> QED
    BY <2>2, <2>3
<1> QED
  BY <1>7, <1>8, <1>9, <1>10, <1>12, <1>13, <1>14 DEF Warm!IInv, Warm!ProcessesSound

\* At the start there is nothing.
LEMMA WarmWarmInit == Warm!Init => Warm!IInv
<1> SUFFICES ASSUME Warm!Init PROVE Warm!IInv
  OBVIOUS
<1>1. Warm!Cached = {} /\ Cardinality({}) = 0
  BY FS_EmptySet DEF Warm!Init, Warm!Cached
<1>2. Warm!CacheBounded /\ Warm!TipIsHeld
  BY WarmSize, <1>1, WarmAssumption DEF Warm!CacheBounded, Warm!TipIsHeld
<1>3. Warm!Typed /\ Warm!TypeOK
  BY DEF Warm!Init, Warm!Typed, Warm!TypeOK
<1> QED
  BY <1>2, <1>3 DEF Warm!Init, Warm!IInv, Warm!Locked, Warm!Fresh, Warm!Working, Warm!ProcessesSound,
     Warm!OneUser, Warm!NothingForgotten

\* One request at a time in a process, a tip that names what the process holds, a
\* cache within its limit, and no process forgotten: for any requests of any
\* sessions, at any capacity.
THEOREM ProcessesAreSound == Warm!Spec => []ProcessesSound
<1>1. Warm!IInv /\ UNCHANGED Warm!vars => Warm!IInv'
  BY DEF Warm!vars, Warm!workers, Warm!IInv, Warm!Typed, Warm!Locked, Warm!Fresh, Warm!Working,
     Warm!Holds, Warm!ProcessesSound, Warm!TypeOK, Warm!OneUser, Warm!TipIsHeld,
         Warm!CacheBounded, Warm!Cached, Warm!NothingForgotten, Warm!InCache
<1>2. Warm!IInv /\ Warm!Next => Warm!IInv'
  <2>1. ASSUME Warm!IInv, NEW r \in Warm!Requests, Warm!Acquire(r) PROVE Warm!IInv'
    BY <2>1, WarmRoomSafe, WarmPassOnSafe, WarmTakeOutSafe, WarmReuseSafe, WarmTooLateSafe,
       WarmCreatedSafe DEF Warm!Acquire
  <2> QED
    BY <2>1, WarmCallSafe, WarmNoticeSafe, WarmLeaveSafe, WarmReleasedSafe, WarmStrandedSafe,
       WarmHurtSafe, WarmDiscardSafe, WarmExpireSafe, WarmCloseSafe,
       WarmEndsSafe DEF Warm!Next
<1>3. Warm!IInv => ProcessesSound
  BY DEF ProcessesSound, Warm!IInv
<1> QED
  BY <1>1, <1>2, <1>3, WarmWarmInit, PTL DEF Warm!Spec

-----------------------------------------------------------------------------
(* StatusProbe. The shared login check: whoever waits for it gets its      *)
(* answer, and it is stopped by the last who leaves, for any finite set of *)
(* callers.                                                                *)

\* StatusProbe counts with the same operator.
LEMMA ProbeSize == \A S : Probe!Cardinality(S) = Cardinality(S)
BY DEF Probe!Cardinality, Cardinality

-----------------------------------------------------------------------------
(* The shared login check.                                                 *)

\* Those who wait for a probe are some of the callers.
LEMMA ProbeFewWait ==
  ASSUME NEW S \in SUBSET Callers
  PROVE  IsFiniteSet(S) /\ Cardinality(S) \in 0 .. Cardinality(Callers)
<1>1. IsFiniteSet(S) /\ Cardinality(S) <= Cardinality(Callers)
  BY ProbeAssumption, FS_Subset
<1>2. Cardinality(S) \in Nat /\ Cardinality(Callers) \in Nat
  BY <1>1, ProbeAssumption, FS_CardinalityType
<1> QED
  BY <1>1, <1>2

\* One caller more, or one less, of those who wait.
LEMMA ProbeWaitOneMore ==
  ASSUME NEW S \in SUBSET Callers, NEW c \in Callers \ S
  PROVE  Cardinality(S \cup {c}) = Cardinality(S) + 1
<1>1. IsFiniteSet(S)
  BY ProbeFewWait
<1> QED
  BY <1>1, FS_AddElement
LEMMA ProbeWaitOneLess ==
  ASSUME NEW S \in SUBSET Callers, NEW c \in S
  PROVE  Cardinality(S \ {c}) = Cardinality(S) - 1 /\ Cardinality(S) > 0
<1>1. IsFiniteSet(S)
  BY ProbeFewWait
<1>2. Cardinality(S \ {c}) = Cardinality(S) - 1
  BY <1>1, FS_RemoveElement
<1>3. Cardinality(S) \in Nat /\ Cardinality(S \ {c}) \in Nat
  BY ProbeFewWait
<1> QED
  BY <1>2, <1>3

\* A caller less, and still some.
LEMMA ProbeOneOrMore == \A n \in Nat : n > 0 /\ n - 1 # 0 => n - 1 > 0
OBVIOUS

\* The counter of a probe is that of those who wait for it; this is all that its
\* type and its meaning need.
LEMMA ProbeCounted ==
  ASSUME Probe!IInv, NEW p \in Callers
  PROVE  /\ pWaiters[p] = Cardinality(Probe!Waiting(p)) /\ pWaiters[p] \in Nat
         /\ Probe!Waiting(p) \in SUBSET Callers /\ Cardinality(Probe!Waiting(p)) \in Nat
         /\ pWaiters[p] = 0 <=> Probe!Waiting(p) = {}
<1>1. Probe!Waiting(p) \in SUBSET Callers /\ pWaiters[p] = Cardinality(Probe!Waiting(p))
  BY ProbeSize DEF Probe!IInv, Probe!ProbeSound, Probe!OneProbe, Probe!Waiting
<1>2. IsFiniteSet(Probe!Waiting(p)) /\ Cardinality(Probe!Waiting(p)) \in Nat
  BY <1>1, ProbeFewWait
<1>3. Cardinality(Probe!Waiting(p)) = 0 <=> Probe!Waiting(p) = {}
  BY <1>2, FS_EmptySet
<1> QED
  BY <1>1, <1>2, <1>3

\* What is left to show of the counters when all are known to be exact.
LEMMA ProbeExactIsTyped ==
  ASSUME DOMAIN pWaiters' = Callers, pWaiters' = [p \in Callers |-> pWaiters'[p]],
         \A p \in Callers : pWaiters'[p] = Cardinality(Probe!Waiting(p)')
  PROVE  pWaiters' \in [Callers -> 0 .. Cardinality(Callers)]
<1>1. ASSUME NEW p \in Callers PROVE pWaiters'[p] \in 0 .. Cardinality(Callers)
  <2>1. Probe!Waiting(p)' \in SUBSET Callers
    BY DEF Probe!Waiting
  <2> QED
    BY <2>1, ProbeFewWait
<1> QED
  BY <1>1

\* Steps that move neither a caller into or out of waiting nor a counter.
LEMMA ProbeWaitersKept ==
  ASSUME Probe!IInv, UNCHANGED <<pOn, pWaiters>>,
         \A c \in Callers : pCaller'[c] = "waiting" <=> pCaller[c] = "waiting"
  PROVE  /\ \A p \in Callers : pWaiters'[p] = Cardinality({c \in Callers : pCaller'[c] = "waiting" /\ pOn'[c] = p})
         /\ pWaiters' \in [Callers -> 0 .. Cardinality(Callers)]
<1>1. ASSUME NEW p \in Callers
      PROVE  {c \in Callers : pCaller'[c] = "waiting" /\ pOn'[c] = p} = {c \in Callers : pCaller[c] = "waiting" /\ pOn[c] = p}
  OBVIOUS
<1> QED
  BY ProbeSize, <1>1 DEF Probe!IInv, Probe!ProbeSound, Probe!OneProbe, Probe!TypeOK

\* An answer that was at hand already.
LEMMA ProbeAtHandSafe ==
  ASSUME Probe!IInv, NEW c \in Callers, Probe!FromReady(c) \/ Probe!FromCache(c)
  PROVE  Probe!IInv'
<1>1. pCaller[c] = "idle" /\ pCaller' = [pCaller EXCEPT ![c] = "ready"] /\ UNCHANGED <<pOn, pShared, pProbe, pWaiters, pCut, pStatus>>
  BY DEF Probe!FromReady, Probe!FromCache
<1>2. pReady' \in BOOLEAN /\ (pReady' => pStatus = "in" \/ pReady)
  BY DEF Probe!FromReady, Probe!FromCache, Probe!IInv, Probe!Typed
<1>3. \A x \in Callers : /\ pCaller'[x] = "waiting" <=> pCaller[x] = "waiting"
                         /\ pCaller'[x] = "idle" => pCaller[x] = "idle"
  BY <1>1 DEF Probe!IInv, Probe!Typed
<1>4. Probe!OneProbe' /\ pWaiters' \in [Callers -> 0 .. Cardinality(Callers)]
  BY <1>1, <1>3, ProbeWaitersKept DEF Probe!IInv, Probe!ProbeSound, Probe!OneProbe, Probe!Asking
<1>5. Probe!Typed' /\ Probe!Linked' /\ Probe!Cuts' /\ Probe!NobodyElseStops' /\ Probe!TypeOK' /\ Probe!CachedWasSaid'
  BY <1>1, <1>2, <1>3, <1>4 DEF Probe!IInv, Probe!Typed, Probe!Linked, Probe!Cuts, Probe!ProbeSound,
     Probe!NobodyElseStops, Probe!TypeOK, Probe!CachedWasSaid, Probe!Asking
<1> QED
  BY <1>4, <1>5 DEF Probe!IInv, Probe!ProbeSound

\* A caller joins the probe in flight or starts the one that it waits for.
LEMMA ProbeJoinSafe == ASSUME Probe!IInv, NEW c \in Callers, Probe!Join(c) PROVE Probe!IInv'
<1>0. PICK p \in Callers : p = pShared' /\ p = IF pShared = "none" THEN c ELSE pShared
  BY DEF Probe!Join, Probe!IInv, Probe!ProbeSound, Probe!TypeOK
<1>1. /\ pCaller[c] = "idle" /\ pCaller' = [pCaller EXCEPT ![c] = "waiting"]
      /\ pOn' = [pOn EXCEPT ![c] = p] /\ pWaiters' = [pWaiters EXCEPT ![p] = @ + 1]
      /\ UNCHANGED <<pCut, pStatus, pReady>>
  BY <1>0 DEF Probe!Join
<1>2. /\ pProbe'[p] \in {"first", "pause", "second"} /\ ~pCut[p]
      /\ \A x \in Callers : x # p \/ x # c \/ pProbe[x] # "none" => pProbe'[x] = pProbe[x]
      /\ pProbe' \in [Callers -> {"none", "first", "pause", "second", "stopped", "in", "out", "unsure"}]
  <2>1. CASE pShared = "none"
    <3>1. p = c /\ pProbe' = [pProbe EXCEPT ![c] = "first"] /\ pProbe[c] = "none"
      BY <1>0, <1>1, <2>1 DEF Probe!Join, Probe!IInv, Probe!Linked
    <3>2. ~pCut[c]
      BY <1>1, <3>1 DEF Probe!IInv, Probe!Cuts
    <3> QED
      BY <1>1, <2>1, <3>1, <3>2 DEF Probe!IInv, Probe!Typed
  <2>2. CASE pShared # "none"
    <3>1. pProbe' = pProbe /\ p = pShared
      BY <1>0, <2>2 DEF Probe!Join
    <3> QED
      BY <2>2, <3>1 DEF Probe!IInv, Probe!Typed, Probe!Linked, Probe!Asking
  <2> QED
    BY <2>1, <2>2
<1>3. \A x \in Callers : /\ pCaller'[x] = IF x = c THEN "waiting" ELSE pCaller[x]
                         /\ pOn'[x] = IF x = c THEN p ELSE pOn[x]
                         /\ pWaiters'[x] = IF x = p THEN pWaiters[x] + 1 ELSE pWaiters[x]
  BY <1>1, <1>2 DEF Probe!IInv, Probe!Typed, Probe!ProbeSound, Probe!TypeOK
<1>4. ASSUME NEW q \in Callers PROVE pWaiters'[q] = Cardinality(Probe!Waiting(q)')
  <2>1. CASE q = p
    <3>1. Probe!Waiting(q)' = Probe!Waiting(q) \cup {c} /\ c \notin Probe!Waiting(q)
      BY <1>1, <1>3, <2>1 DEF Probe!Waiting
    <3> QED
      BY <1>3, <2>1, <3>1, ProbeCounted, ProbeWaitOneMore
  <2>2. CASE q # p
    <3>1. Probe!Waiting(q)' = Probe!Waiting(q)
      BY <1>1, <1>3, <2>2 DEF Probe!Waiting
    <3> QED
      BY <1>3, <2>2, <3>1, ProbeCounted
  <2> QED
    BY <2>1, <2>2
<1>5. pWaiters' \in [Callers -> 0 .. Cardinality(Callers)]
  BY <1>1, <1>4, ProbeExactIsTyped DEF Probe!IInv, Probe!ProbeSound, Probe!TypeOK
<1>6. Probe!OneProbe'
  <2>1. ASSUME NEW q \in Callers, Probe!Asking(q)', ~pCut'[q] PROVE q = p /\ pWaiters'[q] > 0
    <3>1. q # p => Probe!Asking(q) /\ ~pCut[q]
      BY <1>1, <1>2, <2>1 DEF Probe!Asking
    <3>2. q = p
      <4>1. q # p => q = pShared
        BY <3>1 DEF Probe!IInv, Probe!ProbeSound, Probe!OneProbe
      <4>2. q = pShared => p = pShared
        BY <1>0, ProbeAssumption
      <4> QED
        BY <4>1, <4>2
    <3>3. pWaiters[q] \in Nat
      BY ProbeCounted
    <3> QED
      BY <1>3, <3>2, <3>3
  <2> QED
    BY ProbeSize, <1>0, <1>4, <2>1 DEF Probe!OneProbe, Probe!Waiting
<1>7. Probe!NobodyElseStops' /\ Probe!Linked' /\ Probe!Cuts'
  <2>1. ASSUME NEW x \in Callers, pCaller'[x] = "waiting"
        PROVE  pOn'[x] # "none" /\ pProbe'[pOn'[x]] # "none" /\ ~pCut'[pOn'[x]]
    <3>1. CASE x = c
      BY <1>1, <1>2, <1>3, <3>1, ProbeAssumption
    <3>2. CASE x # c
      <4>1. pCaller[x] = "waiting" /\ pOn'[x] = pOn[x] /\ pOn[x] \in Callers
        BY <1>3, <2>1, <3>2 DEF Probe!IInv, Probe!Linked, Probe!ProbeSound, Probe!TypeOK
      <4>2. pOn[x] # "none" /\ pProbe[pOn[x]] # "none" /\ ~pCut[pOn[x]]
        BY <4>1 DEF Probe!IInv, Probe!Linked, Probe!ProbeSound, Probe!NobodyElseStops
      <4> QED
        BY <1>1, <1>2, <4>1, <4>2
    <3> QED
      BY <3>1, <3>2
  <2>2. ASSUME NEW x \in Callers, pCaller'[x] = "idle" PROVE pProbe'[x] = "none"
    <3>1. x # c /\ pCaller[x] = "idle"
      BY <1>3, <2>2
    <3> QED
      BY <1>2, <3>1 DEF Probe!IInv, Probe!Linked
  <2>3. Probe!Cuts'
    BY <1>1, <1>2 DEF Probe!IInv, Probe!Cuts
  <2> QED
    BY <1>0, <1>1, <1>2, <2>1, <2>2, <2>3 DEF Probe!NobodyElseStops, Probe!Linked, Probe!Asking
<1>8. Probe!TypeOK' /\ Probe!Typed' /\ Probe!CachedWasSaid'
  BY ProbeSize, <1>0, <1>1, <1>2, <1>3, <1>5 DEF Probe!IInv, Probe!Typed, Probe!ProbeSound,
     Probe!TypeOK, Probe!CachedWasSaid
<1> QED
  BY <1>6, <1>7, <1>8 DEF Probe!IInv, Probe!ProbeSound

\* A caller that leaves: one less of those who wait, and the last one stops the
\* probe if it is the shared one.
LEMMA ProbeLeaveSafe == ASSUME Probe!IInv, NEW c \in Callers, Probe!Leave(c) PROVE Probe!IInv'
<1>0. PICK p \in Callers : p = pOn[c] /\ pProbe[p] # "none" /\ ~pCut[p]
  BY DEF Probe!Leave, Probe!IInv, Probe!Linked, Probe!ProbeSound, Probe!TypeOK, Probe!NobodyElseStops
<1>1. /\ pCaller[c] = "waiting" /\ pCaller' = [pCaller EXCEPT ![c] = "aborted"]
      /\ pWaiters' = [pWaiters EXCEPT ![p] = @ - 1]
      /\ UNCHANGED <<pOn, pProbe, pStatus, pReady>>
  BY <1>0 DEF Probe!Leave
<1>2. IF pWaiters'[p] = 0 /\ pShared = p
      THEN pShared' = "none" /\ pCut' = [pCut EXCEPT ![p] = TRUE]
      ELSE UNCHANGED <<pShared, pCut>>
  BY <1>0 DEF Probe!Leave, Probe!LastOut
<1>3. \A x \in Callers : /\ pCaller'[x] = IF x = c THEN "aborted" ELSE pCaller[x]
                         /\ pWaiters'[x] = IF x = p THEN pWaiters[x] - 1 ELSE pWaiters[x]
                         /\ pCut'[x] = (pCut[x] \/ (x = p /\ pWaiters'[p] = 0 /\ pShared = p))
  BY <1>1, <1>2 DEF Probe!IInv, Probe!Typed, Probe!ProbeSound, Probe!TypeOK
<1>4. ASSUME NEW q \in Callers PROVE pWaiters'[q] = Cardinality(Probe!Waiting(q)')
  <2>1. CASE q = p
    <3>1. Probe!Waiting(q)' = Probe!Waiting(q) \ {c} /\ c \in Probe!Waiting(q)
      BY <1>0, <1>1, <1>3, <2>1 DEF Probe!Waiting
    <3> QED
      BY <1>3, <2>1, <3>1, ProbeCounted, ProbeWaitOneLess
  <2>2. CASE q # p
    <3>1. Probe!Waiting(q)' = Probe!Waiting(q)
      BY <1>0, <1>1, <1>3, <2>2 DEF Probe!Waiting
    <3> QED
      BY <1>3, <2>2, <3>1, ProbeCounted
  <2> QED
    BY <2>1, <2>2
<1>5. pWaiters' \in [Callers -> 0 .. Cardinality(Callers)]
  BY <1>1, <1>4, ProbeExactIsTyped DEF Probe!IInv, Probe!ProbeSound, Probe!TypeOK
<1>6. pWaiters'[p] = 0 => Probe!Waiting(p)' = {}
  <2>1. Probe!Waiting(p)' \in SUBSET Callers
    BY DEF Probe!Waiting
  <2>2. IsFiniteSet(Probe!Waiting(p)')
    BY <2>1, ProbeFewWait
  <2> QED
    BY <1>4, <2>2, FS_EmptySet
<1>7. Probe!OneProbe'
  <2>1. ASSUME NEW q \in Callers, Probe!Asking(q)', ~pCut'[q] PROVE q = pShared' /\ pWaiters'[q] > 0
    <3>1. Probe!Asking(q) /\ ~pCut[q]
      BY <1>1, <1>3, <2>1 DEF Probe!Asking
    <3>2. q = pShared /\ pWaiters[q] > 0
      BY <3>1 DEF Probe!IInv, Probe!ProbeSound, Probe!OneProbe
    <3>3. pWaiters[q] \in Nat
      BY ProbeCounted
    <3>4. CASE q = p
      <4>1. pWaiters'[p] # 0
        BY <1>3, <2>1, <3>2, <3>4
      <4>2. pWaiters'[p] = pWaiters[p] - 1 /\ UNCHANGED pShared
        BY <1>2, <1>3, <4>1
      <4>3. PICK n \in Nat : n = pWaiters[p] /\ n > 0
        BY <3>2, <3>3, <3>4
      <4>4. n - 1 # 0 => n - 1 > 0
        BY <4>3, ProbeOneOrMore
      <4>5. pWaiters'[p] = n - 1
        BY <4>2, <4>3
      <4>6. pWaiters'[q] > 0
        BY <3>4, <4>1, <4>4, <4>5
      <4> QED
        BY <3>2, <4>2, <4>6
    <3>5. CASE q # p
      BY <1>2, <1>3, <3>2, <3>5
    <3> QED
      BY <3>4, <3>5
  <2> QED
    BY ProbeSize, <1>4, <2>1 DEF Probe!OneProbe, Probe!Waiting
<1>8. Probe!NobodyElseStops' /\ Probe!Linked' /\ Probe!Cuts'
  <2>1. ASSUME NEW x \in Callers, pCaller'[x] = "waiting"
        PROVE  pOn'[x] # "none" /\ pProbe'[pOn'[x]] # "none" /\ ~pCut'[pOn'[x]]
    <3>1. x # c /\ pCaller[x] = "waiting" /\ pOn[x] # "none" /\ pProbe[pOn[x]] # "none" /\ ~pCut[pOn[x]]
      BY <1>3, <2>1 DEF Probe!IInv, Probe!Linked, Probe!ProbeSound, Probe!NobodyElseStops
    <3>2. pOn[x] \in Callers
      BY <3>1 DEF Probe!IInv, Probe!ProbeSound, Probe!TypeOK
    <3>3. x \in Probe!Waiting(pOn[x])'
      BY <1>1, <2>1 DEF Probe!Waiting
    <3> QED
      BY <1>1, <1>3, <1>6, <3>1, <3>2, <3>3
  <2>2. \A x \in Callers : pCaller'[x] = "idle" => pProbe'[x] = "none"
    BY <1>1, <1>3 DEF Probe!IInv, Probe!Linked
  <2>3. Probe!Cuts'
    BY <1>0, <1>1, <1>3 DEF Probe!IInv, Probe!Cuts
  <2>4. pShared' # "none" => Probe!Asking(pShared') /\ ~pCut'[pShared']
    <3>1. pShared' # "none" => pShared' = pShared /\ pShared \in Callers /\ ~(pWaiters'[p] = 0 /\ pShared = p)
      BY <1>2 DEF Probe!IInv, Probe!ProbeSound, Probe!TypeOK
    <3> QED
      BY <1>3, <3>1 DEF Probe!IInv, Probe!Linked
  <2> QED
    BY <1>1, <2>1, <2>2, <2>3, <2>4 DEF Probe!NobodyElseStops, Probe!Linked, Probe!Asking
<1>9. Probe!TypeOK' /\ Probe!Typed' /\ Probe!CachedWasSaid'
  BY ProbeSize, <1>0, <1>1, <1>2, <1>5 DEF Probe!IInv, Probe!Typed, Probe!ProbeSound, Probe!TypeOK,
     Probe!CachedWasSaid
<1> QED
  BY <1>7, <1>8, <1>9 DEF Probe!IInv, Probe!ProbeSound

\* The probe moves on; the counters stay.  It is shared no more when it ends.
LEMMA ProbeProbeSafe ==
  ASSUME Probe!IInv, NEW p \in Callers, Probe!Stop(p) \/ Probe!Unsure(p) \/ Probe!Retry(p) \/ Probe!Answer(p)
  PROVE  Probe!IInv'
<1>1. /\ Probe!Asking(p) /\ UNCHANGED <<pCaller, pOn, pWaiters, pCut, pReady>>
      /\ \E s \in {"first", "pause", "second", "stopped", "in", "out", "unsure"} :
            /\ pProbe' = [pProbe EXCEPT ![p] = s]
            /\ s \in {"first", "pause", "second"} \/ pCut[p] => pShared' = pShared
            /\ s \notin {"first", "pause", "second"} /\ ~pCut[p] => pShared' = IF pShared = p THEN "none" ELSE pShared
            /\ s = "in" \/ pStatus' = pStatus
      /\ pStatus' \in {"none", "in"}
  <2>1. CASE Probe!Stop(p) \/ Probe!Retry(p)
    BY <2>1 DEF Probe!Stop, Probe!Retry, Probe!Asking, Probe!IInv, Probe!Typed
  <2>2. CASE Probe!Unsure(p)
    <3>1. pProbe[p] \in {"first", "second"} /\ pProbe' = [pProbe EXCEPT ![p] = IF pProbe[p] = "first" THEN "pause" ELSE "unsure"]
      BY <2>2 DEF Probe!Unsure
    <3>2. pProbe'[p] = IF pProbe[p] = "first" THEN "pause" ELSE "unsure"
      BY <3>1 DEF Probe!IInv, Probe!Typed
    <3> QED
      BY <2>2, <3>1, <3>2 DEF Probe!Unsure, Probe!Asking, Probe!IInv, Probe!Typed
  <2>3. CASE Probe!Answer(p)
    BY <2>3 DEF Probe!Answer, Probe!Kept, Probe!Asking, Probe!IInv, Probe!Typed
  <2> QED
    BY <2>1, <2>2, <2>3
<1>2. PICK s \in {"first", "pause", "second", "stopped", "in", "out", "unsure"} :
            /\ pProbe' = [pProbe EXCEPT ![p] = s]
            /\ s \in {"first", "pause", "second"} \/ pCut[p] => pShared' = pShared
            /\ s \notin {"first", "pause", "second"} /\ ~pCut[p] => pShared' = IF pShared = p THEN "none" ELSE pShared
            /\ s = "in" \/ pStatus' = pStatus
  BY <1>1
<1>3. \A x \in Callers : pProbe'[x] = IF x = p THEN s ELSE pProbe[x]
  BY <1>2 DEF Probe!IInv, Probe!Typed
<1>4. pProbe[p] # "none" /\ pProbe[p] # "in" /\ (pCut[p] => pShared # p)
  <2>1. p # "none"
    BY ProbeAssumption
  <2>2. pCut[p] => pShared # p
    BY <2>1 DEF Probe!IInv, Probe!Linked
  <2> QED
    BY <1>1, <2>2 DEF Probe!Asking
<1>5. /\ pWaiters' \in [Callers -> 0 .. Cardinality(Callers)]
      /\ \A q \in Callers : pWaiters'[q] = Cardinality({c \in Callers : pCaller'[c] = "waiting" /\ pOn'[c] = q})
  BY <1>1, ProbeWaitersKept
<1>6. Probe!OneProbe'
  <2>1. ASSUME NEW q \in Callers, Probe!Asking(q)', ~pCut'[q] PROVE q = pShared' /\ pWaiters'[q] > 0
    <3>1. Probe!Asking(q) /\ ~pCut[q]
      BY <1>1, <1>3, <2>1 DEF Probe!Asking
    <3>2. q = pShared /\ pWaiters[q] > 0
      BY <3>1 DEF Probe!IInv, Probe!ProbeSound, Probe!OneProbe
    <3>3. q = p => s \in {"first", "pause", "second"}
      BY <1>3, <2>1 DEF Probe!Asking
    <3> QED
      BY <1>1, <1>2, <3>1, <3>2, <3>3
  <2> QED
    BY ProbeSize, <1>5, <2>1 DEF Probe!OneProbe
<1>7. Probe!NobodyElseStops' /\ Probe!Cuts'
  BY <1>1, <1>3 DEF Probe!IInv, Probe!ProbeSound, Probe!NobodyElseStops, Probe!Cuts
<1>8. Probe!Linked'
  <2>1. ASSUME pShared' # "none" PROVE Probe!Asking(pShared') /\ Probe!Asking(pShared)' /\ pShared' = pShared /\ ~pCut'[pShared']
    <3>1. pShared' = pShared /\ pShared \in Callers
      BY <1>2, <2>1 DEF Probe!IInv, Probe!ProbeSound, Probe!TypeOK
    <3>2. pShared = p => s \in {"first", "pause", "second"}
      BY <1>2, <1>4, <2>1, <3>1
    <3> QED
      BY <1>1, <1>3, <2>1, <3>1, <3>2 DEF Probe!IInv, Probe!Linked, Probe!Asking
  <2>2. ASSUME NEW x \in Callers, pCaller'[x] = "waiting" PROVE pOn'[x] # "none" /\ pProbe'[pOn'[x]] # "none"
    <3>1. pOn[x] \in Callers /\ pOn[x] # "none" /\ pProbe[pOn[x]] # "none"
      BY <1>1, <2>2 DEF Probe!IInv, Probe!Linked, Probe!ProbeSound, Probe!TypeOK
    <3> QED
      BY <1>1, <1>3, <3>1
  <2>3. \A x \in Callers : pCaller'[x] = "idle" => pProbe'[x] = "none"
    BY <1>1, <1>3, <1>4 DEF Probe!IInv, Probe!Linked
  <2> QED
    BY <2>1, <2>2, <2>3 DEF Probe!Linked, Probe!Asking
<1>9. Probe!TypeOK' /\ Probe!Typed' /\ Probe!CachedWasSaid'
  <2>1. \A x \in Callers : pProbe[x] = "in" => pProbe'[x] = "in"
    BY <1>3, <1>4
  <2>2. s = "in" => pProbe'[p] = "in"
    BY <1>3
  <2>3. Probe!CachedWasSaid'
    BY <1>1, <1>2, <2>1, <2>2 DEF Probe!IInv, Probe!ProbeSound, Probe!CachedWasSaid
  <2>4. Probe!TypeOK'
    BY <1>1, <1>2, <1>5 DEF Probe!IInv, Probe!ProbeSound, Probe!TypeOK
  <2>5. Probe!Typed'
    BY <1>1, <1>2 DEF Probe!IInv, Probe!Typed
  <2> QED
    BY <2>3, <2>4, <2>5
<1> QED
  BY <1>6, <1>7, <1>8, <1>9 DEF Probe!IInv, Probe!ProbeSound

\* A caller is answered.
LEMMA ProbeSettleSafe == ASSUME Probe!IInv, NEW c \in Callers, Probe!Settle(c) PROVE Probe!IInv'
<1>0. PICK p \in Callers : p = pOn[c] /\ pProbe[p] \in {"stopped", "in", "out", "unsure"}
  BY DEF Probe!Settle, Probe!IInv, Probe!Linked, Probe!ProbeSound, Probe!TypeOK
<1>1. /\ pCaller[c] = "waiting" /\ pWaiters' = [pWaiters EXCEPT ![p] = @ - 1]
      /\ \E s \in {"ready", "refused"} : pCaller' = [pCaller EXCEPT ![c] = s]
      /\ UNCHANGED <<pOn, pShared, pProbe, pCut, pStatus>>
      /\ pReady' \in BOOLEAN /\ (pReady' => pProbe[p] = "in" \/ pReady)
  BY <1>0 DEF Probe!Settle, Probe!IInv, Probe!Typed
<1>2. PICK s \in {"ready", "refused"} : pCaller' = [pCaller EXCEPT ![c] = s]
  BY <1>1
<1>3. \A x \in Callers : /\ pCaller'[x] = IF x = c THEN s ELSE pCaller[x]
                         /\ pWaiters'[x] = IF x = p THEN pWaiters[x] - 1 ELSE pWaiters[x]
  BY <1>1, <1>2 DEF Probe!IInv, Probe!Typed, Probe!ProbeSound, Probe!TypeOK
<1>4. ASSUME NEW q \in Callers PROVE pWaiters'[q] = Cardinality(Probe!Waiting(q)')
  <2>1. CASE q = p
    <3>1. Probe!Waiting(q)' = Probe!Waiting(q) \ {c} /\ c \in Probe!Waiting(q)
      BY <1>0, <1>1, <1>3, <2>1 DEF Probe!Waiting
    <3> QED
      BY <1>3, <2>1, <3>1, ProbeCounted, ProbeWaitOneLess
  <2>2. CASE q # p
    <3>1. Probe!Waiting(q)' = Probe!Waiting(q)
      BY <1>0, <1>1, <1>3, <2>2 DEF Probe!Waiting
    <3> QED
      BY <1>3, <2>2, <3>1, ProbeCounted
  <2> QED
    BY <2>1, <2>2
<1>5. pWaiters' \in [Callers -> 0 .. Cardinality(Callers)]
  BY <1>1, <1>4, ProbeExactIsTyped DEF Probe!IInv, Probe!ProbeSound, Probe!TypeOK
<1>6. Probe!OneProbe'
  <2>1. ASSUME NEW q \in Callers, Probe!Asking(q)', ~pCut'[q] PROVE q = pShared' /\ pWaiters'[q] > 0
    <3>1. Probe!Asking(q) /\ ~pCut[q] /\ q # p
      BY <1>0, <1>1, <2>1 DEF Probe!Asking
    <3> QED
      BY <1>1, <1>3, <3>1 DEF Probe!IInv, Probe!ProbeSound, Probe!OneProbe
  <2> QED
    BY ProbeSize, <1>4, <2>1 DEF Probe!OneProbe, Probe!Waiting
<1>7. Probe!NobodyElseStops' /\ Probe!Linked' /\ Probe!Cuts'
  BY <1>1, <1>3 DEF Probe!IInv, Probe!Linked, Probe!Cuts, Probe!ProbeSound, Probe!NobodyElseStops,
     Probe!Asking
<1>8. Probe!TypeOK' /\ Probe!Typed' /\ Probe!CachedWasSaid'
  BY ProbeSize, <1>0, <1>1, <1>2, <1>5 DEF Probe!IInv, Probe!Typed, Probe!ProbeSound, Probe!TypeOK,
     Probe!CachedWasSaid
<1> QED
  BY <1>6, <1>7, <1>8 DEF Probe!IInv, Probe!ProbeSound

\* The login and the clock touch what is at hand only.
LEMMA ProbeOutsideSafe ==
  ASSUME Probe!IInv, Probe!Login \/ Probe!Lapse \/ UNCHANGED Probe!vars
  PROVE  Probe!IInv'
<1>1. /\ UNCHANGED <<pCaller, pOn, pShared, pProbe, pWaiters, pCut>>
      /\ pStatus' \in {"none", pStatus} /\ pReady' \in {FALSE, pReady}
  BY DEF Probe!Login, Probe!Lapse, Probe!vars, Probe!IInv, Probe!Typed
<1>2. Probe!OneProbe' /\ pWaiters' \in [Callers -> 0 .. Cardinality(Callers)]
  BY ProbeSize, <1>1 DEF Probe!IInv, Probe!ProbeSound, Probe!OneProbe, Probe!TypeOK, Probe!Asking
<1>3. Probe!Typed' /\ Probe!TypeOK'
  BY <1>1, <1>2 DEF Probe!IInv, Probe!Typed, Probe!ProbeSound, Probe!TypeOK
<1>4. Probe!Linked' /\ Probe!Cuts' /\ Probe!NobodyElseStops'
  BY <1>1 DEF Probe!IInv, Probe!Linked, Probe!Cuts, Probe!ProbeSound, Probe!NobodyElseStops,
     Probe!Asking
<1>5. Probe!CachedWasSaid'
  BY <1>1 DEF Probe!IInv, Probe!Typed, Probe!ProbeSound, Probe!CachedWasSaid
<1> QED
  BY <1>2, <1>3, <1>4, <1>5 DEF Probe!IInv, Probe!ProbeSound

\* At the start nobody waits.
LEMMA ProbeProbeInit == Probe!Init => Probe!IInv
<1> SUFFICES ASSUME Probe!Init PROVE Probe!IInv
  OBVIOUS
<1>1. \A p \in Callers : {c \in Callers : pCaller[c] = "waiting" /\ pOn[c] = p} = {}
  BY DEF Probe!Init
<1>2. Cardinality({}) = 0 /\ 0 \in 0 .. Cardinality(Callers)
  BY FS_EmptySet, FS_CardinalityType, ProbeAssumption
<1> QED
  BY ProbeSize, <1>1, <1>2 DEF Probe!Init, Probe!IInv, Probe!Typed, Probe!Linked, Probe!Cuts,
     Probe!ProbeSound, Probe!TypeOK, Probe!NobodyElseStops, Probe!OneProbe, Probe!CachedWasSaid,
     Probe!Asking

\* One caller leaving fails nobody else; one probe runs, for those who wait; an
\* answer at hand was once given: whoever calls, leaves and asks again.
THEOREM ProbeIsSound == Probe!Spec => []ProbeSound
<1>1. Probe!IInv /\ [Probe!Next]_(Probe!vars) => Probe!IInv'
  BY ProbeAtHandSafe, ProbeJoinSafe, ProbeLeaveSafe, ProbeProbeSafe, ProbeSettleSafe, ProbeOutsideSafe
     DEF Probe!Next
<1>2. Probe!IInv => ProbeSound
  BY DEF ProbeSound, Probe!IInv
<1> QED
  BY <1>1, <1>2, ProbeProbeInit, PTL DEF Probe!Spec

-----------------------------------------------------------------------------
(* ClaudeTurn. One turn of a Claude Code process: what Pi gets of it is one*)
(* whole answer, asked for once, for any number of attempts and whatever   *)
(* the child and the API do.                                               *)

-----------------------------------------------------------------------------
LEMMA TurnBeginSafe == ASSUME Turn!IInv, Turn!Begin PROVE Turn!IInv'
<1>1. Turn!TypeOK'
  BY DEF Turn!IInv, Turn!TurnSound, Turn!Begin, Turn!relay, Turn!Active, Turn!TypeOK
<1>2. Turn!Typed'
  BY DEF Turn!IInv, Turn!TurnSound, Turn!Begin, Turn!relay, Turn!Active, Turn!Typed
<1>3. Turn!Attempted'
  BY DEF Turn!IInv, Turn!TurnSound, Turn!Begin, Turn!relay, Turn!Active, Turn!Attempted, Turn!TypeOK,
     Turn!Typed, Turn!Taken
<1>4. Turn!Taken'
  BY DEF Turn!IInv, Turn!TurnSound, Turn!Begin, Turn!relay, Turn!Active, Turn!Taken, Turn!Attempted,
     Turn!Typed, Turn!TypeOK
<1>5. Turn!Armed'
  BY DEF Turn!IInv, Turn!TurnSound, Turn!Begin, Turn!relay, Turn!Active, Turn!Armed, Turn!Typed,
     Turn!Disarmed, Turn!OutputIsWhole, Turn!Taken, Turn!TypeOK, Turn!AnswerIsWhole
<1>6. Turn!OutputIsWhole'
  BY DEF Turn!IInv, Turn!TurnSound, Turn!Begin, Turn!relay, Turn!Active, Turn!OutputIsWhole,
     Turn!Typed, Turn!Armed, Turn!Taken, Turn!TypeOK, Turn!Disarmed, Turn!Attempted,
     Turn!NothingAskedTwice, Turn!AnswerIsWhole
<1>7. Turn!NothingAskedTwice'
  BY DEF Turn!IInv, Turn!TurnSound, Turn!Begin, Turn!relay, Turn!Active, Turn!NothingAskedTwice,
     Turn!Attempted, Turn!TypeOK, Turn!Typed
<1>8. Turn!Disarmed'
  BY DEF Turn!IInv, Turn!TurnSound, Turn!Begin, Turn!relay, Turn!Active, Turn!Disarmed, Turn!Armed,
     Turn!Typed, Turn!Taken, Turn!OutputIsWhole, Turn!TypeOK, Turn!AnswerIsWhole
<1> QED
  BY <1>1, <1>2, <1>3, <1>4, <1>5, <1>6, <1>7, <1>8 DEF Turn!IInv, Turn!TurnSound

LEMMA TurnAckSafe == ASSUME Turn!IInv, Turn!Ack PROVE Turn!IInv'
BY DEF Turn!Ack, Turn!relay, Turn!IInv, Turn!TurnSound, Turn!TypeOK, Turn!OutputIsWhole,
   Turn!NothingAskedTwice, Turn!Disarmed, Turn!Typed, Turn!Attempted, Turn!Taken, Turn!Armed,
   Turn!Active, Turn!AnswerIsWhole

LEMMA TurnReplayedSafe == ASSUME Turn!IInv, Turn!Replayed PROVE Turn!IInv'
BY DEF Turn!Replayed, Turn!relay, Turn!IInv, Turn!TurnSound, Turn!TypeOK, Turn!OutputIsWhole,
   Turn!NothingAskedTwice, Turn!Disarmed, Turn!Typed, Turn!Attempted, Turn!Taken, Turn!Armed,
   Turn!Active, Turn!AnswerIsWhole

LEMMA TurnChildFailsSafe == ASSUME Turn!IInv, Turn!ChildFails PROVE Turn!IInv'
BY DEF Turn!ChildFails, Turn!Throw, Turn!relay, Turn!IInv, Turn!TurnSound, Turn!TypeOK,
   Turn!OutputIsWhole, Turn!NothingAskedTwice, Turn!Disarmed, Turn!Typed, Turn!Attempted,
   Turn!Taken, Turn!Armed, Turn!Active, Turn!AnswerIsWhole

LEMMA TurnIdleSafe == ASSUME Turn!IInv, Turn!Idle PROVE Turn!IInv'
BY DEF Turn!Idle, Turn!Throw, Turn!relay, Turn!IInv, Turn!TurnSound, Turn!TypeOK,
   Turn!OutputIsWhole, Turn!NothingAskedTwice, Turn!Disarmed, Turn!Typed, Turn!Attempted,
   Turn!Taken, Turn!Armed, Turn!Active, Turn!AnswerIsWhole

\* A caller that aborts disarms the turn; what was returned stays.
LEMMA TurnAbortSafe == ASSUME Turn!IInv, Turn!Abort PROVE Turn!IInv'
BY DEF Turn!Abort, Turn!host, Turn!relay, Turn!IInv, Turn!TurnSound, Turn!TypeOK,
   Turn!OutputIsWhole, Turn!NothingAskedTwice, Turn!Disarmed, Turn!Typed, Turn!Attempted,
   Turn!Taken, Turn!Armed, Turn!Active, Turn!AnswerIsWhole

LEMMA TurnAbortSeenSafe == ASSUME Turn!IInv, Turn!AbortSeen PROVE Turn!IInv'
BY DEF Turn!AbortSeen, Turn!Throw, Turn!relay, Turn!IInv, Turn!TurnSound, Turn!TypeOK,
   Turn!OutputIsWhole, Turn!NothingAskedTwice, Turn!Disarmed, Turn!Typed, Turn!Attempted,
   Turn!Taken, Turn!Armed, Turn!Active, Turn!AnswerIsWhole

\* What is good enough to be accepted is one whole answer: what was captured to its
\* stop, or what the child said to its own stop while the relay was unused.
LEMMA TurnGoodIsWhole ==
  ASSUME Turn!IInv, tAt = "settling", Turn!Good
  PROVE  /\ tResult # "none" /\ tStopped /\ Turn!Message \in {"text", "tools", "refusal"}
         /\ IF tUsed THEN tWhole /\ tShown = tTries /\ tCaptured = Turn!Message
                     ELSE tSaid = Turn!Message
<1>1. Turn!Message \in {"text", "tools", "refusal"}
  <2>1. CASE tUsed
    BY <2>1 DEF Turn!IInv, Turn!TurnSound, Turn!TypeOK, Turn!Taken, Turn!Good, Turn!Answered,
       Turn!Message, Turn!Kinds
  <2>2. CASE ~tUsed
    BY <2>2 DEF Turn!IInv, Turn!TurnSound, Turn!TypeOK, Turn!Good, Turn!Message, Turn!Kinds
  <2> QED
    BY <2>1, <2>2
<1>2. tResult # "none" /\ tStopped
  BY DEF Turn!IInv, Turn!Armed, Turn!Taken, Turn!Good, Turn!Answered
<1>3. IF tUsed THEN tWhole /\ tShown = tTries /\ tCaptured = Turn!Message ELSE tSaid = Turn!Message
  BY DEF Turn!IInv, Turn!TurnSound, Turn!NothingAskedTwice, Turn!Taken, Turn!Good, Turn!Answered,
     Turn!Message
<1> QED
  BY <1>1, <1>2, <1>3

\* What is accepted is a whole answer, and the abort of the caller comes after it.
LEMMA TurnDecideSafe == ASSUME Turn!IInv, Turn!Decide PROVE Turn!IInv'
<1>1. CASE ~tAborted /\ ~tWaitFailed /\ Turn!Good
  <2>1. tAt' = "reporting"
        /\ tAnswer' = [by |-> IF tUsed THEN "relay" ELSE "child", kind |-> Turn!Message]
        /\ UNCHANGED <<tOutcome, tCancelled>>
    BY <1>1 DEF Turn!Decide
  <2>2. UNCHANGED <<tAborted, tLate, tChild, tAcks, tSaid, tStopped, tNativeError, tResult, tOverage,
                    tHandler, tUsed, tDenied, tTries, tStatus, tShown, tCaptured, tWhole,
                    tWaitFailed, tEvents>>
    BY DEF Turn!Decide, Turn!relay
  <2>3. tAnswer'.by = (IF tUsed THEN "relay" ELSE "child") /\ tAnswer'.kind = Turn!Message
    BY <2>1
  <2>4. tAt = "settling" /\ ~Turn!Active
    BY DEF Turn!Decide
  <2>5. Turn!AnswerIsWhole'
    BY <1>1, <2>2, <2>3, <2>4, TurnGoodIsWhole DEF Turn!AnswerIsWhole, Turn!Active
  <2>6. tAnswer' \in [by : {"none", "relay", "child"}, kind : Turn!Kinds \cup {"none"}]
    BY <1>1, <2>1, <2>4, TurnGoodIsWhole DEF Turn!Kinds
  <2>7. Turn!Typed' /\ Turn!TypeOK'
    BY <2>1, <2>2, <2>6 DEF Turn!IInv, Turn!TurnSound, Turn!Typed, Turn!TypeOK, Turn!Kinds
  <2>8. Turn!Attempted' /\ Turn!Taken' /\ Turn!NothingAskedTwice'
    BY <2>2 DEF Turn!IInv, Turn!TurnSound, Turn!Attempted, Turn!Taken, Turn!NothingAskedTwice
  <2>9. tOutcome' # "output" /\ tAt' # "returned"
    BY <2>1, <2>4 DEF Turn!IInv, Turn!Armed
  <2>10. Turn!Armed' /\ Turn!OutputIsWhole' /\ Turn!Disarmed'
    BY <1>1, <2>1, <2>2, <2>5, <2>9 DEF Turn!Armed, Turn!OutputIsWhole, Turn!Disarmed, Turn!AnswerIsWhole
  <2> QED
    BY <2>7, <2>8, <2>10 DEF Turn!IInv, Turn!TurnSound
<1>2. CASE ~(~tAborted /\ ~tWaitFailed /\ Turn!Good)
  <2>1. Turn!Throw("failed") /\ tAnswer' = tAnswer
        /\ UNCHANGED <<tAborted, tLate, tChild, tAcks, tSaid, tStopped, tNativeError, tResult, tOverage,
                       tHandler, tUsed, tDenied, tTries, tStatus, tShown, tCaptured, tWhole,
                       tWaitFailed, tEvents>>
    BY <1>2 DEF Turn!Decide, Turn!relay
  <2> QED
    BY <2>1 DEF Turn!Throw, Turn!IInv, Turn!TurnSound, Turn!TypeOK, Turn!OutputIsWhole,
       Turn!NothingAskedTwice, Turn!Disarmed, Turn!Typed, Turn!Attempted, Turn!Taken, Turn!Armed,
       Turn!Active
<1> QED
  BY <1>1, <1>2

\* The report decides only whether an answer on overage is let out.
LEMMA TurnReportedSafe == ASSUME Turn!IInv, Turn!Reported PROVE Turn!IInv'
<1>1. tAt = "reporting" /\ tAt' = "returned" /\ tCancelled' = TRUE
      /\ tOutcome' \in {"output", "failed", "wait", "aborted"} /\ (tOutcome' = "output" => ~tOverage)
  BY DEF Turn!Reported, Turn!Throw
<1>2. UNCHANGED <<tAborted, tLate, tChild, tAcks, tSaid, tStopped, tNativeError, tResult, tOverage,
                  tAnswer, tHandler, tUsed, tDenied, tTries, tStatus, tShown, tCaptured, tWhole,
                  tWaitFailed, tEvents>>
  BY DEF Turn!Reported, Turn!relay
<1>3. Turn!Typed' /\ Turn!TypeOK'
  BY <1>1, <1>2 DEF Turn!IInv, Turn!TurnSound, Turn!Typed, Turn!TypeOK, Turn!Kinds
<1>4. Turn!Attempted' /\ Turn!Taken' /\ Turn!NothingAskedTwice'
  BY <1>2 DEF Turn!IInv, Turn!TurnSound, Turn!Attempted, Turn!Taken, Turn!NothingAskedTwice
<1>5. Turn!AnswerIsWhole /\ (tAborted => tLate /\ tChild = "gone")
  BY <1>1 DEF Turn!IInv, Turn!Armed
<1>6. Turn!AnswerIsWhole' /\ (tAborted' => tLate' /\ tChild' = "gone")
  BY <1>2, <1>5 DEF Turn!AnswerIsWhole, Turn!Active
<1>7. Turn!Armed' /\ Turn!OutputIsWhole' /\ Turn!Disarmed'
  BY <1>1, <1>2, <1>6 DEF Turn!Armed, Turn!OutputIsWhole, Turn!Disarmed, Turn!AnswerIsWhole
<1> QED
  BY <1>3, <1>4, <1>7 DEF Turn!IInv, Turn!TurnSound

LEMMA TurnAssistantSafe ==
  ASSUME Turn!IInv, NEW kind \in Turn!Kinds, Turn!Assistant(kind)
  PROVE  Turn!IInv'
<1>1. Turn!TypeOK'
  BY DEF Turn!IInv, Turn!TurnSound, Turn!Assistant, Turn!Event, Turn!relay, Turn!Active, Turn!TypeOK
<1>2. Turn!Typed'
  BY DEF Turn!IInv, Turn!TurnSound, Turn!Assistant, Turn!Event, Turn!relay, Turn!Active, Turn!Typed
<1>3. Turn!Attempted'
  BY DEF Turn!IInv, Turn!TurnSound, Turn!Assistant, Turn!Event, Turn!relay, Turn!Active,
     Turn!Attempted, Turn!TypeOK, Turn!Typed, Turn!Taken
<1>4. Turn!Taken'
  BY DEF Turn!IInv, Turn!TurnSound, Turn!Assistant, Turn!Event, Turn!relay, Turn!Active, Turn!Taken,
     Turn!Attempted, Turn!Typed, Turn!TypeOK
<1>5. Turn!Armed'
  BY DEF Turn!IInv, Turn!TurnSound, Turn!Assistant, Turn!Event, Turn!relay, Turn!Active, Turn!Armed,
     Turn!Typed, Turn!Disarmed, Turn!OutputIsWhole, Turn!Taken, Turn!TypeOK, Turn!AnswerIsWhole
<1>6. Turn!OutputIsWhole'
  BY DEF Turn!IInv, Turn!TurnSound, Turn!Assistant, Turn!Event, Turn!relay, Turn!Active,
     Turn!OutputIsWhole, Turn!Typed, Turn!Armed, Turn!Taken, Turn!TypeOK, Turn!Disarmed,
     Turn!Attempted, Turn!NothingAskedTwice, Turn!AnswerIsWhole
<1>7. Turn!NothingAskedTwice'
  BY DEF Turn!IInv, Turn!TurnSound, Turn!Assistant, Turn!Event, Turn!relay, Turn!Active,
     Turn!NothingAskedTwice, Turn!Attempted, Turn!TypeOK, Turn!Typed
<1>8. Turn!Disarmed'
  BY DEF Turn!IInv, Turn!TurnSound, Turn!Assistant, Turn!Event, Turn!relay, Turn!Active,
     Turn!Disarmed, Turn!Armed, Turn!Typed, Turn!Taken, Turn!OutputIsWhole, Turn!TypeOK,
     Turn!AnswerIsWhole
<1> QED
  BY <1>1, <1>2, <1>3, <1>4, <1>5, <1>6, <1>7, <1>8 DEF Turn!IInv, Turn!TurnSound

LEMMA TurnNativeErrorSafe == ASSUME Turn!IInv, Turn!NativeError PROVE Turn!IInv'
BY DEF Turn!NativeError, Turn!Event, Turn!relay, Turn!IInv, Turn!TurnSound, Turn!TypeOK,
   Turn!OutputIsWhole, Turn!NothingAskedTwice, Turn!Disarmed, Turn!Typed, Turn!Attempted,
   Turn!Taken, Turn!Armed, Turn!Active, Turn!AnswerIsWhole

LEMMA TurnResultSafe ==
  ASSUME Turn!IInv, NEW kind \in {"success", "max_turns", "error"}, Turn!Result(kind)
  PROVE  Turn!IInv'
BY DEF Turn!Result, Turn!relay, Turn!IInv, Turn!TurnSound, Turn!TypeOK, Turn!OutputIsWhole,
   Turn!NothingAskedTwice, Turn!Disarmed, Turn!Typed, Turn!Attempted, Turn!Taken, Turn!Armed,
   Turn!Active, Turn!AnswerIsWhole

\* Nothing is taken for a turn that was given up, or for a second time.
LEMMA TurnPostSafe == ASSUME Turn!IInv, Turn!Post PROVE Turn!IInv'
<1>1. Turn!TypeOK'
  BY DEF Turn!IInv, Turn!TurnSound, Turn!Post, Turn!Event, Turn!host, Turn!Active, Turn!TypeOK
<1>2. Turn!Typed'
  <2>1. Turn!Typed /\ Turn!Post
    BY DEF Turn!IInv
  <2>2. CASE tCancelled \/ tUsed
    BY <2>1, <2>2, ZenonT(60) DEF Turn!Post, Turn!host, Turn!Typed
  <2>3. CASE ~(tCancelled \/ tUsed)
    BY <2>1, <2>3 DEF Turn!Post, Turn!host, Turn!Typed
  <2> QED
    BY <2>2, <2>3
<1>3. Turn!Attempted'
  BY DEF Turn!IInv, Turn!TurnSound, Turn!Post, Turn!Event, Turn!host, Turn!Active, Turn!Attempted,
     Turn!TypeOK, Turn!Typed, Turn!Taken
<1>4. Turn!Taken'
  BY DEF Turn!IInv, Turn!TurnSound, Turn!Post, Turn!Event, Turn!host, Turn!Active, Turn!Taken,
     Turn!Attempted, Turn!Typed, Turn!TypeOK
<1>5. Turn!Armed'
  BY DEF Turn!IInv, Turn!TurnSound, Turn!Post, Turn!Event, Turn!host, Turn!Active, Turn!Armed,
     Turn!Typed, Turn!Disarmed, Turn!OutputIsWhole, Turn!Taken, Turn!TypeOK, Turn!AnswerIsWhole
<1>6. Turn!OutputIsWhole'
  BY DEF Turn!IInv, Turn!TurnSound, Turn!Post, Turn!Event, Turn!host, Turn!Active, Turn!OutputIsWhole,
     Turn!Typed, Turn!Armed, Turn!Taken, Turn!TypeOK, Turn!Disarmed, Turn!Attempted,
     Turn!NothingAskedTwice, Turn!AnswerIsWhole
<1>7. Turn!NothingAskedTwice'
  BY DEF Turn!IInv, Turn!TurnSound, Turn!Post, Turn!Event, Turn!host, Turn!Active,
     Turn!NothingAskedTwice, Turn!Attempted, Turn!TypeOK, Turn!Typed
<1>8. Turn!Disarmed'
  BY DEF Turn!IInv, Turn!TurnSound, Turn!Post, Turn!Event, Turn!host, Turn!Active, Turn!Disarmed,
     Turn!Armed, Turn!Typed, Turn!Taken, Turn!OutputIsWhole, Turn!TypeOK, Turn!AnswerIsWhole
<1> QED
  BY <1>1, <1>2, <1>3, <1>4, <1>5, <1>6, <1>7, <1>8 DEF Turn!IInv, Turn!TurnSound

\* A further attempt is made before a byte of the last was shown.
LEMMA TurnAskSafe == ASSUME Turn!IInv, Turn!Ask PROVE Turn!IInv'
BY TurnAssumption DEF Turn!Ask, Turn!host, Turn!IInv, Turn!TurnSound, Turn!TypeOK,
   Turn!OutputIsWhole, Turn!NothingAskedTwice, Turn!Disarmed, Turn!Typed, Turn!Attempted,
   Turn!Taken, Turn!Armed, Turn!Active, Turn!AnswerIsWhole

LEMMA TurnSocketFailsSafe == ASSUME Turn!IInv, Turn!SocketFails PROVE Turn!IInv'
<1>1. Turn!TypeOK'
  BY DEF Turn!IInv, Turn!TurnSound, Turn!SocketFails, Turn!Retryable, Turn!Fails, Turn!host,
     Turn!Active, Turn!TypeOK
<1>2. Turn!Typed'
  BY DEF Turn!IInv, Turn!TurnSound, Turn!SocketFails, Turn!Retryable, Turn!Fails, Turn!host,
     Turn!Active, Turn!Typed
<1>3. Turn!Attempted'
  BY DEF Turn!IInv, Turn!TurnSound, Turn!SocketFails, Turn!Retryable, Turn!Fails, Turn!host,
     Turn!Active, Turn!Attempted, Turn!TypeOK, Turn!Typed, Turn!Taken
<1>4. Turn!Taken'
  BY DEF Turn!IInv, Turn!TurnSound, Turn!SocketFails, Turn!Retryable, Turn!Fails, Turn!host,
     Turn!Active, Turn!Taken, Turn!Attempted, Turn!Typed, Turn!TypeOK
<1>5. Turn!Armed'
  BY DEF Turn!IInv, Turn!TurnSound, Turn!SocketFails, Turn!Retryable, Turn!Fails, Turn!host,
     Turn!Active, Turn!Armed, Turn!Typed, Turn!Disarmed, Turn!OutputIsWhole, Turn!Taken,
     Turn!TypeOK, Turn!AnswerIsWhole
<1>6. Turn!OutputIsWhole'
  BY DEF Turn!IInv, Turn!TurnSound, Turn!SocketFails, Turn!Retryable, Turn!Fails, Turn!host,
     Turn!Active, Turn!OutputIsWhole, Turn!Typed, Turn!Armed, Turn!Taken, Turn!TypeOK,
     Turn!Disarmed, Turn!Attempted, Turn!NothingAskedTwice, Turn!AnswerIsWhole
<1>7. Turn!NothingAskedTwice'
  BY DEF Turn!IInv, Turn!TurnSound, Turn!SocketFails, Turn!Retryable, Turn!Fails, Turn!host,
     Turn!Active, Turn!NothingAskedTwice, Turn!Attempted, Turn!TypeOK, Turn!Typed
<1>8. Turn!Disarmed'
  BY DEF Turn!IInv, Turn!TurnSound, Turn!SocketFails, Turn!Retryable, Turn!Fails, Turn!host,
     Turn!Active, Turn!Disarmed, Turn!Armed, Turn!Typed, Turn!Taken, Turn!OutputIsWhole,
     Turn!TypeOK, Turn!AnswerIsWhole
<1> QED
  BY <1>1, <1>2, <1>3, <1>4, <1>5, <1>6, <1>7, <1>8 DEF Turn!IInv, Turn!TurnSound

LEMMA TurnHandlerFailsSafe ==
  ASSUME Turn!IInv, NEW wait \in BOOLEAN, Turn!HandlerFails(wait)
  PROVE  Turn!IInv'
BY DEF Turn!HandlerFails, Turn!Fails, Turn!host, Turn!IInv, Turn!TurnSound, Turn!TypeOK,
   Turn!OutputIsWhole, Turn!NothingAskedTwice, Turn!Disarmed, Turn!Typed, Turn!Attempted,
   Turn!Taken, Turn!Armed, Turn!Active, Turn!AnswerIsWhole

LEMMA TurnHeadersSafe ==
  ASSUME Turn!IInv, NEW code \in {"ok", "busy", "refused"}, Turn!Headers(code)
  PROVE  Turn!IInv'
BY DEF Turn!Headers, Turn!host, Turn!IInv, Turn!TurnSound, Turn!TypeOK, Turn!OutputIsWhole,
   Turn!NothingAskedTwice, Turn!Disarmed, Turn!Typed, Turn!Attempted, Turn!Taken, Turn!Armed,
   Turn!Active, Turn!AnswerIsWhole

\* What is shown is of the latest attempt, and whole with its stop.
LEMMA TurnChunkSafe ==
  ASSUME Turn!IInv, NEW kind \in Turn!Kinds, NEW last \in BOOLEAN, Turn!Chunk(kind, last)
  PROVE  Turn!IInv'
BY DEF Turn!Chunk, Turn!Event, Turn!Kinds, Turn!IInv, Turn!TurnSound, Turn!TypeOK,
   Turn!OutputIsWhole, Turn!NothingAskedTwice, Turn!Disarmed, Turn!Typed, Turn!Attempted,
   Turn!Taken, Turn!Armed, Turn!Active, Turn!AnswerIsWhole

LEMMA TurnStreamEndsSafe == ASSUME Turn!IInv, Turn!StreamEnds PROVE Turn!IInv'
BY DEF Turn!StreamEnds, Turn!host, Turn!IInv, Turn!TurnSound, Turn!TypeOK, Turn!OutputIsWhole,
   Turn!NothingAskedTwice, Turn!Disarmed, Turn!Typed, Turn!Attempted, Turn!Taken, Turn!Armed,
   Turn!Active, Turn!AnswerIsWhole

LEMMA TurnInitSafe == ASSUME Turn!Init PROVE Turn!IInv
<1>1. Turn!TypeOK
  BY TurnAssumption DEF Turn!Init, Turn!TypeOK
<1>2. Turn!Typed
  BY DEF Turn!Init, Turn!Typed
<1>3. Turn!Attempted /\ Turn!Taken /\ Turn!Armed
  BY DEF Turn!Init, Turn!Attempted, Turn!Taken, Turn!Armed, Turn!OutputIsWhole, Turn!TypeOK,
     Turn!AnswerIsWhole
<1>4. Turn!OutputIsWhole /\ Turn!NothingAskedTwice /\ Turn!Disarmed
  BY DEF Turn!Init, Turn!OutputIsWhole, Turn!NothingAskedTwice, Turn!Disarmed, Turn!AnswerIsWhole
<1> QED
  BY <1>1, <1>2, <1>3, <1>4 DEF Turn!IInv, Turn!TurnSound

LEMMA TurnNextSafe == ASSUME Turn!IInv, [Turn!Next]_(Turn!vars) PROVE Turn!IInv'
<1>1. CASE Turn!Begin \/ Turn!Ack \/ Turn!Replayed \/ Turn!ChildFails \/ Turn!Idle \/ Turn!Abort \/ Turn!AbortSeen \/ Turn!Decide \/ Turn!Reported
  BY <1>1, TurnBeginSafe, TurnAckSafe, TurnReplayedSafe, TurnChildFailsSafe, TurnIdleSafe,
     TurnAbortSafe, TurnAbortSeenSafe, TurnDecideSafe, TurnReportedSafe
<1>2. ASSUME NEW kind \in Turn!Kinds, Turn!Assistant(kind) \/ (\E last \in BOOLEAN : Turn!Chunk(kind, last)) PROVE Turn!IInv'
  BY <1>2, TurnAssistantSafe, TurnChunkSafe
<1>3. ASSUME Turn!NativeError \/ \E kind \in {"success", "max_turns", "error"} : Turn!Result(kind) PROVE Turn!IInv'
  BY <1>3, TurnNativeErrorSafe, TurnResultSafe
<1>4. ASSUME Turn!Post \/ Turn!Ask \/ Turn!SocketFails \/ \E wait \in BOOLEAN : Turn!HandlerFails(wait) PROVE Turn!IInv'
  BY <1>4, TurnPostSafe, TurnAskSafe, TurnSocketFailsSafe, TurnHandlerFailsSafe
<1>5. ASSUME Turn!StreamEnds \/ \E code \in {"ok", "busy", "refused"} : Turn!Headers(code) PROVE Turn!IInv'
  BY <1>5, TurnStreamEndsSafe, TurnHeadersSafe
<1>6. CASE UNCHANGED Turn!vars
  BY <1>6 DEF Turn!vars, Turn!IInv, Turn!TurnSound, Turn!TypeOK, Turn!OutputIsWhole,
     Turn!NothingAskedTwice, Turn!Disarmed, Turn!Typed, Turn!Attempted, Turn!Taken, Turn!Armed,
     Turn!Active, Turn!AnswerIsWhole
<1> QED
  BY <1>1, <1>2, <1>3, <1>4, <1>5, <1>6 DEF Turn!Next

\* For every policy of retries: what a turn returns is one whole answer, it is asked
\* again only while the child has seen nothing of it, and it is disarmed at its end.
THEOREM TurnIsSound == Turn!Spec => []TurnSound
<1>1. Turn!Init => Turn!IInv
  BY TurnInitSafe
<1>2. Turn!IInv /\ [Turn!Next]_(Turn!vars) => Turn!IInv'
  BY TurnNextSafe
<1>3. Turn!IInv => TurnSound
  BY DEF TurnSound, Turn!IInv
<1> QED
  BY <1>1, <1>2, <1>3, PTL DEF Turn!Spec
=============================================================================
