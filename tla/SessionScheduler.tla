-------------------------- MODULE SessionScheduler --------------------------
(***************************************************************************)
(* The launch budget of one session (src/src/subagents/scheduler.ts and    *)
(* capacity.ts): an in-process semaphore with one bucket per provider and  *)
(* one ceiling over all of them.                                           *)
(*                                                                         *)
(* The process runs one event handler at a time, so each action is a whole *)
(* handler: a call of run, an abort event, the continuation of a granted   *)
(* request, the end of a launch.  A lease is granted in one handler and    *)
(* used in a later one: "granted" is the time between.                     *)
(***************************************************************************)
EXTENDS Integers, FiniteSets

CONSTANTS Request,          \* calls of run
          Provider,
          ProviderOf(_),    \* request -> its provider
          Signal,           \* abort signals; several requests may share one
          NoSignal,
          SignalOf(_),      \* request -> its signal or NoSignal
          MaxConcurrency,   \* default ceiling of a provider
          SessionProviders, \* config.session.providers: a function on some providers
          SessionGlobal,    \* config.session.global
          Ceiling           \* the scheduler's maxConcurrency

ASSUME SchedulerAssumption ==
  /\ IsFiniteSet(Request)
  /\ \A r \in Request : ProviderOf(r) \in Provider /\ SignalOf(r) \in Signal \cup {NoSignal}
  /\ MaxConcurrency \in Nat \ {0} /\ SessionGlobal \in Nat \ {0} /\ Ceiling \in Nat \ {0}
  /\ DOMAIN SessionProviders \subseteq Provider
  /\ \A p \in DOMAIN SessionProviders : SessionProviders[p] \in Nat \ {0}

VARIABLES
  pc,            \* request -> where it is
  queue,         \* place in the line -> the request that waits there for a lease
  aborted,       \* signals that were aborted
  activeLeases,
  activeByBucket \* provider -> its active leases

vars == <<pc, queue, aborted, activeLeases, activeByBucket>>

Labels == {"idle", "queued", "granted", "running", "done", "rejected"}

Init == /\ pc = [r \in Request |-> "idle"]
        /\ queue = <<>>
        /\ aborted = {}
        /\ activeLeases = 0
        /\ activeByBucket = [p \in Provider |-> 0]

-----------------------------------------------------------------------------
(* Ceilings.                                                               *)

Least(a, b) == IF a <= b THEN a ELSE b

sessionCap(p) ==
  Least(IF p \in DOMAIN SessionProviders THEN SessionProviders[p] ELSE MaxConcurrency,
        SessionGlobal)

bucketCap(p) == Least(sessionCap(p), Ceiling)

-----------------------------------------------------------------------------
(* drain.                                                                  *)

\* The line is known by the places in it, which entries keep until they leave.
Entries(q) == {q[i] : i \in DOMAIN q}

\* queue.push: behind everybody that ever arrived.
Arrived == Cardinality({r \in Request : pc[r] # "idle"})
Push(q, r) == [i \in DOMAIN q \cup {Arrived + 1} |-> IF i = Arrived + 1 THEN r ELSE q[i]]

\* queue.splice, for every request of S.
Without(q, S) == [i \in {j \in DOMAIN q : q[j] \notin S} |-> q[i]]

OfProvider(p, S) == {r \in S : ProviderOf(r) = p}

\* hasRoom for the request at place i, when the requests of G before it
\* have been granted in the same scan.
HasRoom(q, i, G, leases, byBucket) ==
  LET before == {q[j] : j \in {k \in DOMAIN q : k < i}} \cap G
      p == ProviderOf(q[i])
  IN /\ leases + Cardinality(before) < Ceiling
     /\ byBucket[p] + Cardinality(OfProvider(p, before)) < bucketCap(p)

\* Seeded bug: the newest request is looked at first.
BugNewestFirst(q, G, leases, byBucket) ==
  LET r == [i \in {-j : j \in DOMAIN q} |-> q[-i]]
  IN \A i \in DOMAIN r : r[i] \in G <=> HasRoom(r, i, G, leases, byBucket)

\* The scan runs over the whole queue and grants every request that finds
\* room: a full bucket does not hold up the requests of other providers.
Scan(q, G, leases, byBucket) ==
  \A i \in DOMAIN q : q[i] \in G <=> HasRoom(q, i, G, leases, byBucket)

\* drain, with the queue q and the counters left by the handler that calls it;
\* pcs tells what else that handler did to its requests.
Drain(q, leases, byBucket, pcs) ==
  \E G \in SUBSET Entries(q) :
    /\ Scan(q, G, leases, byBucket)
    /\ queue' = Without(q, G)
    /\ activeLeases' = leases + Cardinality(G)
    /\ activeByBucket' = [p \in Provider |-> byBucket[p] + Cardinality(OfProvider(p, G))]
    /\ pc' = [r \in Request |-> IF r \in G THEN "granted" ELSE pcs[r]]

-----------------------------------------------------------------------------
(* Handlers.                                                               *)

\* run: an aborted signal rejects at once, otherwise the request queues up.
Run(r) ==
  /\ pc[r] = "idle"
  /\ \/ /\ SignalOf(r) \in aborted
        /\ pc' = [pc EXCEPT ![r] = "rejected"]
        /\ UNCHANGED <<queue, activeLeases, activeByBucket>>
     \/ /\ SignalOf(r) \notin aborted
        /\ Drain(Push(queue, r), activeLeases, activeByBucket, [pc EXCEPT ![r] = "queued"])
  /\ UNCHANGED aborted

\* The abort event: the listener of every queued request with this signal takes
\* it out of the queue and drains.
Abort(s) ==
  /\ s \notin aborted
  /\ aborted' = aborted \cup {s}
  /\ Drain(Without(queue, {r \in Request : SignalOf(r) = s}), activeLeases, activeByBucket,
           [r \in Request |-> IF pc[r] = "queued" /\ SignalOf(r) = s THEN "rejected" ELSE pc[r]])

\* Seeded bug: a release does not look for requests that have room now.
BugNoDrain(r, label) ==
  /\ activeLeases' = activeLeases - 1
  /\ activeByBucket' = [activeByBucket EXCEPT ![ProviderOf(r)] = IF @ <= 1 THEN 0 ELSE @ - 1]
  /\ pc' = [pc EXCEPT ![r] = label]
  /\ UNCHANGED queue

\* The release function of a lease.
Release(r, label) ==
  Drain(queue, activeLeases - 1,
        [activeByBucket EXCEPT ![ProviderOf(r)] = IF @ <= 1 THEN 0 ELSE @ - 1],
        [pc EXCEPT ![r] = label])

\* Seeded bug: cancelled between grant and launch, the lease is not returned.
BugLeaseKept(r) ==
  /\ pc[r] = "granted"
  /\ pc' = [pc EXCEPT ![r] = IF SignalOf(r) \in aborted THEN "rejected" ELSE "running"]
  /\ UNCHANGED <<queue, activeLeases, activeByBucket, aborted>>

\* run goes on after its await: cancellation may have come in between, and
\* then nothing is launched and the lease goes back.
Resume(r) ==
  /\ pc[r] = "granted"
  /\ \/ SignalOf(r) \in aborted /\ Release(r, "rejected")
     \/ /\ SignalOf(r) \notin aborted
        /\ pc' = [pc EXCEPT ![r] = "running"]
        /\ UNCHANGED <<queue, activeLeases, activeByBucket>>
  /\ UNCHANGED aborted

\* The launch settles, in whatever way: the lease goes back in the finally.
Settle(r) == /\ pc[r] = "running"
             /\ Release(r, "done")
             /\ UNCHANGED aborted

Next == \/ \E r \in Request : Run(r) \/ Resume(r) \/ Settle(r)
        \/ \E s \in Signal : Abort(s)

Spec == Init /\ [][Next]_vars

\* Continuations run, and launches settle.
Fairness == \A r \in Request : WF_vars(Resume(r)) /\ WF_vars(Settle(r))
FairSpec == Spec /\ Fairness

-----------------------------------------------------------------------------
(* Properties.                                                             *)

Holding == {r \in Request : pc[r] \in {"granted", "running"}}

TypeOK == /\ pc \in [Request -> Labels]
          /\ queue \in [DOMAIN queue -> Request] /\ DOMAIN queue \subseteq Nat
          /\ aborted \subseteq Signal
          /\ activeLeases \in Nat
          /\ activeByBucket \in [Provider -> Nat]

\* The launches of the session stay below the ceiling of their provider and
\* below the common one, requests granted but not yet resumed included.
WithinCeilings == /\ Cardinality(Holding) <= Ceiling
                  /\ \A p \in Provider : Cardinality(OfProvider(p, Holding)) <= bucketCap(p)

\* The counters count the leases that are out, through every combination of
\* grants, aborts between grant and launch, and releases: none is lost, which
\* would shrink the budget for good, and none is returned twice.
CountersExact == /\ activeLeases = Cardinality(Holding)
                 /\ \A p \in Provider : activeByBucket[p] = Cardinality(OfProvider(p, Holding))

\* The queue holds the waiting requests, each once.
QueueExact == /\ Entries(queue) = {r \in Request : pc[r] = "queued"}
              /\ \A i, j \in DOMAIN queue : queue[i] = queue[j] => i = j

\* No lost wakeup: between handlers nobody waits who could run, and nobody
\* waits whose signal is aborted.
NobodyWaitsInVain ==
  \A i \in DOMAIN queue :
    /\ SignalOf(queue[i]) \notin aborted
    /\ \/ activeLeases >= Ceiling
       \/ activeByBucket[ProviderOf(queue[i])] >= bucketCap(ProviderOf(queue[i]))

\* Between handlers the books are exact: leases, counters, queue and ceilings
\* agree, and no capacity lies idle while somebody could use it.
Accounted == TypeOK /\ WithinCeilings /\ CountersExact /\ QueueExact /\ NobodyWaitsInVain

\* The inductive invariant: what is accounted for, and that no place of the
\* line is ahead of the arrivals, so that a new request is behind all others.
PlacesTaken == DOMAIN queue \subseteq 1 .. Arrived
IInv == WithinCeilings /\ CountersExact /\ QueueExact /\ NobodyWaitsInVain /\ PlacesTaken
Inductive == TypeOK /\ IInv

\* Requests of one provider are served in order of arrival: none is granted
\* while an earlier one of its provider stays in the queue.
FifoPerProvider ==
  [][\A i, j \in DOMAIN queue :
       i < j /\ ProviderOf(queue[i]) = ProviderOf(queue[j]) /\ pc'[queue[j]] = "granted"
         => pc'[queue[i]] # "queued"]_vars

\* Every request settles: full buckets and aborted neighbours only delay it.
EverySettles == \A r \in Request : pc[r] = "queued" ~> pc[r] \in {"done", "rejected"}

-----------------------------------------------------------------------------
(* The instance that SessionScheduler.cfg checks, requests 1 to 5: three of*)
(* provider "a" and two of "b"; requests 1, 2 and 4 share a signal, request*)
(* 3 has one of its own, request 5 has none.  The ceiling of "a" is        *)
(* configured, that of "b" is the default.                                 *)
MCProviderOf(r) == IF r <= 3 THEN "a" ELSE "b"
MCSignalOf(r) == CASE r \in {1, 2, 4} -> "s" [] r = 3 -> "t" [] OTHER -> "none"
MCSessionProviders == [p \in {"a"} |-> 1]
=============================================================================
