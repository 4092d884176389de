------------------------------ MODULE HostSession ------------------------------
(***************************************************************************)
(* The session runtimes of the host (extensions/ultraterm-subagents.ts):   *)
(* a runtime is created for the session that a tool call or session_start  *)
(* is about, claims the lease of that session's checkpoints, and is torn   *)
(* down when the session is left.  The host waits only so long for its     *)
(* workers; after that the lease stays with the old runtime until they     *)
(* have really ended, and a new runtime of the session is read-only.  For  *)
(* the lease itself see CheckpointLock.                                    *)
(***************************************************************************)
EXTENDS Naturals, FiniteSets

CONSTANTS Session,
          MaxRuntimes,  \* bound: runtimes that are created
          MaxForeign    \* bound: times another host takes a lease

VARIABLES
  made,       \* runtimes created
  cur,        \* the variable runtime, 0 for undefined
  rt,         \* runtime -> [owner, closed, store, degraded]
  shut,       \* its shutdown: "no", "begun", "settled", "rejected"
  live,       \* runtimes with a worker that may write
  pending,    \* runtimes with an admitted dispatch that has not started yet
  teardowns,  \* runtime -> calls of destroyRuntime that wait for the shutdown
  retained,   \* retainedTeardowns
  lease,      \* session -> its holder: a runtime, 0, or Foreign
  starting,   \* session_start handlers that wait for a teardown
  warning,    \* the owner of lastShutdownWarning, or "none"
  foreign     \* times that another host took a lease

vars == <<made, cur, rt, shut, live, pending, teardowns, retained, lease, starting, warning, foreign>>

Runtime == 1 .. MaxRuntimes
Foreign == MaxRuntimes + 1
Blank   == [owner |-> "none", closed |-> FALSE, store |-> FALSE, degraded |-> FALSE]

Init ==
  /\ made = 0 /\ cur = 0 /\ rt = [r \in Runtime |-> Blank] /\ shut = [r \in Runtime |-> "no"]
  /\ live = {} /\ pending = {} /\ teardowns = [r \in Runtime |-> 0] /\ retained = {}
  /\ lease = [s \in Session |-> 0] /\ starting = {} /\ warning = "none" /\ foreign = 0

Open(r) == r # 0 /\ ~rt[r].closed
-----------------------------------------------------------------------------
\* claimStore within ensureRuntime, for session s: the lease is free, or held by
\* another runtime of this process, or (then ensureRuntime throws) by another host.
Create(s) ==
  /\ made < MaxRuntimes /\ lease[s] # Foreign
  /\ made' = made + 1 /\ cur' = made + 1
  /\ rt' = [rt EXCEPT ![made + 1] =
              [owner |-> s, closed |-> FALSE, store |-> lease[s] = 0, degraded |-> lease[s] # 0]]
  /\ lease' = IF lease[s] = 0 THEN [lease EXCEPT ![s] = made + 1] ELSE lease

\* A tool call that finds no open runtime.
Ensure(s) ==
  /\ ~Open(cur) /\ Create(s)
  /\ UNCHANGED <<shut, live, pending, teardowns, retained, starting, warning, foreign>>

\* One that finds a read-only runtime claims again, and adopts the store.
Reclaim ==
  /\ Open(cur) /\ rt[cur].degraded /\ lease[rt[cur].owner] = 0
  /\ rt' = [rt EXCEPT ![cur].store = TRUE, ![cur].degraded = FALSE]
  /\ lease' = [lease EXCEPT ![rt[cur].owner] = cur]
  /\ UNCHANGED <<made, cur, shut, live, pending, teardowns, retained, starting, warning, foreign>>

\* assertDurableForNewWork, then everything that a dispatch awaits.
Admit ==
  /\ Open(cur) /\ ~rt[cur].degraded /\ pending' = pending \cup {cur}
  /\ UNCHANGED <<made, cur, rt, shut, live, teardowns, retained, lease, starting, warning, foreign>>

\* The initial checkpoint needs the store, coordinator.start an open coordinator.
Start(r) ==
  /\ r \in pending /\ pending' = pending \ {r}
  /\ live' = IF shut[r] = "no" /\ rt[r].store THEN live \cup {r} ELSE live
  /\ UNCHANGED <<made, cur, rt, shut, teardowns, retained, lease, starting, warning, foreign>>

\* The last worker returns.
WorkersEnd(r) ==
  /\ r \in live /\ live' = live \ {r}
  /\ UNCHANGED <<made, cur, rt, shut, pending, teardowns, retained, lease, starting, warning, foreign>>
-----------------------------------------------------------------------------
\* The first part of destroyRuntime, for session_shutdown or a session_start of
\* another session.
Destroy(then) ==
  /\ cur # 0 /\ teardowns' = [teardowns EXCEPT ![cur] = @ + 1]
  /\ rt' = [rt EXCEPT ![cur].closed = TRUE]
  /\ starting' = starting \cup then
  /\ UNCHANGED <<made, cur, shut, live, pending, retained, lease, warning, foreign>>

Leave == cur # 0 /\ teardowns[cur] < 2 /\ Destroy({})
SwitchTo(s) == /\ cur # 0 /\ teardowns[cur] < 2 /\ starting = {}
               /\ (rt[cur].owner # s \/ rt[cur].closed) /\ Destroy({s})

\* coordinator.shutdown runs a microtask later; it is one promise, however often
\* it is asked for.
Shutdown(r) ==
  /\ teardowns[r] > 0 /\ shut[r] = "no" /\ shut' = [shut EXCEPT ![r] = "begun"]
  /\ UNCHANGED <<made, cur, rt, live, pending, teardowns, retained, lease, starting, warning, foreign>>

\* It settles when every worker has; a rejection says nothing.
ShutdownEnds(r) ==
  /\ shut[r] = "begun"
  /\ \/ r \notin live /\ shut' = [shut EXCEPT ![r] = "settled"]
     \/ shut' = [shut EXCEPT ![r] = "rejected"]
  /\ UNCHANGED <<made, cur, rt, live, pending, teardowns, retained, lease, starting, warning, foreign>>

\* store.close: a runtime's own lease.
Closed(r) == [s \in Session |-> IF lease[s] = r THEN 0 ELSE lease[s]]

\* releaseRuntimeUi.
Released(r) == cur' = IF cur = r THEN 0 ELSE cur

\* boundedShutdown answered in time.
Disposed(r) ==
  /\ teardowns[r] > 0 /\ shut[r] = "settled"
  /\ teardowns' = [teardowns EXCEPT ![r] = @ - 1]
  /\ lease' = Closed(r) /\ rt' = [rt EXCEPT ![r].store = FALSE] /\ Released(r)
  /\ UNCHANGED <<made, shut, live, pending, retained, starting, warning, foreign>>

\* Seeded bug: the lease goes with the user interface.
BugKept(r) == Closed(r)

\* What the lease is when the grace period ends.
Kept(r) == lease

\* It did not, or the shutdown was rejected: the lease is retained.
Retain(r) ==
  /\ teardowns[r] > 0 /\ shut[r] # "no"
  /\ teardowns' = [teardowns EXCEPT ![r] = @ - 1]
  /\ lease' = Kept(r) /\ retained' = retained \cup {r} /\ warning' = rt[r].owner /\ Released(r)
  /\ UNCHANGED <<made, rt, shut, live, pending, starting, foreign>>

\* Seeded bug: any end of the shutdown will do.
BugReallySettled(r) == shut[r] \in {"settled", "rejected"}

\* A rejection is no proof that the workers stopped.
ReallySettled(r) == shut[r] = "settled"

\* settleRetainedTeardown.
SettleRetained(r) ==
  /\ r \in retained /\ ReallySettled(r)
  /\ lease' = Closed(r) /\ rt' = [rt EXCEPT ![r].store = FALSE] /\ retained' = retained \ {r}
  /\ warning' = IF /\ warning = rt[r].owner
                   /\ \A q \in retained \ {r} : rt[q].owner # rt[r].owner THEN "none" ELSE warning
  /\ UNCHANGED <<made, cur, shut, live, pending, teardowns, starting, foreign>>

\* session_start goes on.  It takes the open runtime that is there by then, or
\* refuses it when it is of another session.
Started(s) ==
  /\ s \in starting /\ \A r \in Runtime : teardowns[r] = 0
  /\ starting' = starting \ {s}
  /\ IF ~Open(cur) /\ lease[s] # Foreign /\ made < MaxRuntimes
     THEN Create(s) ELSE UNCHANGED <<made, cur, rt, lease>>
  /\ UNCHANGED <<shut, live, pending, teardowns, retained, warning, foreign>>

\* Another host opens the session, and leaves it.
ForeignTakes(s) ==
  /\ lease[s] = 0 /\ foreign < MaxForeign /\ foreign' = foreign + 1
  /\ lease' = [lease EXCEPT ![s] = Foreign]
  /\ UNCHANGED <<made, cur, rt, shut, live, pending, teardowns, retained, starting, warning>>
ForeignLeaves(s) ==
  /\ lease[s] = Foreign /\ lease' = [lease EXCEPT ![s] = 0]
  /\ UNCHANGED <<made, cur, rt, shut, live, pending, teardowns, retained, starting, warning, foreign>>
-----------------------------------------------------------------------------
Next ==
  \/ Reclaim \/ Admit \/ Leave
  \/ \E s \in Session : Ensure(s) \/ SwitchTo(s) \/ Started(s) \/ ForeignTakes(s) \/ ForeignLeaves(s)
  \/ \E r \in Runtime : \/ Start(r) \/ WorkersEnd(r) \/ Shutdown(r) \/ ShutdownEnds(r)
                        \/ Disposed(r) \/ Retain(r) \/ SettleRetained(r)

\* The steps of a teardown.  That workers end is not assumed.
Own == \/ \E s \in Session : Started(s)
       \/ \E r \in Runtime : \/ Shutdown(r) \/ Disposed(r) \/ Retain(r) \/ SettleRetained(r)

Fairness == WF_vars(Own)

Spec == Init /\ [][Next]_vars /\ Fairness
-----------------------------------------------------------------------------
TypeOK == /\ cur \in 0 .. made /\ live \cup pending \cup retained \subseteq 1 .. made
          /\ \A s \in Session : lease[s] \in 0 .. Foreign

\* A runtime whose worker may write holds the lease of its session, however the
\* teardown went: so no two runtimes, of this host or of another, write one
\* session, and no worker runs that could not be recovered.
LeaseCoversWorkers == \A r \in live : lease[rt[r].owner] = r

\* A runtime writes checkpoints only under its lease, and is read-only otherwise.
StoreIsLeased == \A r \in 1 .. made : (rt[r].store <=> lease[rt[r].owner] = r)
                                      /\ (rt[r].degraded => ~rt[r].store)

\* The warning is about a lease that is still retained, and no lease is held by a
\* runtime that is neither in use, nor being torn down, nor retained.
NoLeaseForgotten ==
  /\ warning # "none" => \E r \in retained : rt[r].owner = warning
  /\ \A s \in Session : lease[s] \in Runtime =>
       LET r == lease[s] IN r = cur \/ teardowns[r] > 0 \/ r \in retained

SessionSound == TypeOK /\ LeaseCoversWorkers /\ StoreIsLeased /\ NoLeaseForgotten

Typed == /\ made \in 0 .. MaxRuntimes /\ foreign \in Nat
         /\ rt \in [Runtime -> [owner : Session \cup {"none"}, closed : BOOLEAN, store : BOOLEAN,
                                degraded : BOOLEAN]]
         /\ shut \in [Runtime -> {"no", "begun", "settled", "rejected"}]
         /\ teardowns \in [Runtime -> Nat] /\ starting \subseteq Session
         /\ lease \in [Session -> 0 .. Foreign]

\* A runtime is made for a session; what it holds is the lease of that one.
Owned == /\ \A r \in 1 .. made : rt[r].owner \in Session
         /\ \A s \in Session : lease[s] \in Runtime => lease[s] <= made /\ rt[lease[s]].owner = s

\* A runtime whose workers have ended starts none again.
Over == \A r \in live : shut[r] # "settled"

\* The variable runtime is let go before a teardown is over, and only what was made
\* is torn down.
InUse == /\ cur # 0 /\ rt[cur].closed => teardowns[cur] > 0
         /\ \A r \in Runtime : teardowns[r] > 0 => r <= made

IInv == Typed /\ Owned /\ Over /\ InUse /\ SessionSound

\* Every teardown returns, whatever the workers do, and one whose workers ended
\* gives the lease back.
Ended == /\ \A r \in Runtime : teardowns[r] = 0 /\ (r \in retained => shut[r] # "settled")
         /\ starting = {}

SessionEnds == []<>Ended
=============================================================================
