----------------------------- MODULE LocalRuntime -----------------------------
(***************************************************************************)
(* The on-demand local model server (src/local/runtime.ts, store.ts).      *)
(* Processes take and release leases under a directory lock; the one that  *)
(* finds no server spawns a supervisor, which starts the server, reads the *)
(* leases without the lock and stops the server when there were none for   *)
(* the grace period.  All profiles use one port.  Time is left out: a      *)
(* grace period, a deadline or a health timeout may end at any time.       *)
(* A stale lock is judged, removed and made anew in separate steps, so it  *)
(* can be taken from a process that works under it: a behaviour is         *)
(* followed until that happens (lost), and no further.  A start whose      *)
(* server.json cannot be written is left out.                              *)
(***************************************************************************)
EXTENDS Naturals, FiniteSets

CONSTANTS Proc, Model,
          MaxSups,     \* bound: supervisors that are spawned
          MaxTroubles  \* bound: crashes, operator stops, I/O errors, locks held for 120 s

VARIABLES
  pc,       \* of a process: "off", "want", "plan", "stopping", "spawn", "write", "health",
            \* "failed", "undo", "using", "release", "halt", "gone"
  want,     \* the model it asks for
  lock,     \* the owner of the lock, "free", or "nobody": a directory without its owner file
  judged,   \* processes that found the lock stale and are about to remove it
  lost,     \* the lock was removed while its owner worked under it
  leases,   \* processes with a lease
  strays,   \* processes with a lease on record that they failed to release: leases are counted
  mine,     \* processes whose ensure spawned a supervisor
  made,     \* supervisors spawned
  record,   \* server.json: [sup, server]; sup 0 for none, server when its pid is recorded
  sup,      \* "none", "spawned", "loop", "decided", "killing", "gone"
  serves,   \* supervisor -> its model
  child,    \* supervisor -> the server it owns: the index under which it was started, 0
  server,   \* "none", "up", "killed", "dead"
  asked,    \* supervisors with a SIGTERM
  excused,  \* processes whose server was stopped, or was to be, for a known reason
  troubles

kept == <<judged, lost, strays>>
vars == <<pc, want, lock, leases, mine, made, record, sup, serves, child, server, asked, excused, troubles,
          kept>>

Sup   == 1 .. MaxSups
None  == [sup |-> 0, server |-> FALSE]
Alive(i) == i # 0 /\ sup[i] \in {"spawned", "loop", "decided", "killing"}
PortFree == \A i \in Sup : server[i] \notin {"up", "killed"}

Init ==
  /\ pc = [p \in Proc |-> "off"] /\ want \in [Proc -> Model] /\ lock = "free"
  /\ judged = {} /\ lost = FALSE /\ leases = {} /\ strays = {}
  /\ mine = {} /\ made = 0 /\ record = None
  /\ sup = [i \in Sup |-> "none"] /\ serves = [i \in Sup |-> CHOOSE m \in Model : TRUE]
  /\ child = [i \in Sup |-> 0] /\ server = [i \in Sup |-> "none"]
  /\ asked = {} /\ excused = {} /\ troubles = 0

To(p, l) == pc' = [pc EXCEPT ![p] = l]

\* Dead holders are pruned whenever the leases are read.
Holders == {p \in leases \cup strays : pc[p] # "gone"}

\* The processes that rely on a server at this moment.
Users == {p \in Proc : pc[p] \in {"write", "health", "using"}}

Spawn(m, started) ==
  /\ made < MaxSups /\ made' = made + 1
  /\ sup' = [sup EXCEPT ![made + 1] = "spawned"] /\ serves' = [serves EXCEPT ![made + 1] = m]
  /\ child' = [child EXCEPT ![made + 1] = started]
-----------------------------------------------------------------------------
Trouble == troubles < MaxTroubles /\ troubles' = troubles + 1

\* withLock: mkdir makes the lock.
Enter(p, from, to) ==
  /\ pc[p] = from /\ lock = "free" /\ p \notin judged /\ To(p, to) /\ lock' = p

\* A lock is found stale: its owner is gone or unknown, or it is held for 120 s (while the
\* machine slept, say).  Who is "off" waits to stop the server.
Waits(p) == pc[p] \in {"off", "want", "failed", "release"} /\ p \notin judged

Stale == IF lock = "nobody" THEN TRUE ELSE lock # "free" /\ pc[lock] = "gone"

Judge(p) ==
  /\ Waits(p) /\ lock # "free" /\ judged' = judged \cup {p}
  /\ IF Stale THEN UNCHANGED troubles ELSE Trouble
  /\ UNCHANGED <<pc, want, lock, lost, leases, strays, mine, made, record, sup, serves, child, server, asked,
                 excused>>

\* It is removed, whichever lock is there by now.
Remove(p) ==
  /\ p \in judged /\ judged' = judged \ {p} /\ lock' = "free"
  /\ lost' = (lock \in Proc /\ ~Stale)
  /\ UNCHANGED <<pc, want, leases, strays, mine, made, record, sup, serves, child, server, asked, excused,
                 troubles>>

\* lock-busy, or an I/O error (which may leave a lock without its owner file): a release
\* that fails leaves its lease on record.
LockBusy == lock \in Proc /\ ~Stale /\ UNCHANGED <<lock, troubles>>
IoError  == lock = "free" /\ Trouble /\ lock' \in {"free", "nobody"}

Fails(p) ==
  /\ Waits(p) /\ pc[p] # "off" /\ (LockBusy \/ IoError) /\ To(p, "off")
  /\ leases' = leases \ {p} /\ strays' = strays \cup (leases \cap {p})
  /\ UNCHANGED <<want, judged, lost, mine, made, record, sup, serves, child, server, asked, excused>>

Want(p) ==
  /\ pc[p] = "off" /\ p \notin judged /\ To(p, "want") /\ excused' = excused \ {p}
  /\ UNCHANGED <<want, lock, leases, mine, made, record, sup, serves, child, server, asked,
                 troubles, kept>>

\* runningServer drops a record without a living process.
Recorded == IF \/ Alive(record.sup)
               \/ record.server /\ server[child[record.sup]] \in {"up", "killed"} THEN record ELSE None

Lock(p) ==
  /\ Enter(p, "want", "plan") /\ record' = Recorded
  /\ UNCHANGED <<want, leases, mine, made, sup, serves, child, server, asked, excused, troubles, kept>>

\* reconcileLocked: a recorded server without its supervisor is adopted by a new
\* one, or stopped like any other (StopFirst) when it was idle for long enough.
Orphan == record.sup # 0 /\ ~Alive(record.sup)

Adopt(p) ==
  /\ pc[p] = "plan" /\ Orphan /\ Spawn(serves[record.sup], child[record.sup])
  /\ record' = [sup |-> made + 1, server |-> TRUE]
  /\ UNCHANGED <<pc, want, lock, leases, mine, server, asked, excused, troubles, kept>>

\* Seeded bug: who else uses the running model is not asked.
BugUnused(p) == TRUE

\* Nobody else uses the running model.
Unused(p) == Holders = {}

Refuse(p) == To(p, "off") /\ lock' = "free"

Doomed(i) == i \in asked \/ sup[i] \in {"decided", "killing"} \/ server[child[i]] \in {"killed", "dead"}

\* planStart: attach to the server of this model.  Its supervisor may have decided
\* to stop by now, or be told to.
Attach(p) ==
  /\ pc[p] = "plan" /\ Alive(record.sup) /\ serves[record.sup] = want[p]
  /\ To(p, "health") /\ lock' = "free"
  /\ leases' = leases \cup {p} /\ mine' = mine \ {p}
  /\ excused' = IF Doomed(record.sup)
                THEN excused \cup {p} ELSE excused
  /\ UNCHANGED <<want, made, record, sup, serves, child, server, asked, troubles, kept>>

\* stopRecord: the supervisor is told, a server without one is killed.
Stopping(i) == asked' = IF Alive(i) THEN asked \cup {i} ELSE asked

StopFirst(p) ==
  /\ pc[p] = "plan" /\ record # None
  /\ IF Orphan THEN Holders = {} ELSE serves[record.sup] # want[p] /\ Unused(p)
  /\ To(p, "stopping") /\ Stopping(record.sup)
  /\ UNCHANGED <<want, lock, leases, mine, made, record, sup, serves, child, server, excused,
                 troubles, kept>>

\* Another model is in use, the preflight fails, or the lease cannot be saved.
RefusePlan(p) ==
  /\ pc[p] \in {"plan", "spawn"} /\ Refuse(p)
  /\ UNCHANGED <<want, leases, mine, made, record, sup, serves, child, server, asked, excused,
                 troubles, kept>>

\* The supervisor is gone (in the 30 s that it has for that: an assumption); a server
\* that is left and known gets a SIGKILL, and the record is removed.
StopOver == ~Alive(record.sup)
KilledServer ==
  [i \in Sup |-> IF /\ record.server /\ i = child[record.sup] /\ server[i] = "up"
                 THEN "killed" ELSE server[i]]

Stopped(p) ==
  /\ pc[p] = "stopping" /\ StopOver /\ server' = KilledServer /\ record' = None /\ To(p, "spawn")
  /\ UNCHANGED <<want, lock, leases, mine, made, sup, serves, child, asked, excused, troubles, kept>>

\* The preflight: no other server, and the port is free.
Room == PortFree

\* The lease is taken and a supervisor spawned; its record is written after that.
SpawnFor(p) ==
  /\ \/ pc[p] = "spawn"
     \/ pc[p] = "plan" /\ record = None
  /\ Room /\ Spawn(want[p], made + 1) /\ To(p, "write")
  /\ leases' = leases \cup {p} /\ mine' = mine \cup {p}
  /\ UNCHANGED <<want, lock, record, server, asked, excused, troubles, kept>>

Write(p) ==
  /\ pc[p] = "write" /\ record' = [sup |-> made, server |-> FALSE]
  /\ To(p, "health") /\ lock' = "free"
  /\ UNCHANGED <<want, leases, mine, made, sup, serves, child, server, asked, excused, troubles, kept>>

\* A server of this model answers on the port.
Serves(m) == \E i, j \in Sup : server[i] = "up" /\ child[j] = i /\ serves[j] = m

\* The health loop: the port answers, or the supervisor is gone, or time is up.
\* Whose server it is that answers is not asked.
Healthy(p) ==
  /\ pc[p] = "health" /\ \E i \in Sup : server[i] = "up"
  /\ To(p, "using")
  /\ excused' = IF Serves(want[p]) /\ Recorded # None /\ server[child[record.sup]] = "up"
                THEN excused ELSE excused \cup {p}
  /\ UNCHANGED <<want, lock, leases, mine, made, record, sup, serves, child, server, asked,
                 troubles, kept>>

Unhealthy(p) ==
  /\ pc[p] = "health" /\ To(p, "failed")
  /\ UNCHANGED <<want, lock, leases, mine, made, record, sup, serves, child, server, asked, excused,
                 troubles, kept>>

\* The holders that are left when p has released its lease.
Others(p) == {q \in (leases \ {p}) \cup strays : pc[q] # "gone"}

\* A start that did not come up keeps no lease, nor a server that nobody uses.
Undo(p) ==
  /\ Enter(p, "failed", "undo") /\ record' = Recorded
  /\ leases' = leases \ {p}
  /\ IF p \in mine /\ Recorded # None /\ Others(p) = {} THEN Stopping(record.sup) ELSE UNCHANGED asked
  /\ UNCHANGED <<want, mine, made, sup, serves, child, server, excused, troubles, kept>>

Undone(p) ==
  /\ pc[p] = "undo" /\ (p \in mine /\ Holders = {} => StopOver) /\ To(p, "off") /\ lock' = "free"
  /\ IF p \in mine /\ Holders = {} THEN server' = KilledServer /\ record' = None
                                   ELSE UNCHANGED <<server, record>>
  /\ UNCHANGED <<want, leases, mine, made, sup, serves, child, asked, excused, troubles, kept>>

Release(p) ==
  /\ pc[p] = "using" /\ To(p, "release")
  /\ UNCHANGED <<want, lock, leases, mine, made, record, sup, serves, child, server, asked, excused,
                 troubles, kept>>

\* reconcile, which gives up without a word: p holds a lease, so an orphan that is
\* seen is adopted.
Heal(p) ==
  /\ pc[p] = "release" /\ lock = "free" /\ p \notin judged /\ Orphan /\ Recorded # None
  /\ Spawn(serves[record.sup], child[record.sup])
  /\ record' = [sup |-> made + 1, server |-> TRUE]
  /\ UNCHANGED <<pc, want, lock, leases, mine, server, asked, excused, troubles, kept>>

\* releaseLease, one step under the lock, when it does not fail.
Released(p) ==
  /\ pc[p] = "release" /\ lock = "free" /\ p \notin judged
  /\ To(p, "off") /\ leases' = leases \ {p}
  /\ UNCHANGED <<want, lock, mine, made, record, sup, serves, child, server, asked, excused,
                 troubles, kept>>
-----------------------------------------------------------------------------
(* The supervisor.                                                         *)

\* It starts its server, which exits when the port is taken, and adds the pid to the
\* record, if that is there by now.
SupStarts(i) ==
  /\ sup[i] = "spawned" /\ sup' = [sup EXCEPT ![i] = "loop"]
  /\ IF child[i] = i
     THEN server' = [server EXCEPT ![i] = IF PortFree THEN "up" ELSE "dead"]
     ELSE UNCHANGED server
  /\ record' = IF child[i] = i /\ record # None THEN [record EXCEPT !.server = TRUE] ELSE record
  /\ UNCHANGED <<pc, want, lock, leases, mine, made, serves, child, asked, excused, troubles, kept>>

\* Seeded bug: leases that are taken are not looked for.
BugIdle == TRUE

\* peekLeases: nobody holds one (and none did for the grace period).
Idle == Holders = {}

\* The loop ends.  Whoever comes to rely on this server from now on is excused.
Decide(i) ==
  /\ sup[i] = "loop"
  /\ i \in asked \/ server[child[i]] = "dead" \/ Idle
  /\ sup' = [sup EXCEPT ![i] = "decided"]
  /\ UNCHANGED <<pc, want, lock, leases, mine, made, record, serves, child, server, asked, excused,
                 troubles, kept>>

SupKills(i) ==
  /\ sup[i] = "decided" /\ sup' = [sup EXCEPT ![i] = "killing"]
  /\ server' = [server EXCEPT ![child[i]] = IF @ = "up" THEN "killed" ELSE @]
  /\ UNCHANGED <<pc, want, lock, leases, mine, made, record, serves, child, asked, excused,
                 troubles, kept>>

\* The server is gone and its port free, or the waiting is over.  The record goes,
\* whichever it is.
SupEnds(i) ==
  /\ sup[i] = "killing" /\ sup' = [sup EXCEPT ![i] = "gone"] /\ record' = None
  /\ UNCHANGED <<pc, want, lock, leases, mine, made, serves, child, server, asked, excused,
                 troubles, kept>>

Dies(i) ==
  /\ server[i] = "killed" /\ server' = [server EXCEPT ![i] = "dead"]
  /\ UNCHANGED <<pc, want, lock, leases, mine, made, record, sup, serves, child, asked, excused,
                 troubles, kept>>

\* WATCHDOG: a server whose own supervisor is gone is killed, adopted or not.
Watchdog(i) ==
  /\ server[i] = "up" /\ ~Alive(i)
  /\ server' = [server EXCEPT ![i] = "killed"] /\ excused' = excused \cup Users
  /\ UNCHANGED <<pc, want, lock, leases, mine, made, record, sup, serves, child, asked, troubles, kept>>
-----------------------------------------------------------------------------
\* local stop: the operator's process stops the server and clears the leases.
OperatorStop(p) ==
  /\ Enter(p, "off", "halt") /\ record # None /\ Trouble /\ Stopping(record.sup)
  /\ excused' = excused \cup Users \cup {q \in Proc : pc[q] = "failed"}
  /\ UNCHANGED <<want, leases, mine, made, record, sup, serves, child, server, kept>>

OperatorStopped(p) ==
  /\ pc[p] = "halt" /\ StopOver /\ To(p, "off") /\ lock' = "free"
  /\ server' = KilledServer /\ record' = None /\ leases' = {} /\ strays' = {}
  /\ UNCHANGED <<want, judged, lost, mine, made, sup, serves, child, asked, excused, troubles>>

SupCrash(i) ==
  /\ Alive(i) /\ Trouble /\ sup' = [sup EXCEPT ![i] = "gone"] /\ excused' = excused \cup Users
  /\ UNCHANGED <<pc, want, lock, leases, mine, made, record, serves, child, server, asked, kept>>

ProcCrash(p) ==
  /\ pc[p] \notin {"off", "gone"} /\ Trouble /\ To(p, "gone") /\ judged' = judged \ {p}
  /\ UNCHANGED <<want, lock, lost, leases, strays, mine, made, record, sup, serves, child, server, asked,
                 excused>>

Next ==
  /\ ~lost
  /\ \/ \E p \in Proc :
          \/ Want(p) \/ Lock(p) \/ Adopt(p) \/ Attach(p) \/ StopFirst(p) \/ RefusePlan(p) \/ Stopped(p)
          \/ SpawnFor(p) \/ Write(p) \/ Healthy(p) \/ Unhealthy(p) \/ Undo(p) \/ Undone(p)
          \/ Release(p) \/ Heal(p) \/ Released(p) \/ OperatorStop(p) \/ OperatorStopped(p)
          \/ Judge(p) \/ Remove(p) \/ Fails(p) \/ ProcCrash(p)
     \/ \E i \in Sup : \/ SupStarts(i) \/ Decide(i) \/ SupKills(i) \/ SupEnds(i) \/ Dies(i) \/ Watchdog(i)
                       \/ SupCrash(i)

\* Everything but new work, its end and the troubles.
Own ==
  /\ ~lost
  /\ \/ \E p \in Proc :
          \/ Lock(p) \/ Adopt(p) \/ Attach(p) \/ StopFirst(p) \/ RefusePlan(p) \/ Stopped(p)
          \/ SpawnFor(p) \/ Write(p) \/ Healthy(p) \/ Unhealthy(p) \/ Undo(p) \/ Undone(p)
          \/ Heal(p) \/ Released(p) \/ OperatorStopped(p)
          \/ Stale /\ Judge(p)
          \/ Remove(p)
     \/ \E i \in Sup : \/ SupStarts(i) \/ Decide(i) \/ SupKills(i) \/ SupEnds(i) \/ Dies(i) \/ Watchdog(i)

Fairness == WF_vars(Own)

Spec == Init /\ [][Next]_vars /\ Fairness
-----------------------------------------------------------------------------
TypeOK ==
  /\ lock \in Proc \cup {"free", "nobody"} /\ leases \cup strays \subseteq Proc /\ record.sup \in 0 .. made

\* A process that uses a model has its lease, and the server of that very model,
\* whatever the others do: only a stop by the operator, a crash, or an idle stop
\* that was under way when it came take it away.
UsersAreServed ==
  \A p \in Proc : pc[p] = "using" /\ p \notin excused =>
    p \in leases /\ Serves(want[p])

\* Two servers never run side by side.
OneServer == Cardinality({i \in Sup : server[i] = "up"}) <= 1

\* No lease outlives its use, and only one process plans or starts a server.
LeasesReturned ==
  /\ \A p \in Proc : pc[p] \in {"off", "want", "plan", "stopping", "spawn"} => p \notin leases
  /\ \A p, q \in Proc :
       {pc[p], pc[q]} \subseteq {"plan", "stopping", "spawn", "write", "undo", "halt"} => p = q

\* All of it as long as nobody's lock was removed while it worked under it.
LocalSound == ~lost => TypeOK /\ UsersAreServed /\ OneServer /\ LeasesReturned

Typed ==
  /\ pc \in [Proc -> {"off", "want", "plan", "stopping", "spawn", "write", "health", "failed", "undo",
                     "using", "release", "halt", "gone"}]
  /\ want \in [Proc -> Model] /\ lock \in Proc \cup {"free", "nobody"}
  /\ judged \subseteq Proc /\ lost \in BOOLEAN /\ leases \subseteq Proc /\ strays \subseteq Proc
  /\ made \in 0 .. MaxSups /\ asked \subseteq 1 .. made /\ record \in [sup : 0 .. made, server : BOOLEAN]
  /\ sup \in [Sup -> {"none", "spawned", "loop", "decided", "killing", "gone"}]
  /\ serves \in [Sup -> Model] /\ child \in [Sup -> 0 .. made]
  /\ server \in [Sup -> {"none", "up", "killed", "dead"}]

\* Who plans, starts or stops a server has the lock; a lease is held by those who use
\* a server, all but the excused.
Locked ==
  \A p \in Proc :
    /\ pc[p] \in {"plan", "stopping", "spawn", "write", "undo", "halt"} => lock = p
    /\ pc[p] \in {"off", "want", "plan", "stopping", "spawn", "undo", "halt"} => p \notin leases
    /\ pc[p] = "write" \/ (p \in Users /\ p \notin excused) => p \in leases

\* A server is its starter's and its adopters', who serve one model; the starter is
\* gone when another has it.
Owned ==
  \A i \in Sup :
    /\ IF i > made THEN sup[i] = "none" /\ child[i] = 0 /\ server[i] = "none"
                   ELSE sup[i] # "none" /\ child[i] \in 1 .. i
    /\ server[i] # "none" => child[i] = i /\ sup[i] # "spawned"
    /\ sup[i] = "killing" => server[child[i]] # "up"
    /\ \A j \in Sup : /\ child[j] = i /\ j # i => sup[i] = "gone"
                      /\ child[j] = child[i] /\ i <= made => serves[j] = serves[i]
                      /\ {server[i], server[j]} \subseteq {"up", "killed"} => i = j

\* The record names the one supervisor that its server has left; it is not there while a
\* new one is started, which nobody has told to stop.
Named ==
  /\ record.sup = 0 => record = None
  /\ record.sup # 0 => \A j \in Sup : Alive(j) /\ child[j] = child[record.sup] => j = record.sup
  /\ \A p \in Proc :
       /\ pc[p] \in {"spawn", "write"} => record = None
       /\ pc[p] = "write" => /\ made # 0 /\ made \notin asked
                             /\ \A j \in Sup : child[j] = made <=> j = made
                             /\ sup[made] = "decided" => server[made] # "up"

\* A server that is to be stopped has no user but the excused.
Told ==
  /\ /\ Alive(record.sup)
     /\ \/ record.sup \in asked
        \/ sup[record.sup] = "decided" /\ server[child[record.sup]] = "up"
     => Users \subseteq excused
  /\ (\E p \in Proc : pc[p] \in {"stopping", "halt"}) => Users \subseteq excused

\* Who uses a model has a server of it that nobody has told to stop.
Served ==
  \A p \in Proc : pc[p] = "using" /\ p \notin excused =>
    \E i \in Sup : /\ server[i] = "up"
                  /\ \A j \in Sup : child[j] = i => /\ serves[j] = want[p]
                                                    /\ Alive(j) => j \notin asked /\ sup[j] # "decided"

IInv == Typed /\ Locked /\ Owned /\ Named /\ Told /\ Served

\* withLock runs its function holding the directory lock: not so in this code, where a
\* waiter that was slow, or waited for 120 s, removes a lock that is in use.
LockIsHeld == ~lost

\* A server that nobody uses any more is stopped, whatever crashed; not when a live process
\* has left a lease behind that it failed to release.
Ended == \/ lost
         \/ \E p \in Proc : pc[p] \notin {"off", "gone"} \/ (p \in strays /\ pc[p] # "gone")
         \/ \A i \in Sup : ~Alive(i) /\ server[i] \notin {"up", "killed"}

LocalEnds == []<>Ended

\* A server that was adopted, and is in use, lives on: not so in this code, whose
\* WATCHDOG asks for the supervisor that started it.
AdoptedLives ==
  \A i, j \in Sup : /\ i # j /\ child[j] = i /\ sup[j] = "loop" /\ j \notin asked
                    /\ Holders # {}
                    => server[i] # "killed"
=============================================================================
