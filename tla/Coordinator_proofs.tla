------------------------- MODULE Coordinator_proofs -------------------------
(***************************************************************************)
(* Proofs about a run of the coordinator, for any number of tasks, any     *)
(* width, budgets, results and waits.                                      *)
(*                                                                         *)
(* Then what the host does about its runs, the instances of MCRuns: the    *)
(* delivery of their completions, a dispatch, sessions with their          *)
(* runtimes, and the calls of the hub.                                     *)
(***************************************************************************)
EXTENDS Coordinator, MCRuns, FiniteSetTheorems, SequenceTheorems, WellFoundedInduction, TLAPS

\* Sets of tasks are finite, and so are their parts.
LEMMA Tasks ==
  ASSUME NEW S \in SUBSET Task
  PROVE  /\ IsFiniteSet(S) /\ Cardinality(S) \in Nat /\ S \in SUBSET Nat
         /\ \A T \in SUBSET S : Cardinality(T) \in Nat /\ Cardinality(T) <= Cardinality(S)
<1>1. IsFiniteSet(S) /\ Task \in SUBSET Nat
  BY RunAssumption, FS_Subset, FS_CardinalityType
<1>2. \A T \in SUBSET S : IsFiniteSet(T) /\ Cardinality(T) <= Cardinality(S)
  BY <1>1, FS_Subset
<1> QED
  BY <1>1, <1>2, FS_CardinalityType

\* Counting two groups of tasks that have none in common.
LEMMA Together ==
  ASSUME NEW S \in SUBSET Task, NEW T \in SUBSET Task, S \cap T = {}
  PROVE  Cardinality(S \cup T) = Cardinality(S) + Cardinality(T)
<1>1. IsFiniteSet(S) /\ IsFiniteSet(T) /\ Cardinality(S) \in Nat /\ Cardinality(T) \in Nat
  BY Tasks
<1>2. Cardinality(S \cup T) = Cardinality(S) + Cardinality(T) - Cardinality(S \cap T)
  BY <1>1, FS_Union
<1>3. Cardinality(S \cap T) = 0
  BY FS_EmptySet
<1> QED
  BY <1>1, <1>2, <1>3

\* A finite set of numbers has a last one.
LEMMA LastNumber ==
  ASSUME NEW I \in SUBSET Nat, IsFiniteSet(I), I # {}
  PROVE  \E m \in I : \A i \in I : i <= m
<1> SUFFICES ASSUME \A m \in I : \E i \in I : m < i PROVE FALSE
  OBVIOUS
<1> DEFINE n == Cardinality(I)
           below(m) == {i \in I : i < m}
           c == [m \in I |-> Cardinality(below(m))]
<1>1. n \in Nat
  BY FS_CardinalityType
<1>2. ASSUME NEW m \in I PROVE Cardinality(below(m)) \in 0 .. n - 2
  <2>1. PICK k \in I : m < k
    OBVIOUS
  <2>2. IsFiniteSet(I \ {m}) /\ Cardinality(I \ {m}) = n - 1
    BY FS_RemoveElement
  <2>3. IsFiniteSet((I \ {m}) \ {k}) /\ Cardinality((I \ {m}) \ {k}) = n - 2
    <3>1. k \in I \ {m}
      BY <2>1
    <3>2. Cardinality((I \ {m}) \ {k}) = Cardinality(I \ {m}) - 1 /\ IsFiniteSet((I \ {m}) \ {k})
      BY <2>2, <3>1, FS_RemoveElement
    <3> HIDE DEF n
    <3> QED
      BY <1>1, <2>2, <3>2
  <2>4. below(m) \in SUBSET ((I \ {m}) \ {k})
    BY <2>1
  <2>5. IsFiniteSet(below(m)) /\ Cardinality(below(m)) <= n - 2
    BY <2>3, <2>4, FS_Subset
  <2>6. Cardinality(below(m)) \in Nat
    BY <2>5, FS_CardinalityType
  <2> QED
    BY <1>1, <2>5, <2>6
<1>3. c \in [I -> 0 .. n - 2]
  <2> HIDE DEF n, below
  <2> QED
    BY <1>2
<1>4. IsFiniteSet(0 .. n - 2) /\ Cardinality(0 .. n - 2) < n
  <2>1. n # 0
    BY FS_EmptySet
  <2> HIDE DEF n
  <2>2. 0 \in Int /\ n - 2 \in Int
    BY <1>1
  <2>3. IsFiniteSet(0 .. n - 2) /\ Cardinality(0 .. n - 2) = IF 0 > n - 2 THEN 0 ELSE n - 2 - 0 + 1
    BY <2>2, FS_Interval
  <2> QED
    BY <1>1, <2>1, <2>3
<1>5. PICK x \in I, y \in I : x # y /\ c[x] = c[y]
  <2> HIDE DEF c
  <2> QED
    BY <1>3, <1>4, FS_PigeonHole
<1>6. ASSUME NEW u \in I, NEW v \in I, u < v, c[u] = c[v] PROVE FALSE
  <2>1. below(u) \in SUBSET below(v) /\ u \in below(v) /\ u \notin below(u)
    <3>1. ~(u < u) /\ \A i \in I : i < u => i < v
      <4>1. u \in Nat /\ v \in Nat /\ \A i \in I : i \in Nat
        OBVIOUS
      <4> QED
        BY <1>6, <4>1
    <3> QED
      BY <1>6, <3>1
  <2>2. IsFiniteSet(below(v))
    BY FS_Subset
  <2> QED
    BY <1>6, <2>1, <2>2, FS_Subset
<1> QED
  BY <1>5, <1>6

\* A pump takes fresh tasks, and no more of them than the width has room for.
LEMMA PumpFits ==
  ASSUME NEW st, NEW r, r.inFlight \in Nat, r.inFlight <= Concurrency
  PROVE  /\ Pumped(st, r) \in SUBSET Fresh(st) /\ Pumped(st, r) \in SUBSET Task
         /\ r.inFlight + Cardinality(Pumped(st, r)) <= Concurrency
<1> DEFINE S == Pumped(st, r)
           ahead(t) == {u \in Fresh(st) : u < t}
<1>1. S \in SUBSET Fresh(st) /\ Fresh(st) \in SUBSET Task
  BY DEF Pumped, Fresh
<1>2. \A t \in S : r.inFlight + Cardinality(ahead(t)) < Concurrency
  BY DEF Pumped
<1> HIDE DEF S, ahead
<1>3. r.inFlight + Cardinality(S) <= Concurrency
  <2>1. CASE S = {}
    BY <2>1, RunAssumption, FS_EmptySet
  <2>2. CASE S # {}
    <3>1. S \in SUBSET Nat /\ IsFiniteSet(S) /\ Cardinality(S) \in Nat
      BY <1>1, Tasks
    <3>2. PICK m \in S : \A t \in S : t <= m
      BY <2>2, <3>1, LastNumber
    <3>3. S \ {m} \in SUBSET ahead(m) /\ ahead(m) \in SUBSET Task
      BY <1>1, <3>1, <3>2 DEF ahead
    <3>4. Cardinality(S \ {m}) <= Cardinality(ahead(m)) /\ Cardinality(ahead(m)) \in Nat
      BY <3>3, Tasks
    <3>5. Cardinality(S \ {m}) = Cardinality(S) - 1
      BY <3>1, FS_RemoveElement
    <3> QED
      BY <1>2, <3>1, <3>4, <3>5, RunAssumption
  <2> QED
    BY <2>1, <2>2
<1> QED
  BY <1>1, <1>3 DEF S

\* The turns of two groups of tasks that have none in common add up.
LEMMA TurnsAdd ==
  ASSUME NEW S \in SUBSET Task, NEW T \in SUBSET Task, S \cap T = {}, NEW f
  PROVE  /\ Cardinality(TurnsOf(S, f)) \in Nat
         /\ Cardinality(TurnsOf(S \cup T, f)) = Cardinality(TurnsOf(S, f)) + Cardinality(TurnsOf(T, f))
<1>1. ASSUME NEW U \in SUBSET Task PROVE IsFiniteSet(TurnsOf(U, f)) /\ Cardinality(TurnsOf(U, f)) \in Nat
  <2>1. IsFiniteSet(U) /\ IsFiniteSet(1 .. MaxTurns)
    BY Tasks, RunAssumption, FS_Interval
  <2>2. IsFiniteSet(U \X (1 .. MaxTurns))
    BY <2>1, FS_Product
  <2>3. TurnsOf(U, f) \in SUBSET (U \X (1 .. MaxTurns))
    BY DEF TurnsOf
  <2> QED
    BY <2>2, <2>3, FS_Subset, FS_CardinalityType
<1>2. TurnsOf(S \cup T, f) = TurnsOf(S, f) \cup TurnsOf(T, f)
  BY DEF TurnsOf
<1>3. TurnsOf(S, f) \cap TurnsOf(T, f) = {}
  BY DEF TurnsOf
<1>4. Cardinality(TurnsOf(S, f) \cap TurnsOf(T, f)) = 0
  BY <1>3, FS_EmptySet
<1>5. Cardinality(TurnsOf(S, f) \cup TurnsOf(T, f))
        = Cardinality(TurnsOf(S, f)) + Cardinality(TurnsOf(T, f)) - Cardinality(TurnsOf(S, f) \cap TurnsOf(T, f))
  BY <1>1, FS_Union
<1>6. Cardinality(TurnsOf(S, f)) \in Nat /\ Cardinality(TurnsOf(T, f)) \in Nat
  BY <1>1
<1>7. Cardinality(TurnsOf(S, f) \cup TurnsOf(T, f)) = Cardinality(TurnsOf(S, f)) + Cardinality(TurnsOf(T, f))
  BY <1>4, <1>5, <1>6
<1> QED
  BY <1>2, <1>6, <1>7
-----------------------------------------------------------------------------
RunType == [state : {"running", "done", "failed", "aborted"}, accepting : BOOLEAN,
            inFlight : Nat, completions : Nat, turns : Nat]

Over == {t \in Task : state[t] \in Terminal}

\* The accounts of the run without the types.
Counts == /\ run.state # "running" <=> Over = Task
          /\ run.state # "running" => run.state = Aggregate(state)
          /\ run.completions = Cardinality(Over)
          /\ run.turns = Cardinality(TurnsOf(Over, turns))

\* What the invariant says of one task.
Own(t) == /\ TaskSound(t)
          /\ pc[t] \in Working \cup {"lingering"} => t \in leases \cap slots
          /\ pc[t] \in {"undispatched", "gone"} => t \notin leases \cup slots
          /\ state[t] \in Terminal /\ stop[t] # "none" => state[t] = stop[t]

\* The invariant is what it says of the run and of every task.
LEMMA Parts == IInv <=> /\ TypeOK /\ WidthKept /\ Counts /\ NobodyWaitsInVain
                        /\ \A t \in Task : Own(t)
  BY DEF IInv, CapacityExact, CapacityFollowsWorker, RunAddsUp, StopDecides, Counts, Over, Own

\* The same after a step.
LEMMA PartsNext == IInv' <=> /\ TypeOK' /\ WidthKept' /\ Counts' /\ NobodyWaitsInVain'
                             /\ \A t \in Task : Own(t)'
  BY DEF IInv, CapacityExact, CapacityFollowsWorker, RunAddsUp, StopDecides, Counts, Over, Own

\* A handler that is not about task t leaves everything of it alone, but that it
\* may be dispatched.
Same(t) == /\ state'[t] = state[t] /\ stop'[t] = stop[t] /\ turns'[t] = turns[t]
           /\ prior'[t] = prior[t] /\ attempts'[t] = attempts[t] /\ alternate'[t] = alternate[t]
           /\ t \in retried' <=> t \in retried
           /\ t \in leases' <=> t \in leases
           /\ t \in slots' <=> t \in slots
           /\ history'.halted[t] = history.halted[t]
           /\ \/ pc'[t] = pc[t]
              \/ pc[t] = "undispatched" /\ state[t] = "queued" /\ pc'[t] = "queued"

\* Such a handler keeps what the invariant says of the task.
LEMMA SameOwn == ASSUME NEW t \in Task, Own(t), Same(t) PROVE Own(t)'
  BY DEF Own, Same, TaskSound, Ended, Held, Budgeted, Tried, Halted, Carried, Labels, Launching,
         Working, Terminal
-----------------------------------------------------------------------------
\* A handler that ends with Finish leaves the accounts of the run, its width and
\* its waits in order, when it has set the turns of no ended task and counts in r
\* the tasks that are underway as it leaves them.
LEMMA FinishSafe ==
  ASSUME IInv,
         NEW ending, DOMAIN ending \subseteq Task, \A t \in DOMAIN ending : ending[t] \in Terminal,
         NEW where, DOMAIN where \subseteq Task,
         \A t \in DOMAIN where : where[t] \in Labels \ {"undispatched"} /\ pc[t] # "undispatched",
         NEW r \in RunType, r.state = run.state, r.completions = run.completions, r.turns = run.turns,
         r.inFlight = Cardinality({t \in Task : (IF t \in DOMAIN where THEN where[t] ELSE pc[t])
                                                  \notin {"undispatched", "gone"}}),
         r.inFlight <= Concurrency,
         turns' \in [Task -> 0 .. MaxTurns],
         \A t \in Task : state[t] \in Terminal => turns'[t] = turns[t],
         NEW pumping, Finish(ending, r, pumping, where)
  PROVE  /\ state' \in [Task -> Terminal \cup {"queued", "starting", "running", "waiting"}]
         /\ \A t \in Task : state'[t] = IF t \in DOMAIN ending /\ state[t] \notin Terminal
                                        THEN ending[t] ELSE state[t]
         /\ pc' \in [Task -> Labels]
         /\ \A t \in Task : \/ pc'[t] = IF t \in DOMAIN where THEN where[t] ELSE pc[t]
                            \/ /\ t \notin DOMAIN where /\ pc[t] = "undispatched"
                               /\ state'[t] = "queued" /\ pc'[t] = "queued"
         /\ run' \in RunType
         /\ waiter' \in [Waiter -> [status : {"idle", "waiting", "resolved", "rejected"}, baseline : Nat]]
         /\ Counts' /\ WidthKept' /\ NobodyWaitsInVain'
<1> DEFINE ended == {t \in DOMAIN ending : state[t] \notin Terminal}
           st == [t \in Task |-> IF t \in ended THEN ending[t] ELSE state[t]]
           over == r.state = "running" /\ AllEnded(st)
           count == r.completions + Cardinality(ended)
           total == r.turns + Cardinality(TurnsOf(ended, turns'))
           result == IF over THEN Aggregate(st) ELSE r.state
           open == r.accepting /\ ~over
           settled == [r EXCEPT !.completions = count, !.turns = total, !.state = result,
                                !.accepting = open]
           new == IF pumping THEN Pumped(st, settled) ELSE {}
           place(t) == IF t \in DOMAIN where THEN where[t] ELSE pc[t]
<1>1. /\ state' = st
      /\ run' = [settled EXCEPT !.inFlight = @ + Cardinality(new)]
      /\ pc' = [t \in Task |-> IF t \in new THEN "queued" ELSE place(t)]
      /\ Notify(settled)
  BY DEF Finish
<1>2. /\ TypeOK /\ Counts /\ WidthKept /\ NobodyWaitsInVain
  BY Parts
<1>3. ended \in SUBSET Task /\ Over \in SUBSET Task /\ ended \cap Over = {}
  BY SMTT(25) DEF Over
<1>4. /\ state' \in [Task -> Terminal \cup {"queued", "starting", "running", "waiting"}]
      /\ \A t \in Task : state'[t] = IF t \in ended THEN ending[t] ELSE state[t]
  BY <1>1, <1>2 DEF TypeOK
<1>5. Over' = Over \cup ended
  BY <1>3, <1>4, SMTT(25) DEF Over
<1>6. st = state'
  BY <1>1
<1> HIDE DEF ended, st
<1>7. Cardinality(ended) \in Nat /\ Cardinality(Over) \in Nat
  BY <1>3, Tasks
<1>8. Cardinality(Over') = Cardinality(Over) + Cardinality(ended)
  BY <1>3, <1>5, Together
<1>9. /\ Cardinality(TurnsOf(ended, turns')) \in Nat
      /\ Cardinality(TurnsOf(Over', turns')) = Cardinality(TurnsOf(Over, turns)) + Cardinality(TurnsOf(ended, turns'))
  <2>1. TurnsOf(Over, turns') = TurnsOf(Over, turns)
    BY DEF TurnsOf, Over
  <2>2. /\ Cardinality(TurnsOf(ended, turns')) \in Nat
        /\ Cardinality(TurnsOf(Over \cup ended, turns'))
             = Cardinality(TurnsOf(Over, turns')) + Cardinality(TurnsOf(ended, turns'))
    BY <1>3, TurnsAdd
  <2> QED
    BY <1>5, <2>1, <2>2
<1>10. Aggregate(st) \in {"done", "failed", "aborted"}
  BY DEF Aggregate
<1>11. /\ settled \in RunType
       /\ settled.state = result /\ settled.completions = count
       /\ settled.turns = total /\ settled.inFlight = r.inFlight
  <2>1. /\ count \in Nat /\ total \in Nat /\ open \in BOOLEAN
        /\ result \in {"running", "done", "failed", "aborted"}
    BY <1>7, <1>9, <1>10 DEF RunType
  <2> HIDE DEF count, total, result, open
  <2> QED
    BY <2>1 DEF RunType
<1>12. over <=> run.state = "running" /\ Over' = Task
  BY <1>6 DEF AllEnded, Over
<1> HIDE DEF settled, over
<1>13. /\ new \in SUBSET Task /\ new \in SUBSET Fresh(st)
       /\ r.inFlight + Cardinality(new) <= Concurrency
  <2>1. Cardinality({}) = 0
    BY FS_EmptySet
  <2>2. settled.inFlight \in Nat /\ settled.inFlight <= Concurrency
    BY <1>11 DEF RunType
  <2>3. /\ Pumped(st, settled) \in SUBSET Fresh(st) /\ Pumped(st, settled) \in SUBSET Task
        /\ r.inFlight + Cardinality(Pumped(st, settled)) <= Concurrency
    BY <1>11, <2>2, PumpFits
  <2>4. r.inFlight + 0 <= Concurrency
    BY DEF RunType
  <2> QED
    BY <2>1, <2>3, <2>4
<1>14. \A t \in new : t \in Task /\ pc[t] = "undispatched" /\ st[t] = "queued"
  BY <1>13 DEF Fresh
<1>15. Cardinality(new) \in Nat
  BY <1>13, Tasks
<1> HIDE DEF new
<1>16. /\ run' \in RunType
       /\ run'.state = settled.state /\ run'.completions = settled.completions
       /\ run'.turns = settled.turns /\ run'.inFlight = r.inFlight + Cardinality(new)
  BY <1>1, <1>11, <1>15 DEF RunType
<1>17. /\ pc' \in [Task -> Labels]
       /\ \A t \in Task : pc'[t] = IF t \in new THEN "queued" ELSE place(t)
  BY <1>1, <1>2 DEF TypeOK, Labels, Launching
<1>18. Counts'
  <2>1. run'.state # "running" <=> Over' = Task
    BY <1>2, <1>3, <1>5, <1>10, <1>11, <1>12, <1>16 DEF Counts
  <2>2. ASSUME run'.state # "running" PROVE run'.state = Aggregate(state')
    <3>1. CASE run.state = "running"
      BY <1>6, <1>11, <1>12, <1>16, <2>1, <2>2, <3>1
    <3>2. CASE run.state # "running"
      <4>1. ended = {}
        BY <1>2, <1>3, <3>2 DEF Counts
      <4>2. state' = state
        BY <1>2, <1>4, <4>1 DEF TypeOK
      <4> QED
        BY <1>2, <1>11, <1>12, <1>16, <3>2, <4>2 DEF Counts
    <3> QED
      BY <3>1, <3>2
  <2>3. run'.completions = Cardinality(Over')
    BY <1>2, <1>8, <1>11, <1>16 DEF Counts
  <2>4. run'.turns = Cardinality(TurnsOf(Over', turns'))
    BY <1>2, <1>9, <1>11, <1>16 DEF Counts
  <2> QED
    BY <2>1, <2>2, <2>3, <2>4 DEF Counts
<1>19. WidthKept'
  <2> DEFINE U == {t \in Task : place(t) \notin {"undispatched", "gone"}}
  <2>1. \A t \in new : place(t) = "undispatched"
    BY <1>14
  <2>2. Underway' = U \cup new /\ U \cap new = {} /\ U \in SUBSET Task
    BY <1>13, <1>17, <2>1 DEF Underway
  <2>3. Cardinality(Underway') = Cardinality(U) + Cardinality(new)
    BY <1>13, <2>2, Together
  <2> QED
    BY <1>13, <1>16, <2>3 DEF WidthKept
<1>20. waiter' = [w \in Waiter |-> IF waiter[w].status = "waiting" /\ Ready(w, settled)
                                   THEN [waiter[w] EXCEPT !.status = "resolved"] ELSE waiter[w]]
  BY <1>1 DEF Notify
<1>21. waiter' \in [Waiter -> [status : {"idle", "waiting", "resolved", "rejected"}, baseline : Nat]]
  BY <1>2, <1>20 DEF TypeOK
<1>22. NobodyWaitsInVain'
  <2> SUFFICES ASSUME NEW w \in Waiter, waiter'[w].status = "waiting" PROVE ~Ready(w, run)'
    BY DEF NobodyWaitsInVain
  <2>1. waiter'[w] = waiter[w] /\ ~Ready(w, settled)
    BY <1>2, <1>20
  <2> QED
    BY <1>16, <2>1 DEF Ready
<1>23. \A t \in Task : \/ pc'[t] = place(t)
                       \/ /\ t \notin DOMAIN where /\ pc[t] = "undispatched"
                          /\ state'[t] = "queued" /\ pc'[t] = "queued"
  BY <1>6, <1>14, <1>17
<1> QED
  BY <1>4, <1>16, <1>17, <1>18, <1>19, <1>21, <1>22, <1>23 DEF ended

\* A handler that ends no task leaves them in order as well.
LEMMA QuietSafe ==
  ASSUME IInv, pc' \in [Task -> Labels],
         state' \in [Task -> Terminal \cup {"queued", "starting", "running", "waiting"}],
         \A t \in Task : pc'[t] \in {"undispatched", "gone"} <=> pc[t] \in {"undispatched", "gone"},
         \A t \in Task : /\ state[t] \in Terminal => state'[t] = state[t] /\ turns'[t] = turns[t]
                         /\ state'[t] \in Terminal => state[t] \in Terminal,
         UNCHANGED <<run, waiter>>
  PROVE  Counts' /\ WidthKept' /\ NobodyWaitsInVain'
<1>1. TypeOK /\ Counts /\ WidthKept /\ NobodyWaitsInVain
  BY Parts
<1>2. Over' = Over
  BY DEF Over
<1>3. TurnsOf(Over, turns') = TurnsOf(Over, turns)
  BY DEF TurnsOf, Over
<1>4. ASSUME Over = Task PROVE state' = state
  BY <1>1, <1>4 DEF Over, TypeOK
<1>5. Counts'
  BY <1>1, <1>2, <1>3, <1>4 DEF Counts
<1>6. Underway' = Underway
  BY DEF Underway
<1> QED
  BY <1>1, <1>5, <1>6 DEF WidthKept, NobodyWaitsInVain, Ready

\* A stop: the tasks that were never dispatched end, the others are told.
LEMMA StopSafe ==
  ASSUME IInv, NEW S \in SUBSET Task, NEW how \in {"aborted", "timed_out"},
         NEW r \in RunType, r.state = run.state, r.completions = run.completions, r.turns = run.turns,
         r.inFlight = run.inFlight,
         NEW pumping, Stop(S, how, r, pumping),
         UNCHANGED <<attemptVars, tiers, passed>>,
         armed' \in [run : BOOLEAN, launch : SUBSET Reviewer]
  PROVE  IInv'
<1> DEFINE stopped == {t \in S : state[t] \notin Terminal}
           ending == [t \in {u \in stopped : pc[u] = "undispatched"} |-> how]
<1>1. /\ TypeOK /\ WidthKept /\ Concurrency \in Nat /\ \A t \in Task : Own(t)
  BY Parts, RunAssumption
<1>2. /\ stop' = [t \in Task |-> IF t \in stopped THEN how ELSE stop[t]]
      /\ history' = [history EXCEPT
           !.halted = [t \in Task |-> IF t \in stopped /\ stop[t] = "none" THEN attempts[t] ELSE @[t]],
           !.cancelled = @ \cup {t \in stopped : stop[t] = "none" /\ how = "aborted"}]
      /\ turns' = turns
      /\ Finish(ending, r, pumping, Nobody)
  BY DEF Stop
<1>3. \A t \in Task : /\ stop'[t] = IF t \in stopped THEN how ELSE stop[t]
                      /\ history'.halted[t] = IF t \in stopped /\ stop[t] = "none"
                                              THEN attempts[t] ELSE history.halted[t]
  BY <1>1, <1>2, SMTT(25)
<1>4. /\ history' \in [halted : [Task -> Nat], cancelled : SUBSET Task]
      /\ stop' \in [Task -> {"none", "aborted", "timed_out"}]
  BY <1>1, <1>2 DEF TypeOK
<1>5. /\ DOMAIN ending = {t \in Task : t \in stopped /\ pc[t] = "undispatched"}
      /\ \A t \in DOMAIN ending : ending[t] = how
      /\ how \in Terminal
      /\ DOMAIN Nobody = {}
  BY DEF Terminal, Nobody
<1>6. /\ stopped \in SUBSET Task
      /\ \A t \in stopped : state[t] \notin Terminal
  OBVIOUS
<1> HIDE DEF stopped, ending
<1>7. /\ r.inFlight = Cardinality({t \in Task : (IF t \in DOMAIN Nobody THEN Nobody[t] ELSE pc[t])
                                                  \notin {"undispatched", "gone"}})
      /\ r.inFlight <= Concurrency
  <2>1. Underway = {t \in Task : (IF t \in DOMAIN Nobody THEN Nobody[t] ELSE pc[t])
                                   \notin {"undispatched", "gone"}}
    BY <1>5 DEF Underway
  <2> QED
    BY <1>1, <2>1 DEF WidthKept
<1>8. /\ state' \in [Task -> Terminal \cup {"queued", "starting", "running", "waiting"}]
      /\ \A t \in Task : state'[t] = IF t \in DOMAIN ending /\ state[t] \notin Terminal
                                     THEN ending[t] ELSE state[t]
      /\ pc' \in [Task -> Labels]
      /\ \A t \in Task : \/ pc'[t] = IF t \in DOMAIN Nobody THEN Nobody[t] ELSE pc[t]
                         \/ /\ t \notin DOMAIN Nobody /\ pc[t] = "undispatched"
                            /\ state'[t] = "queued" /\ pc'[t] = "queued"
      /\ run' \in RunType
      /\ waiter' \in [Waiter -> [status : {"idle", "waiting", "resolved", "rejected"}, baseline : Nat]]
      /\ Counts' /\ WidthKept' /\ NobodyWaitsInVain'
  <2>1. /\ DOMAIN ending \subseteq Task /\ \A t \in DOMAIN ending : ending[t] \in Terminal
        /\ DOMAIN Nobody \subseteq Task
        /\ \A t \in DOMAIN Nobody : Nobody[t] \in Labels \ {"undispatched"} /\ pc[t] # "undispatched"
    BY <1>5
  <2>2. turns' \in [Task -> 0 .. MaxTurns] /\ \A t \in Task : state[t] \in Terminal => turns'[t] = turns[t]
    BY <1>1, <1>2, SMTT(25) DEF TypeOK
  <2> QED
    BY <1>2, <1>7, <2>1, <2>2, FinishSafe
<1>9. TypeOK'
  BY <1>1, <1>2, <1>4, <1>8 DEF TypeOK, RunType, attemptVars, tiers
<1>10. ASSUME NEW t \in Task PROVE Own(t)'
  <2>1. /\ prior'[t] = prior[t] /\ attempts'[t] = attempts[t] /\ alternate'[t] = alternate[t]
        /\ turns'[t] = turns[t] /\ retried' = retried /\ leases' = leases /\ slots' = slots
    BY <1>2 DEF attemptVars, tiers
  <2>2. Own(t)
    BY <1>1
  <2>3. \/ pc'[t] = pc[t]
        \/ pc[t] = "undispatched" /\ state'[t] = "queued" /\ pc'[t] = "queued"
    BY <1>5, <1>8
  <2>4. state'[t] = IF t \in stopped /\ pc[t] = "undispatched" THEN how ELSE state[t]
    BY <1>5, <1>6, <1>8
  <2>5. CASE t \notin stopped
    <3>1. Same(t)
      BY <1>3, <2>1, <2>3, <2>4, <2>5 DEF Same
    <3> QED
      BY <2>2, <3>1, SameOwn
  <2>6. CASE t \in stopped
    <3>1. /\ state[t] \notin Terminal /\ pc'[t] = pc[t]
          /\ stop'[t] = how /\ how # "none"
          /\ history'.halted[t] = IF stop[t] = "none" THEN attempts[t] ELSE history.halted[t]
      BY <1>3, <1>6, <2>3, <2>4, <2>6
    <3>2. Ended(t)' /\ Held(t)' /\ Carried(t)' /\ Budgeted(t)'
      BY <2>1, <2>2, <2>4, <2>6, <3>1
         DEF Own, TaskSound, Ended, Held, Carried, Budgeted, Tried, Launching, Working
    <3>3. Halted(t)'
      <4>1. /\ attempts[t] \in Nat /\ alternate[t] \in 0 .. Alternates /\ Alternates \in Nat /\ MaxTurns \in Nat
        BY <1>1, RunAssumption DEF TypeOK
      <4>2. attempts[t] < Never
        <5>1. attempts[t] <= MaxResumes + 1 + Tried(t) /\ Tried(t) \in 0 .. Alternates + 1
          BY <2>2, <4>1 DEF Own, TaskSound, Budgeted, Tried
        <5> QED
          BY <4>1, <5>1 DEF Never, MaxResumes
      <4> QED
        BY <2>1, <2>2, <3>1, <4>1, <4>2 DEF Own, TaskSound, Halted
    <3>4. /\ pc'[t] \in Working \cup {"lingering"} => t \in leases' \cap slots'
          /\ pc'[t] \in {"undispatched", "gone"} => t \notin leases' \cup slots'
          /\ state'[t] \in Terminal => state'[t] = stop'[t]
      BY <2>1, <2>2, <2>4, <3>1 DEF Own
    <3> QED
      BY <3>2, <3>3, <3>4 DEF Own, TaskSound
  <2> QED
    BY <2>5, <2>6
<1> QED
  BY <1>8, <1>9, <1>10, PartsNext

\* A task ends: it was dispatched, its end is what stopped it if something did,
\* and a late disposal keeps what the launch holds.
LEMMA EndSafe ==
  ASSUME IInv, NEW t \in Task, pc[t] \in Launching \cup Working,
         NEW end \in Terminal, NEW out \in {"leaving", "lingering"},
         Finish(Only(t, end), run, FALSE, Only(t, out)), Timers(armed),
         turns' \in [Task -> 0 .. MaxTurns], stop' \in [Task -> {"none", "aborted", "timed_out"}],
         history' \in [halted : [Task -> Nat], cancelled : SUBSET Task],
         \A u \in Task \ {t} : /\ turns'[u] = turns[u] /\ stop'[u] = stop[u]
                               /\ history'.halted[u] = history.halted[u]
                               /\ u \in leases' <=> u \in leases
                               /\ u \in slots' <=> u \in slots,
         leases' \subseteq Task, slots' \subseteq Task,
         out = "lingering" => t \in leases' \cap slots',
         stop'[t] # "none" => end = stop'[t],
         \/ stop'[t] = stop[t] /\ history'.halted[t] = history.halted[t]
         \/ stop[t] = "none" /\ stop'[t] # "none" /\ history'.halted[t] = attempts[t],
         UNCHANGED <<attemptVars, passed>>
  PROVE  IInv'
<1>1. /\ TypeOK /\ WidthKept /\ Concurrency \in Nat /\ \A u \in Task : Own(u)
  BY Parts, RunAssumption
<1>2. /\ DOMAIN Only(t, end) = {t} /\ Only(t, end)[t] = end
      /\ DOMAIN Only(t, out) = {t} /\ Only(t, out)[t] = out
  BY DEF Only
<1>3. state[t] \notin Terminal
  BY <1>1 DEF Own, TaskSound, Ended
<1> DEFINE ending == Only(t, end)
           where == Only(t, out)
<1> HIDE DEF ending, where
<1>4. /\ run \in RunType
      /\ run.inFlight = Cardinality({u \in Task : (IF u \in DOMAIN where THEN where[u] ELSE pc[u])
                                                    \notin {"undispatched", "gone"}})
      /\ run.inFlight <= Concurrency
  <2>1. Underway = {u \in Task : (IF u \in DOMAIN where THEN where[u] ELSE pc[u])
                                   \notin {"undispatched", "gone"}}
    BY <1>2 DEF Underway, Launching, Working, where
  <2> QED
    BY <1>1, <2>1 DEF WidthKept, TypeOK, RunType
<1>5. /\ state' \in [Task -> Terminal \cup {"queued", "starting", "running", "waiting"}]
      /\ \A u \in Task : state'[u] = IF u \in DOMAIN ending /\ state[u] \notin Terminal
                                     THEN ending[u] ELSE state[u]
      /\ pc' \in [Task -> Labels]
      /\ \A u \in Task : \/ pc'[u] = IF u \in DOMAIN where THEN where[u] ELSE pc[u]
                         \/ /\ u \notin DOMAIN where /\ pc[u] = "undispatched"
                            /\ state'[u] = "queued" /\ pc'[u] = "queued"
      /\ run' \in RunType
      /\ waiter' \in [Waiter -> [status : {"idle", "waiting", "resolved", "rejected"}, baseline : Nat]]
      /\ Counts' /\ WidthKept' /\ NobodyWaitsInVain'
  <2>1. /\ DOMAIN ending \subseteq Task /\ \A u \in DOMAIN ending : ending[u] \in Terminal
        /\ DOMAIN where \subseteq Task
        /\ \A u \in DOMAIN where : where[u] \in Labels \ {"undispatched"} /\ pc[u] # "undispatched"
    BY <1>2 DEF ending, where, Labels, Launching, Working
  <2>2. \A u \in Task : state[u] \in Terminal => turns'[u] = turns[u]
    BY <1>3
  <2>3. Finish(ending, run, FALSE, where)
    BY DEF ending, where
  <2> QED
    BY <1>4, <2>1, <2>2, <2>3, FinishSafe
<1>6. /\ state'[t] = end /\ pc'[t] = out
      /\ \A u \in Task \ {t} : state'[u] = state[u]
      /\ \A u \in Task \ {t} : \/ pc'[u] = pc[u]
                               \/ pc[u] = "undispatched" /\ state'[u] = "queued" /\ pc'[u] = "queued"
  BY <1>2, <1>3, <1>5 DEF ending, where
<1>7. armed' \in [run : BOOLEAN, launch : SUBSET Reviewer]
  BY <1>1 DEF Timers, TypeOK
<1>8. TypeOK'
  BY <1>1, <1>5, <1>7 DEF TypeOK, RunType, attemptVars
<1>9. ASSUME NEW u \in Task \ {t} PROVE Own(u)'
  <2>1. Same(u)
    BY <1>6 DEF Same, attemptVars
  <2> QED
    BY <1>1, <2>1, SameOwn
<1>10. Own(t)'
  <2>1. Own(t) /\ attempts'[t] = attempts[t] /\ alternate'[t] = alternate[t] /\ retried' = retried
    BY <1>1 DEF attemptVars
  <2>2. Ended(t)' /\ Held(t)' /\ Carried(t)' /\ Budgeted(t)'
    BY <1>6, <2>1 DEF Own, TaskSound, Ended, Held, Carried, Budgeted, Tried, Launching, Working
  <2>3. Halted(t)'
    <3>1. /\ attempts[t] \in Nat /\ alternate[t] \in 0 .. Alternates /\ Alternates \in Nat /\ MaxTurns \in Nat
      BY <1>1, RunAssumption DEF TypeOK
    <3>2. attempts[t] < Never
      <4>1. attempts[t] <= MaxResumes + 1 + Tried(t) /\ Tried(t) \in 0 .. Alternates + 1
        BY <2>1, <3>1 DEF Own, TaskSound, Budgeted, Tried
      <4> QED
        BY <3>1, <4>1 DEF Never, MaxResumes
    <3> QED
      BY <1>6, <2>1, <3>1, <3>2 DEF Own, TaskSound, Halted
  <2>4. /\ pc'[t] \in Working \cup {"lingering"} => t \in leases' \cap slots'
        /\ pc'[t] \in {"undispatched", "gone"} => t \notin leases' \cup slots'
        /\ state'[t] \in Terminal /\ stop'[t] # "none" => state'[t] = stop'[t]
    BY <1>6 DEF Working
  <2> QED
    BY <2>2, <2>3, <2>4 DEF Own, TaskSound
<1> QED
  BY <1>5, <1>8, <1>9, <1>10, PartsNext

\* An error before or in the worker ends the task, whatever it had been stopped
\* for.
LEMMA ThrowSafe == ASSUME IInv, NEW t \in Task, pc[t] \in Launching \cup Working, Throw(t) PROVE IInv'
<1>1. TypeOK
  BY Parts
<1>2. Why(t) \in {"none", "aborted", "timed_out"} /\ (stop[t] # "none" => Why(t) = stop[t])
  BY <1>1 DEF Why, TypeOK
<1> DEFINE end == IF Why(t) = "none" THEN "failed" ELSE Why(t)
<1>3. /\ stop' = [stop EXCEPT ![t] = Why(t)]
      /\ history' = IF stop[t] = "none" /\ Why(t) # "none"
                    THEN [history EXCEPT !.halted[t] = attempts[t]] ELSE history
      /\ leases' = leases \ {t} /\ slots' = slots \ {t} /\ turns' = turns
      /\ UNCHANGED <<attemptVars, passed>>
      /\ Finish(Only(t, end), run, FALSE, Only(t, "leaving"))
      /\ Timers(armed)
  BY DEF Throw, Quiet
<1>4. end \in Terminal
  BY <1>2 DEF Terminal
<1>5. /\ turns' \in [Task -> 0 .. MaxTurns] /\ leases' \subseteq Task /\ slots' \subseteq Task
      /\ stop' \in [Task -> {"none", "aborted", "timed_out"}]
      /\ history' \in [halted : [Task -> Nat], cancelled : SUBSET Task]
  BY <1>1, <1>2, <1>3 DEF TypeOK
<1>6. \A u \in Task \ {t} : /\ turns'[u] = turns[u] /\ stop'[u] = stop[u]
                            /\ history'.halted[u] = history.halted[u]
                            /\ u \in leases' <=> u \in leases
                            /\ u \in slots' <=> u \in slots
  BY <1>1, <1>3
<1>7. /\ stop'[t] = Why(t) /\ (stop'[t] # "none" => end = stop'[t])
      /\ \/ stop'[t] = stop[t] /\ history'.halted[t] = history.halted[t]
         \/ stop[t] = "none" /\ stop'[t] # "none" /\ history'.halted[t] = attempts[t]
  BY <1>1, <1>2, <1>3 DEF TypeOK
<1> HIDE DEF end
<1> QED
  BY <1>3, <1>4, <1>5, <1>6, <1>7, EndSafe

\* A handler that moves one task on, leaves the others and the run alone, and
\* ends nothing, keeps the invariant when it keeps what it says of that task.
LEMMA MoveSafe ==
  ASSUME IInv, NEW t \in Task, TypeOK', UNCHANGED <<run, waiter>>,
         \A u \in Task \ {t} : Same(u) /\ pc'[u] = pc[u],
         pc'[t] \in {"undispatched", "gone"} <=> pc[t] \in {"undispatched", "gone"},
         state[t] \in Terminal => state'[t] = state[t] /\ turns'[t] = turns[t],
         state'[t] \in Terminal => state[t] \in Terminal,
         Own(t)'
  PROVE  IInv'
<1>1. /\ pc' \in [Task -> Labels]
      /\ state' \in [Task -> Terminal \cup {"queued", "starting", "running", "waiting"}]
  BY DEF TypeOK
<1>2. /\ \A u \in Task : pc'[u] \in {"undispatched", "gone"} <=> pc[u] \in {"undispatched", "gone"}
      /\ \A u \in Task : /\ state[u] \in Terminal => state'[u] = state[u] /\ turns'[u] = turns[u]
                         /\ state'[u] \in Terminal => state[u] \in Terminal
  BY DEF Same
<1>3. Counts' /\ WidthKept' /\ NobodyWaitsInVain'
  BY <1>1, <1>2, QuietSafe
<1>4. \A u \in Task : Own(u)'
  BY Parts, SameOwn
<1> QED
  BY <1>3, <1>4, PartsNext

\* Nothing but task t is touched.
Alone(t) == \A u \in Task \ {t} : Same(u) /\ pc'[u] = pc[u]

\* A grant of the session tier, or the end of a request that was aborted.
LEMMA SessionGrantSafe == ASSUME IInv, NEW t \in Task, SessionGrant(t) PROVE IInv'
<1>0. TypeOK /\ Own(t)
  BY Parts
<1>1. pc[t] = "queued"
  BY DEF SessionGrant
<1>2. CASE Throw(t)
  BY <1>1, <1>2, ThrowSafe DEF Launching
<1>3. CASE stop[t] = "none" /\ leases' = leases \cup {t} /\ Goto(t, "granted") /\ Quiet
           /\ UNCHANGED <<state, slots, armed>>
  <2>1. /\ pc' = [pc EXCEPT ![t] = "granted"]
        /\ leases' = leases \cup {t}
        /\ UNCHANGED <<state, stop, turns, prior, attempts, retried, alternate, slots, run, passed, armed, waiter, history>>
    BY <1>1, <1>3 DEF Goto, Quiet, attemptVars
  <2>2. TypeOK'
    BY <1>0, <2>1 DEF TypeOK, Labels, Launching
  <2>3. Own(t)'
    BY <1>0, <1>1, <1>3, <2>1 DEF TypeOK, Own, TaskSound, Ended, Held, Budgeted, Tried, Halted, Carried,
       Launching, Working
  <2>4. Alone(t)
    BY <1>0, <2>1 DEF Alone, Same, TypeOK
  <2> QED
    BY <1>0, <1>1, <1>3, <2>1, <2>2, <2>3, <2>4, MoveSafe DEF Alone, Own, TaskSound, Ended, TypeOK,
       Launching, Working, Terminal
<1> QED
  BY <1>2, <1>3 DEF SessionGrant

\* The step to "starting".
LEMMA AnnounceSafe == ASSUME IInv, NEW t \in Task, Announce(t) PROVE IInv'
<1>0. TypeOK /\ Own(t)
  BY Parts
<1>1. pc[t] = "granted"
  BY DEF Announce
<1>2. CASE Throw(t)
  BY <1>1, <1>2, ThrowSafe DEF Launching
<1>3. CASE /\ stop[t] = "none" /\ state' = [state EXCEPT ![t] = "starting"]
           /\ Goto(t, "announced") /\ Quiet /\ UNCHANGED <<tiers, armed>>
  <2>1. /\ pc' = [pc EXCEPT ![t] = "announced"]
        /\ state' = [state EXCEPT ![t] = "starting"]
        /\ UNCHANGED <<stop, turns, prior, attempts, retried, alternate, leases, slots, run, passed, armed, waiter, history>>
    BY <1>1, <1>3 DEF Goto, Quiet, attemptVars, tiers
  <2>2. TypeOK'
    BY <1>0, <2>1 DEF TypeOK, Labels, Launching, Working, Terminal
  <2>3. Own(t)'
    BY <1>0, <1>1, <1>3, <2>1 DEF TypeOK, Own, TaskSound, Ended, Held, Budgeted, Tried, Halted, Carried,
       Launching, Working, Terminal
  <2>4. Alone(t)
    BY <1>0, <2>1 DEF Alone, Same, TypeOK
  <2> QED
    BY <1>0, <1>1, <1>3, <2>1, <2>2, <2>3, <2>4, MoveSafe DEF Alone, Own, TaskSound, Ended, TypeOK,
       Launching, Working, Terminal
<1> QED
  BY <1>2, <1>3 DEF Announce

\* The step to the machine tier.
LEMMA AcquireSafe == ASSUME IInv, NEW t \in Task, Acquire(t) PROVE IInv'
<1>0. TypeOK /\ Own(t)
  BY Parts
<1>1. pc[t] = "announced"
  BY DEF Acquire
<1>2. CASE Throw(t)
  BY <1>1, <1>2, ThrowSafe DEF Launching
<1>3. CASE Goto(t, "acquiring") /\ Quiet /\ UNCHANGED <<state, tiers, armed>>
  <2>1. /\ pc' = [pc EXCEPT ![t] = "acquiring"]
        /\ UNCHANGED <<state, stop, turns, prior, attempts, retried, alternate, leases, slots, run, passed, armed, waiter, history>>
    BY <1>1, <1>3 DEF Goto, Quiet, attemptVars, tiers
  <2>2. TypeOK'
    BY <1>0, <2>1 DEF TypeOK, Labels, Launching, Working, Terminal
  <2>3. Own(t)'
    BY <1>0, <1>1, <1>3, <2>1 DEF TypeOK, Own, TaskSound, Ended, Held, Budgeted, Tried, Halted, Carried,
       Launching, Working, Terminal
  <2>4. Alone(t)
    BY <1>0, <2>1 DEF Alone, Same, TypeOK
  <2> QED
    BY <1>0, <1>1, <1>3, <2>1, <2>2, <2>3, <2>4, MoveSafe DEF Alone, Own, TaskSound, Ended, TypeOK,
       Launching, Working, Terminal
<1> QED
  BY <1>2, <1>3 DEF Acquire

\* A grant of the machine tier.
LEMMA MachineGrantSafe == ASSUME IInv, NEW t \in Task, MachineGrant(t) PROVE IInv'
<1>0. TypeOK /\ Own(t)
  BY Parts
<1>1. CASE pc[t] = "acquiring" /\ MachineGrant(t)
  <2>1. /\ pc' = [pc EXCEPT ![t] = "acquired"]
        /\ slots' = slots \cup {t}
        /\ UNCHANGED <<state, stop, turns, prior, attempts, retried, alternate, leases, run, passed, armed, waiter, history>>
    BY <1>1 DEF MachineGrant, Goto, Quiet, attemptVars
  <2>2. TypeOK'
    BY <1>0, <2>1 DEF TypeOK, Labels, Launching, Working, Terminal
  <2>3. Own(t)'
    BY <1>0, <1>1, <2>1 DEF TypeOK, Own, TaskSound, Ended, Held, Budgeted, Tried, Halted, Carried,
       Launching, Working, Terminal
  <2>4. Alone(t)
    BY <1>0, <2>1 DEF Alone, Same, TypeOK
  <2> QED
    BY <1>0, <1>1, <2>1, <2>2, <2>3, <2>4, MoveSafe DEF Alone, Own, TaskSound, Ended, TypeOK, Launching,
       Working, Terminal
<1> QED
  BY <1>1 DEF MachineGrant

\* The machine tier lets go of an aborted or late request.
LEMMA MachineRefuseSafe == ASSUME IInv, NEW t \in Task, MachineRefuse(t) PROVE IInv'
  BY ThrowSafe DEF MachineRefuse, Launching

\* The storage of the machine tier fails.
LEMMA MachineErrorSafe == ASSUME IInv, NEW t \in Task, MachineError(t) PROVE IInv'
  BY ThrowSafe DEF MachineError, Launching

\* The step to "running".
LEMMA LaunchSafe == ASSUME IInv, NEW t \in Task, Launch(t) PROVE IInv'
<1>0. TypeOK /\ Own(t)
  BY Parts
<1>1. pc[t] = "acquired"
  BY DEF Launch
<1>2. CASE Throw(t)
  BY <1>1, <1>2, ThrowSafe DEF Launching
<1>3. CASE /\ state' = [state EXCEPT ![t] = "running"] /\ armed' = [armed EXCEPT !.launch = @ \ {t}]
           /\ Goto(t, "started") /\ Quiet /\ UNCHANGED tiers
  <2>1. /\ pc' = [pc EXCEPT ![t] = "started"]
        /\ state' = [state EXCEPT ![t] = "running"]
        /\ armed' = [armed EXCEPT !.launch = @ \ {t}]
        /\ UNCHANGED <<stop, turns, prior, attempts, retried, alternate, leases, slots, run, passed, waiter, history>>
    BY <1>1, <1>3 DEF Goto, Quiet, attemptVars, tiers
  <2>2. TypeOK'
    BY <1>0, <2>1 DEF TypeOK, Labels, Launching, Working, Terminal
  <2>3. Own(t)'
    BY <1>0, <1>1, <1>3, <2>1 DEF TypeOK, Own, TaskSound, Ended, Held, Budgeted, Tried, Halted, Carried,
       Launching, Working, Terminal
  <2>4. Alone(t)
    BY <1>0, <2>1 DEF Alone, Same, TypeOK
  <2> QED
    BY <1>0, <1>1, <1>3, <2>1, <2>2, <2>3, <2>4, MoveSafe, SMTT(25) DEF Alone, Own, TaskSound,
       Ended, TypeOK,
       Launching, Working, Terminal
<1> QED
  BY <1>2, <1>3 DEF Launch

\* The first call of the runner.
LEMMA FirstAttemptSafe == ASSUME IInv, NEW t \in Task, FirstAttempt(t) PROVE IInv'
<1>0. TypeOK /\ Own(t)
  BY Parts
<1>1. pc[t] = "started"
  BY DEF FirstAttempt
<1>2. CASE Throw(t)
  BY <1>1, <1>2, ThrowSafe DEF Working
<1>3. CASE stop[t] = "none" /\ Attempt(t) /\ UNCHANGED turns
  <2>1. /\ pc' = [pc EXCEPT ![t] = "working"]
        /\ attempts' = [attempts EXCEPT ![t] = @ + 1]
        /\ UNCHANGED <<state, stop, turns, prior, retried, alternate, leases, slots, run, passed, armed, waiter, history>>
    BY <1>1, <1>3 DEF Attempt, Goto, tiers
  <2>2. TypeOK'
    BY <1>0, <2>1 DEF TypeOK, Labels, Launching, Working, Terminal
  <2>3. Own(t)'
    BY <1>0, <1>1, <1>3, <2>1, RunAssumption, SMTT(30) DEF TypeOK, Own, TaskSound, Ended, Held,
       Budgeted, Tried, Halted, Carried, Launching, Working, Terminal, MaxResumes
  <2>4. Alone(t)
    BY <1>0, <2>1 DEF Alone, Same, TypeOK
  <2> QED
    BY <1>0, <1>1, <1>3, <2>1, <2>2, <2>3, <2>4, MoveSafe DEF Alone, Own, TaskSound, Ended, TypeOK,
       Launching, Working, Terminal
<1> QED
  BY <1>2, <1>3 DEF FirstAttempt

\* Progress of a worker, also a late one.
LEMMA ProgressSafe == ASSUME IInv, NEW t \in Task, Progress(t) PROVE IInv'
<1>0. TypeOK /\ Own(t)
  BY Parts
<1>1. PICK s \in {"running", "waiting"}, k \in 0 .. MaxTurns - prior[t] :
        /\ prior[t] + k >= turns[t]
        /\ state' = [state EXCEPT ![t] = s]
        /\ turns' = [turns EXCEPT ![t] = prior[t] + k]
  BY DEF Progress
<1>2. state[t] \notin Terminal /\ pc[t] = "working"
  BY <1>0 DEF Progress, Own, TaskSound, Ended
<1>3. prior[t] + k \in 0 .. MaxTurns
  <2>1. prior[t] \in 0 .. MaxTurns
    BY <1>0 DEF TypeOK
  <2>2. MaxTurns \in Nat
    BY RunAssumption
  <2> QED
    BY ONLY <2>1, <2>2, k \in 0 .. MaxTurns - prior[t]
<1>4. /\ state' = [state EXCEPT ![t] = s]
      /\ turns' = [turns EXCEPT ![t] = prior[t] + k]
      /\ UNCHANGED <<pc, stop, prior, attempts, retried, alternate, leases, slots, run, passed, armed, waiter, history>>
  BY <1>1, <1>2 DEF Progress, attemptVars, tiers
<1>5. TypeOK'
  BY <1>0, <1>3, <1>4 DEF TypeOK, Labels, Launching, Working, Terminal
<1>6. Own(t)'
  BY <1>0, <1>1, <1>2, <1>4 DEF TypeOK, Own, TaskSound, Ended, Held, Budgeted, Tried, Halted, Carried,
     Launching, Working, Terminal
<1>7. Alone(t)
  BY <1>0, <1>4 DEF Alone, Same, TypeOK
<1> QED
  BY <1>0, <1>1, <1>2, <1>4, <1>5, <1>6, <1>7, MoveSafe DEF Alone, Own, TaskSound, Ended, TypeOK,
     Launching, Working, Terminal

\* A reply that is retried.
LEMMA ReturnRetrySafe == ASSUME IInv, NEW t \in Task, ReturnRetry(t) PROVE IInv'
<1>0. TypeOK /\ Own(t)
  BY Parts
<1>1. PICK r \in Results(t), n \in Totals(t) :
        /\ Retries(t, r, n)
        /\ prior' = [prior EXCEPT ![t] = n]
        /\ retried' = IF SameRoute(t, r) THEN retried \cup {t} ELSE retried
        /\ alternate' = [alternate EXCEPT ![t] = IF SameRoute(t, r) THEN @ ELSE @ + 1]
  BY DEF ReturnRetry
<1>2. /\ pc[t] = "working" /\ stop[t] = "none"
      /\ pc' = [pc EXCEPT ![t] = "retrying"]
      /\ UNCHANGED <<state, stop, turns, attempts, leases, slots, run, passed, armed, waiter, history>>
  BY <1>1 DEF ReturnRetry, Retries, Affordable, Goto, tiers
<1>3. n \in 0 .. MaxTurns /\ turns[t] <= n
  BY <1>0 DEF Totals, TypeOK
<1>4. /\ prior' = [prior EXCEPT ![t] = n]
      /\ \/ t \notin retried /\ retried' = retried \cup {t} /\ alternate' = alternate
         \/ /\ retried' = retried /\ alternate[t] < Alternates
            /\ alternate' = [alternate EXCEPT ![t] = @ + 1]
  <2>1. CASE SameRoute(t, r)
    BY <1>0, <1>1, <2>1 DEF SameRoute, TypeOK
  <2>2. CASE ~SameRoute(t, r)
    BY <1>1, <2>2 DEF Retries, OtherRoute
  <2> QED
    BY <2>1, <2>2
<1>5. TypeOK'
  <2>1. retried' \subseteq Task /\ prior' \in [Task -> 0 .. MaxTurns]
    BY <1>0, <1>3, <1>4 DEF TypeOK
  <2>2. alternate' \in [Task -> 0 .. Alternates]
    <3>1. /\ alternate \in [Task -> 0 .. Alternates] /\ Alternates \in Nat
          /\ alternate[t] < Alternates => alternate[t] + 1 \in 0 .. Alternates
      <4>1. alternate \in [Task -> 0 .. Alternates] /\ Alternates \in Nat
        BY <1>0, RunAssumption DEF TypeOK
      <4>2. alternate[t] \in 0 .. Alternates
        BY <4>1
      <4> QED
        BY ONLY <4>1, <4>2
    <3> QED
      BY <1>4, <3>1
  <2>3. pc' \in [Task -> Labels]
    BY <1>0, <1>2 DEF TypeOK, Labels, Working
  <2> QED
    BY <1>0, <1>2, <2>1, <2>2, <2>3 DEF TypeOK
<1>6. Tried(t)' = Tried(t) + 1 /\ Tried(t) \in Nat
  BY <1>0, <1>4 DEF Tried, TypeOK
<1>7. Own(t)'
  <2>1. Budgeted(t)'
    BY <1>0, <1>2, <1>6 DEF Own, TaskSound, Budgeted, TypeOK, Launching, Working, MaxResumes
  <2> QED
    BY <1>0, <1>2, <1>3, <1>4, <2>1
       DEF TypeOK, Own, TaskSound, Ended, Held, Halted, Carried, Launching, Working, Terminal
<1>8. Alone(t)
  BY <1>0, <1>2, <1>4 DEF Alone, Same, TypeOK
<1> QED
  BY <1>0, <1>2, <1>5, <1>7, <1>8, MoveSafe DEF Alone, TypeOK

\* The attempt of a retry.
LEMMA RetrySafe == ASSUME IInv, NEW t \in Task, Retry(t) PROVE IInv'
<1>0. TypeOK /\ Own(t)
  BY Parts
<1>1. CASE pc[t] = "retrying" /\ Retry(t)
  <2>1. /\ pc' = [pc EXCEPT ![t] = "working"]
        /\ turns' = [turns EXCEPT ![t] = prior[t]]
        /\ attempts' = [attempts EXCEPT ![t] = @ + 1]
        /\ UNCHANGED <<state, stop, prior, retried, alternate, leases, slots, run, passed, armed, waiter, history>>
    BY <1>1 DEF Retry, Attempt, Goto, tiers
  <2>2. TypeOK'
    BY <1>0, <2>1 DEF TypeOK, Labels, Launching, Working, Terminal
  <2>3. Own(t)'
    <3>1. /\ pc'[t] = "working" /\ attempts'[t] = attempts[t] + 1 /\ attempts[t] \in Nat
          /\ Tried(t)' = Tried(t) /\ Tried(t) \in Nat
      <4>1. alternate[t] \in Nat
        BY <1>0, RunAssumption DEF TypeOK
      <4>2. Tried(t)' = Tried(t) /\ Tried(t) \in Nat
        BY <2>1, <4>1 DEF Tried
      <4>3. pc'[t] = "working" /\ attempts'[t] = attempts[t] + 1 /\ attempts[t] \in Nat
        BY <1>0, <2>1 DEF TypeOK
      <4> QED
        BY <4>2, <4>3
    <3>2. Budgeted(t)'
      BY <1>0, <1>1, <3>1 DEF Own, TaskSound, Budgeted, Launching, Working, MaxResumes
    <3>3. Halted(t)'
      BY <1>0, <1>1, <2>1, <3>1 DEF TypeOK, Own, TaskSound, Budgeted, Halted, Working
    <3> QED
      BY <1>0, <1>1, <2>1, <3>1, <3>2, <3>3 DEF Own, TaskSound, Ended, Held, Carried, Launching, Working
  <2>4. Alone(t)
    BY <1>0, <2>1 DEF Alone, Same, TypeOK
  <2> QED
    BY <1>0, <1>1, <2>1, <2>2, <2>3, <2>4, MoveSafe DEF Alone, Own, TaskSound, Ended, TypeOK, Launching,
       Working, Terminal
<1> QED
  BY <1>1 DEF Retry

\* A transient fault.
LEMMA ReturnResumeSafe == ASSUME IInv, NEW t \in Task, ReturnResume(t) PROVE IInv'
<1>0. TypeOK /\ Own(t)
  BY Parts
<1>1. PICK r \in Results(t), n \in Totals(t) :
        Transient(t, r) /\ Affordable(t, n) /\ prior' = [prior EXCEPT ![t] = n]
  BY DEF ReturnResume
<1>2. /\ pc[t] = "working" /\ stop[t] = "none" /\ attempts[t] <= MaxResumes
      /\ n \in 0 .. MaxTurns /\ turns[t] <= n
  BY <1>0, <1>1 DEF ReturnResume, Transient, Affordable, Totals, TypeOK
<1>3. /\ pc' = [pc EXCEPT ![t] = "resuming"]
      /\ prior' = [prior EXCEPT ![t] = n]
      /\ UNCHANGED <<state, stop, turns, attempts, retried, alternate, leases, slots, run, passed, armed, waiter, history>>
  BY <1>1, <1>2 DEF ReturnResume, Goto, tiers
<1>4. TypeOK'
  BY <1>0, <1>2, <1>3 DEF TypeOK, Labels, Launching, Working, Terminal
<1>5. Own(t)'
  BY <1>0, <1>2, <1>3 DEF TypeOK, Own, TaskSound, Ended, Held, Budgeted, Tried, Halted, Carried,
     Launching, Working, Terminal
<1>6. Alone(t)
  BY <1>0, <1>3 DEF Alone, Same, TypeOK
<1> QED
  BY <1>0, <1>2, <1>3, <1>4, <1>5, <1>6, MoveSafe DEF Alone, Own, TaskSound, Ended, TypeOK, Launching,
     Working, Terminal

\* The turns are recorded before the backoff.
LEMMA ResumeSafe == ASSUME IInv, NEW t \in Task, Resume(t) PROVE IInv'
<1>0. TypeOK /\ Own(t)
  BY Parts
<1>1. CASE pc[t] = "resuming" /\ Resume(t)
  <2>1. /\ pc' = [pc EXCEPT ![t] = "backoff"]
        /\ turns' = [turns EXCEPT ![t] = prior[t]]
        /\ UNCHANGED <<state, stop, prior, attempts, retried, alternate, leases, slots, run, passed, armed, waiter, history>>
    BY <1>1 DEF Resume, Goto, attemptVars, tiers
  <2>2. TypeOK'
    BY <1>0, <2>1 DEF TypeOK, Labels, Launching, Working, Terminal
  <2>3. Own(t)'
    BY <1>0, <1>1, <2>1 DEF TypeOK, Own, TaskSound, Ended, Held, Budgeted, Tried, Halted, Carried,
       Launching, Working, Terminal
  <2>4. Alone(t)
    BY <1>0, <2>1 DEF Alone, Same, TypeOK
  <2> QED
    BY <1>0, <1>1, <2>1, <2>2, <2>3, <2>4, MoveSafe DEF Alone, Own, TaskSound, Ended, TypeOK, Launching,
       Working, Terminal
<1> QED
  BY <1>1 DEF Resume

\* The end of a backoff.
LEMMA BackoffSafe == ASSUME IInv, NEW t \in Task, Backoff(t) PROVE IInv'
<1>0. TypeOK /\ Own(t)
  BY Parts
<1>1. pc[t] = "backoff"
  BY DEF Backoff
<1>2. CASE stop[t] = "none" /\ Attempt(t) /\ UNCHANGED turns
  <2>1. /\ pc' = [pc EXCEPT ![t] = "working"]
        /\ attempts' = [attempts EXCEPT ![t] = @ + 1]
        /\ UNCHANGED <<state, stop, turns, prior, retried, alternate, leases, slots, run, passed, armed, waiter, history>>
    BY <1>1, <1>2 DEF Attempt, Goto, tiers
  <2>2. TypeOK'
    BY <1>0, <2>1 DEF TypeOK, Labels, Launching, Working, Terminal
  <2>3. Own(t)'
    <3>1. /\ pc'[t] = "working" /\ attempts'[t] = attempts[t] + 1 /\ attempts[t] \in Nat
          /\ Tried(t)' = Tried(t) /\ Tried(t) \in Nat
      <4>1. alternate[t] \in Nat
        BY <1>0, RunAssumption DEF TypeOK
      <4>2. Tried(t)' = Tried(t) /\ Tried(t) \in Nat
        BY <2>1, <4>1 DEF Tried
      <4>3. pc'[t] = "working" /\ attempts'[t] = attempts[t] + 1 /\ attempts[t] \in Nat
        BY <1>0, <2>1 DEF TypeOK
      <4> QED
        BY <4>2, <4>3
    <3>2. Budgeted(t)'
      BY <1>0, <1>1, <1>2, <3>1 DEF Own, TaskSound, Budgeted, Launching, Working, MaxResumes
    <3>3. Halted(t)'
      BY <1>0, <1>1, <1>2, <2>1, <3>1 DEF TypeOK, Own, TaskSound, Budgeted, Halted, Working
    <3> QED
      BY <1>0, <1>1, <1>2, <2>1, <3>1, <3>2, <3>3 DEF Own, TaskSound, Ended, Held, Carried, Launching,
         Working
  <2>4. Alone(t)
    BY <1>0, <2>1 DEF Alone, Same, TypeOK
  <2> QED
    BY <1>0, <1>1, <1>2, <2>1, <2>2, <2>3, <2>4, MoveSafe DEF Alone, Own, TaskSound, Ended, TypeOK,
       Launching, Working, Terminal
<1>3. CASE /\ stop[t] # "none" /\ UNCHANGED turns
           /\ Finish(Only(t, stop[t]), run, FALSE, Only(t, "leaving"))
           /\ Timers(armed)
           /\ UNCHANGED <<stop, attemptVars, tiers, passed, history>>
  <2>1. stop[t] \in Terminal
    BY <1>0, <1>3 DEF TypeOK, Terminal
  <2>2. /\ turns' \in [Task -> 0 .. MaxTurns] /\ leases' \subseteq Task /\ slots' \subseteq Task
        /\ stop' \in [Task -> {"none", "aborted", "timed_out"}]
        /\ history' \in [halted : [Task -> Nat], cancelled : SUBSET Task]
    BY <1>0, <1>3 DEF TypeOK, tiers
  <2> QED
    BY <1>1, <1>3, <2>1, <2>2, EndSafe DEF tiers, Working
<1> QED
  BY <1>2, <1>3 DEF Backoff

\* The result that ends a task.
LEMMA ReturnEndSafe == ASSUME IInv, NEW t \in Task, ReturnEnd(t) PROVE IInv'
<1>0. TypeOK /\ Own(t)
  BY Parts
<1>1. pc[t] = "working" /\ Timers(armed) /\ UNCHANGED <<stop, attemptVars, tiers, passed, history>>
  BY DEF ReturnEnd
<1>2. PICK r \in Results(t), n \in Totals(t), out \in {"leaving", "lingering"} :
        /\ turns' = [turns EXCEPT ![t] = n]
        /\ Finish(Only(t, EndOf(t, r)), run, FALSE, Only(t, out))
  BY DEF ReturnEnd
<1>3. EndOf(t, r) \in Terminal /\ (stop[t] # "none" => EndOf(t, r) = stop[t])
  BY <1>0, ResultAssumption DEF EndOf, Results, TypeOK, Terminal
<1>4. n \in 0 .. MaxTurns
  BY <1>0 DEF Totals, TypeOK
<1>5. /\ turns' \in [Task -> 0 .. MaxTurns] /\ leases' \subseteq Task /\ slots' \subseteq Task
      /\ stop' \in [Task -> {"none", "aborted", "timed_out"}]
      /\ history' \in [halted : [Task -> Nat], cancelled : SUBSET Task]
      /\ \A u \in Task \ {t} : turns'[u] = turns[u]
  BY <1>0, <1>1, <1>2, <1>4 DEF TypeOK, tiers
<1>6. t \in leases' \cap slots'
  BY <1>0, <1>1 DEF Own, Working, tiers
<1> DEFINE end == EndOf(t, r)
<1> HIDE DEF end
<1> QED
  <2>1. end \in Terminal /\ (stop[t] # "none" => end = stop[t])
        /\ Finish(Only(t, end), run, FALSE, Only(t, out))
    BY <1>2, <1>3 DEF end
  <2> QED
    BY <1>1, <1>5, <1>6, <2>1, EndSafe DEF tiers, Working

\* The worker fails.
LEMMA WorkerThrowsSafe == ASSUME IInv, NEW t \in Task, WorkerThrows(t) PROVE IInv'
  BY ThrowSafe DEF WorkerThrows, Working

\* A late disposal is done.
LEMMA DisposedSafe == ASSUME IInv, NEW t \in Task, Disposed(t) PROVE IInv'
<1>0. TypeOK /\ Own(t)
  BY Parts
<1>1. CASE pc[t] = "lingering" /\ Disposed(t)
  <2>1. /\ pc' = [pc EXCEPT ![t] = "leaving"]
        /\ UNCHANGED <<state, stop, turns, prior, attempts, retried, alternate, leases, slots, run, passed, armed, waiter, history>>
    BY <1>1 DEF Disposed, Goto, Quiet, attemptVars, tiers
  <2>2. TypeOK'
    BY <1>0, <2>1 DEF TypeOK, Labels, Launching, Working, Terminal
  <2>3. Own(t)'
    BY <1>0, <1>1, <2>1 DEF TypeOK, Own, TaskSound, Ended, Held, Budgeted, Tried, Halted, Carried,
       Launching, Working, Terminal
  <2>4. Alone(t)
    BY <1>0, <2>1 DEF Alone, Same, TypeOK
  <2> QED
    BY <1>0, <1>1, <2>1, <2>2, <2>3, <2>4, MoveSafe DEF Alone, Own, TaskSound, Ended, TypeOK, Launching,
       Working, Terminal
<1> QED
  BY <1>1 DEF Disposed

\* The finally blocks, and the pump.
LEMMA LeaveSafe == ASSUME IInv, NEW t \in Task, Leave(t) PROVE IInv'
<1>0. TypeOK /\ Own(t)
  BY Parts
<1>1. /\ pc[t] = "leaving" /\ leases' = leases \ {t} /\ slots' = slots \ {t}
      /\ UNCHANGED <<stop, turns, attemptVars, passed, history>>
      /\ Finish(Nobody, [run EXCEPT !.inFlight = @ - 1], TRUE, Only(t, "gone"))
      /\ Timers(armed)
  BY DEF Leave, Quiet
<1>2. WidthKept /\ Concurrency \in Nat /\ \A u \in Task : Own(u)
  BY Parts, RunAssumption
<1> DEFINE where == Only(t, "gone")
           r == [run EXCEPT !.inFlight = @ - 1]
<1>3. DOMAIN Nobody = {} /\ DOMAIN where = {t} /\ where[t] = "gone"
  BY DEF Only, Nobody
<1>4. Cardinality(Underway \ {t}) = Cardinality(Underway) - 1 /\ run.inFlight - 1 \in Nat
  <2>1. t \in Underway /\ Underway \in SUBSET Task
    BY <1>1 DEF Underway
  <2>2. IsFiniteSet(Underway) /\ Cardinality(Underway) \in Nat
    BY <2>1, Tasks
  <2>3. Cardinality(Underway \ {t}) = Cardinality(Underway) - 1 /\ Cardinality(Underway) # 0
    BY <2>1, <2>2, FS_RemoveElement, FS_EmptySet
  <2> QED
    BY <1>2, <2>2, <2>3 DEF WidthKept
<1>5. /\ r \in RunType /\ r.state = run.state /\ r.completions = run.completions
      /\ r.turns = run.turns /\ r.inFlight = run.inFlight - 1
  BY <1>0, <1>4 DEF TypeOK, RunType
<1> HIDE DEF where, r
<1>6. /\ r.inFlight = Cardinality({u \in Task : (IF u \in DOMAIN where THEN where[u] ELSE pc[u])
                                                  \notin {"undispatched", "gone"}})
      /\ r.inFlight <= Concurrency
  <2>1. Underway \ {t} = {u \in Task : (IF u \in DOMAIN where THEN where[u] ELSE pc[u])
                                         \notin {"undispatched", "gone"}}
    BY <1>3 DEF Underway
  <2>2. r.inFlight = Cardinality(Underway \ {t})
    BY <1>2, <1>4, <1>5 DEF WidthKept
  <2>3. run.inFlight \in Nat /\ run.inFlight <= Concurrency
    BY <1>0, <1>2 DEF WidthKept, TypeOK
  <2> QED
    BY <1>2, <1>5, <2>1, <2>2, <2>3
<1>7. /\ state' \in [Task -> Terminal \cup {"queued", "starting", "running", "waiting"}]
      /\ \A u \in Task : state'[u] = IF u \in DOMAIN Nobody /\ state[u] \notin Terminal
                                     THEN Nobody[u] ELSE state[u]
      /\ pc' \in [Task -> Labels]
      /\ \A u \in Task : \/ pc'[u] = IF u \in DOMAIN where THEN where[u] ELSE pc[u]
                         \/ /\ u \notin DOMAIN where /\ pc[u] = "undispatched"
                            /\ state'[u] = "queued" /\ pc'[u] = "queued"
      /\ run' \in RunType
      /\ waiter' \in [Waiter -> [status : {"idle", "waiting", "resolved", "rejected"}, baseline : Nat]]
      /\ Counts' /\ WidthKept' /\ NobodyWaitsInVain'
  <2>1. /\ DOMAIN Nobody \subseteq Task /\ \A u \in DOMAIN Nobody : Nobody[u] \in Terminal
        /\ DOMAIN where \subseteq Task
        /\ \A u \in DOMAIN where : where[u] \in Labels \ {"undispatched"} /\ pc[u] # "undispatched"
    BY <1>1, <1>3 DEF Labels
  <2>2. turns' \in [Task -> 0 .. MaxTurns] /\ \A u \in Task : state[u] \in Terminal => turns'[u] = turns[u]
    BY <1>0, <1>1 DEF TypeOK
  <2>3. Finish(Nobody, r, TRUE, where)
    BY <1>1 DEF where, r
  <2> QED
    BY <1>5, <1>6, <2>1, <2>2, <2>3, FinishSafe
<1>8. armed' \in [run : BOOLEAN, launch : SUBSET Reviewer]
  BY <1>0, <1>1 DEF Timers, TypeOK
<1>9. TypeOK'
  BY <1>0, <1>1, <1>7, <1>8 DEF TypeOK, RunType, attemptVars
<1>10. ASSUME NEW u \in Task \ {t} PROVE Own(u)'
  <2>1. Same(u)
    BY <1>1, <1>3, <1>7 DEF Same, attemptVars
  <2> QED
    BY <1>2, <2>1, SameOwn
<1>11. Own(t)'
  <2>1. pc'[t] = "gone" /\ state'[t] = state[t]
    BY <1>3, <1>7
  <2> QED
    BY <1>0, <1>1, <2>1
       DEF attemptVars, Own, TaskSound, Ended, Held, Budgeted, Tried, Halted, Carried, Launching, Working
<1> QED
  BY <1>7, <1>9, <1>10, <1>11, PartsNext

\* The cancel of one task.
LEMMA CancelSafe == ASSUME IInv, NEW t \in Task, Cancel(t) PROVE IInv'
<1>1. TypeOK
  BY Parts
<1>2. /\ Stop({t}, "aborted", run, TRUE) /\ Timers(armed)
      /\ UNCHANGED <<attemptVars, tiers, passed>>
  BY DEF Cancel
<1>3. armed' \in [run : BOOLEAN, launch : SUBSET Reviewer]
  BY <1>1, <1>2 DEF Timers, TypeOK
<1> DEFINE r == run
<1>4. /\ r \in RunType /\ r.state = run.state /\ r.completions = run.completions
      /\ r.turns = run.turns /\ r.inFlight = run.inFlight
  BY <1>1 DEF TypeOK, RunType
<1>5. {t} \in SUBSET Task
  BY RunAssumption
<1> HIDE DEF r
<1>6. Stop({t}, "aborted", r, TRUE)
  BY <1>2 DEF r
<1> QED
  BY <1>2, <1>3, <1>4, <1>5, <1>6, StopSafe

\* The cancel of the run.
LEMMA CancelRunSafe == ASSUME IInv, CancelRun PROVE IInv'
<1>1. TypeOK
  BY Parts
<1>2. /\ Stop(Task, "aborted", [run EXCEPT !.accepting = FALSE], FALSE) /\ Timers(armed)
      /\ UNCHANGED <<attemptVars, tiers, passed>>
  BY DEF CancelRun
<1>3. armed' \in [run : BOOLEAN, launch : SUBSET Reviewer]
  BY <1>1, <1>2 DEF Timers, TypeOK
<1> DEFINE r == [run EXCEPT !.accepting = FALSE]
<1>4. /\ r \in RunType /\ r.state = run.state /\ r.completions = run.completions
      /\ r.turns = run.turns /\ r.inFlight = run.inFlight
  BY <1>1 DEF TypeOK, RunType
<1>5. Task \in SUBSET Task
  BY RunAssumption
<1> HIDE DEF r
<1>6. Stop(Task, "aborted", r, FALSE)
  BY <1>2 DEF r
<1> QED
  BY <1>2, <1>3, <1>4, <1>5, <1>6, StopSafe

\* The deadline of the run.
LEMMA ExpireSafe == ASSUME IInv, Expire PROVE IInv'
<1>1. TypeOK
  BY Parts
<1>2. /\ Stop(Task, "timed_out", [run EXCEPT !.accepting = FALSE], FALSE) /\ Timers([armed EXCEPT !.run = FALSE])
      /\ UNCHANGED <<attemptVars, tiers, passed>>
  BY DEF Expire
<1>3. armed' \in [run : BOOLEAN, launch : SUBSET Reviewer]
  BY <1>1, <1>2 DEF Timers, TypeOK
<1> DEFINE r == [run EXCEPT !.accepting = FALSE]
<1>4. /\ r \in RunType /\ r.state = run.state /\ r.completions = run.completions
      /\ r.turns = run.turns /\ r.inFlight = run.inFlight
  BY <1>1 DEF TypeOK, RunType
<1>5. Task \in SUBSET Task
  BY RunAssumption
<1> HIDE DEF r
<1>6. Stop(Task, "timed_out", r, FALSE)
  BY <1>2 DEF r
<1> QED
  BY <1>2, <1>3, <1>4, <1>5, <1>6, StopSafe

\* The launch deadline of a reviewer.
LEMMA LaunchTimeoutSafe == ASSUME IInv, NEW t \in Reviewer, LaunchTimeout(t) PROVE IInv'
<1>1. TypeOK
  BY Parts
<1>2. /\ Stop({t}, "timed_out", run, TRUE) /\ Timers([armed EXCEPT !.launch = @ \ {t}])
      /\ UNCHANGED <<attemptVars, tiers, passed>>
  BY DEF LaunchTimeout
<1>3. armed' \in [run : BOOLEAN, launch : SUBSET Reviewer]
  BY <1>1, <1>2 DEF Timers, TypeOK
<1> DEFINE r == run
<1>4. /\ r \in RunType /\ r.state = run.state /\ r.completions = run.completions
      /\ r.turns = run.turns /\ r.inFlight = run.inFlight
  BY <1>1 DEF TypeOK, RunType
<1>5. {t} \in SUBSET Task
  BY RunAssumption
<1> HIDE DEF r
<1>6. Stop({t}, "timed_out", r, TRUE)
  BY <1>2 DEF r
<1> QED
  BY <1>2, <1>3, <1>4, <1>5, <1>6, StopSafe

\* A point of time passes.
LEMMA ClockSafe == ASSUME IInv, NEW x \in {"review", "late", "over"}, Clock(x) PROVE IInv'
<1>1. TypeOK /\ Counts /\ WidthKept /\ NobodyWaitsInVain /\ \A t \in Task : Own(t)
  BY Parts
<1>2. TypeOK'
  BY <1>1 DEF Clock, TypeOK, attemptVars, tiers
<1>3. \A t \in Task : Same(t)
  BY DEF Clock, Same, attemptVars, tiers
<1>4. Counts' /\ WidthKept' /\ NobodyWaitsInVain'
  BY <1>1 DEF Clock, Counts, Over, WidthKept, Underway, NobodyWaitsInVain, Ready
<1> QED
  BY <1>1, <1>2, <1>3, <1>4, SameOwn, PartsNext

\* A wait begins with a look at the run, or ends on its own.
LEMMA WaitSafe == ASSUME IInv, NEW w \in Waiter, Wait(w) \/ WaitEnds(w) PROVE IInv'
<1>1. TypeOK /\ Counts /\ WidthKept /\ NobodyWaitsInVain /\ \A t \in Task : Own(t)
  BY Parts
<1>2. /\ UNCHANGED <<pc, state, stop, turns, attemptVars, tiers, run, passed, armed, history>>
      /\ \/ waiter' = [waiter EXCEPT ![w] = [status |-> IF run.state = "running" THEN "waiting" ELSE "resolved",
                                             baseline |-> run.completions]]
         \/ waiter' = [waiter EXCEPT ![w].status = "rejected"]
  BY DEF Wait, WaitEnds
<1>3. waiter' \in [Waiter -> [status : {"idle", "waiting", "resolved", "rejected"}, baseline : Nat]]
  BY <1>1, <1>2, SMTT(25) DEF TypeOK
<1>4. TypeOK'
  BY <1>1, <1>2, <1>3 DEF TypeOK, attemptVars, tiers
<1>5. \A t \in Task : Same(t)
  BY <1>2 DEF Same, attemptVars, tiers
<1>6. Counts' /\ WidthKept'
  BY <1>1, <1>2 DEF Counts, Over, WidthKept, Underway
<1>7. NobodyWaitsInVain'
  <2> SUFFICES ASSUME NEW v \in Waiter, waiter'[v].status = "waiting" PROVE ~Ready(v, run)'
    BY DEF NobodyWaitsInVain
  <2>1. CASE v # w
    <3>1. waiter'[v] = waiter[v]
      BY <1>1, <1>2, <2>1 DEF TypeOK
    <3> QED
      BY <1>1, <1>2, <3>1 DEF NobodyWaitsInVain, Ready
  <2>2. CASE v = w
    <3>1. run.state = "running" /\ waiter'[w].baseline = run.completions
      BY <1>1, <1>2, <2>2 DEF TypeOK
    <3> QED
      BY <1>1, <1>2, <2>2, <3>1 DEF Ready, TypeOK
  <2> QED
    BY <2>1, <2>2
<1> QED
  BY <1>1, <1>4, <1>5, <1>6, <1>7, SameOwn, PartsNext

\* The state in which start returns.
LEMMA InitSafe == Init => IInv
<1> SUFFICES ASSUME Init PROVE IInv
  OBVIOUS
<1> DEFINE first == {t \in Task : t <= Concurrency}
<1>1. first \in SUBSET Task /\ Cardinality(first) \in Nat /\ Cardinality(first) <= Concurrency
  <2>1. Task \in SUBSET Nat /\ Concurrency \in Nat /\ \A t \in Task : t >= 1
    BY RunAssumption, FS_CardinalityType
  <2>2. first \in SUBSET Task /\ first \in SUBSET (1 .. Concurrency)
    <3>1. ASSUME NEW t \in Task, t <= Concurrency PROVE t \in 1 .. Concurrency
      BY <2>1, <3>1
    <3> QED
      BY <3>1
  <2>3. IsFiniteSet(1 .. Concurrency) /\ Cardinality(1 .. Concurrency) <= Concurrency
    BY <2>1, RunAssumption, FS_Interval
  <2>4. Cardinality(first) <= Cardinality(1 .. Concurrency) /\ Cardinality(first) \in Nat
    <3> HIDE DEF first
    <3> QED
      BY <2>2, <2>3, FS_Subset, Tasks
  <2>5. Cardinality(1 .. Concurrency) \in Nat
    BY <2>3, FS_CardinalityType
  <2> HIDE DEF first
  <2> QED
    BY <2>1, <2>2, <2>3, <2>4, <2>5
<1>2. TypeOK
  <2>1. run \in RunType
    BY <1>1 DEF Init, RunType
  <2>2. Never \in Nat
    BY RunAssumption DEF Never, MaxResumes
  <2>3. history \in [halted : [Task -> Nat], cancelled : SUBSET Task]
    BY <2>2 DEF Init
  <2>4. turns \in [Task -> 0 .. MaxTurns] /\ prior \in [Task -> 0 .. MaxTurns] /\ alternate \in [Task -> 0 .. Alternates]
    BY RunAssumption DEF Init
  <2> QED
    BY <2>1, <2>3, <2>4, RunAssumption DEF Init, TypeOK, RunType, Labels, Launching
<1>3. WidthKept
  <2>1. Underway = first
    BY DEF Init, Underway
  <2> QED
    BY <1>1, <2>1 DEF Init, WidthKept
<1>4. Counts
  <2>1. Over = {} /\ TurnsOf({}, turns) = {}
    BY DEF Init, Over, Terminal, TurnsOf
  <2>2. Task # {}
    BY RunAssumption
  <2> QED
    BY <2>1, <2>2, FS_EmptySet DEF Init, Counts
<1>5. NobodyWaitsInVain
  BY DEF Init, NobodyWaitsInVain
<1>6. ASSUME NEW t \in Task PROVE Own(t)
  BY RunAssumption
     DEF Init, Own, TaskSound, Ended, Held, Budgeted, Tried, Halted, Carried, Launching, Working,
        Terminal,
         MaxResumes
<1> QED
  BY <1>2, <1>3, <1>4, <1>5, <1>6, Parts

\* Steps that change nothing keep the invariant.
LEMMA StutterSafe == ASSUME IInv, UNCHANGED vars PROVE IInv'
<1>1. TypeOK /\ Counts /\ WidthKept /\ NobodyWaitsInVain /\ \A t \in Task : Own(t)
  BY Parts
<1>2. TypeOK'
  BY <1>1 DEF vars, attemptVars, tiers, TypeOK
<1>3. \A t \in Task : Same(t)
  BY DEF vars, attemptVars, tiers, Same
<1>4. Counts' /\ WidthKept' /\ NobodyWaitsInVain'
  BY <1>1 DEF vars, Counts, Over, WidthKept, Underway, NobodyWaitsInVain, Ready
<1> QED
  BY <1>1, <1>2, <1>3, <1>4, SameOwn, PartsNext

\* Every handler keeps the invariant.
LEMMA StepSafe == IInv /\ [Next]_vars => IInv'
<1> SUFFICES ASSUME IInv, [Next]_vars PROVE IInv'
  OBVIOUS
<1>1. ASSUME NEW t \in Task, Execute(t) PROVE IInv'
  BY <1>1, AnnounceSafe, AcquireSafe, MachineRefuseSafe, LaunchSafe, FirstAttemptSafe, RetrySafe,
     ResumeSafe, BackoffSafe, LeaveSafe DEF Execute
<1>2. ASSUME NEW t \in Task, SessionGrant(t) \/ MachineGrant(t) \/ MachineError(t) PROVE IInv'
  BY <1>2, SessionGrantSafe, MachineGrantSafe, MachineErrorSafe
<1>3. ASSUME NEW t \in Task, Progress(t) \/ ReturnRetry(t) \/ ReturnResume(t) \/ Worker(t) PROVE IInv'
  BY <1>3, ProgressSafe, ReturnRetrySafe, ReturnResumeSafe, ReturnEndSafe, WorkerThrowsSafe DEF Worker
<1>4. ASSUME NEW t \in Task, Disposed(t) \/ Cancel(t) PROVE IInv'
  BY <1>4, DisposedSafe, CancelSafe
<1>5. ASSUME NEW t \in Reviewer, LaunchTimeout(t) PROVE IInv'
  BY <1>5, LaunchTimeoutSafe
<1>6. ASSUME NEW x \in {"review", "late", "over"}, Clock(x) PROVE IInv'
  BY <1>6, ClockSafe
<1>7. CASE CancelRun \/ Expire
  BY <1>7, CancelRunSafe, ExpireSafe
<1>8. ASSUME NEW w \in Waiter, Wait(w) \/ WaitEnds(w) PROVE IInv'
  BY <1>8, WaitSafe
<1>9. CASE UNCHANGED vars
  BY <1>9, StutterSafe
<1> QED
  BY <1>1, <1>2, <1>3, <1>4, <1>5, <1>6, <1>7, <1>8, <1>9 DEF Next

\* The inductive invariant holds in every reachable state.
THEOREM SafetyInvariant == Spec => []IInv
<1> QED
  BY InitSafe, StepSafe, PTL DEF Spec

\* RunAccounted: the width counts the tasks that are underway, launch capacity
\* follows the worker to the end of its cleanup, completions and turns of every
\* ended task are counted once, the run ends with its last task, and attempts
\* are bounded by the budgets of resumes and routes (coordinator.ts, execute,
\* finishTask and pump).
THEOREM RunIsAccounted == Spec => []RunAccounted
<1>1. IInv => AttemptsBounded
  <2> SUFFICES ASSUME IInv, NEW t \in Task PROVE attempts[t] <= 2 + Alternates + MaxResumes
    BY DEF AttemptsBounded
  <2>1. TypeOK /\ Budgeted(t)
    BY Parts DEF Own, TaskSound
  <2>2. Alternates \in Nat /\ attempts[t] \in Nat /\ alternate[t] \in 0 .. Alternates
    BY <2>1, RunAssumption DEF TypeOK
  <2>3. Tried(t) \in 0 .. Alternates + 1
    BY <2>2 DEF Tried
  <2> QED
    BY <2>1, <2>2, <2>3 DEF Budgeted, MaxResumes
<1>2. IInv => RunAccounted
  BY <1>1 DEF IInv, RunAccounted
<1> QED
  BY <1>2, SafetyInvariant, PTL

\* StopHolds: a stop that came first decides how the task ends, and from then on
\* there is at most the attempt that was on its way (coordinator.ts, stopTask and
\* the checks of execute).
THEOREM StopsHold == Spec => []StopHolds
<1>1. IInv => NoLateLaunch
  <2> SUFFICES ASSUME IInv, NEW t \in Task, history.halted[t] # Never
               PROVE  attempts[t] <= IF history.halted[t] = 0 THEN 0 ELSE history.halted[t] + 1
    BY DEF NoLateLaunch
  <2>1. TypeOK /\ Halted(t)
    BY Parts DEF Own, TaskSound
  <2> QED
    BY <2>1 DEF Halted, TypeOK
<1>2. IInv => StopHolds
  BY <1>1 DEF IInv, StopHolds
<1> QED
  BY <1>2, SafetyInvariant, PTL

\* NobodyWaitsInVain: no wait misses the event that it is for (coordinator.ts,
\* wait and notify).
THEOREM WaitsAreNotified == Spec => []NobodyWaitsInVain
<1>1. IInv => NobodyWaitsInVain
  BY DEF IInv
<1> QED
  BY <1>1, SafetyInvariant, PTL
-----------------------------------------------------------------------------
\* A step loses nothing of the record of t.
Advances(t) == /\ state[t] \in Terminal => state'[t] = state[t]
               /\ turns'[t] >= turns[t]

\* Neither does a handler that ends with Finish, but that it may set turns.
LEMMA FinishKeeps ==
  ASSUME NEW ending, NEW r, NEW pumping, NEW where, Finish(ending, r, pumping, where)
  PROVE  \A t \in Task : state[t] \in Terminal => state'[t] = state[t]
  BY DEF Finish

\* Nor does any handler of a launch.
LEMMA LaunchAdvances ==
  ASSUME IInv, NEW t \in Task,
         \/ SessionGrant(t) \/ Announce(t) \/ Acquire(t) \/ MachineGrant(t) \/ MachineRefuse(t)
         \/ MachineError(t) \/ Launch(t) \/ FirstAttempt(t) \/ WorkerThrows(t) \/ Disposed(t)
  PROVE  \A u \in Task : Advances(u)
<1>1. TypeOK /\ \A u \in Task : Own(u) /\ turns[u] \in Nat
  BY Parts DEF TypeOK
<1>2. CASE Throw(t)
  <2>1. \A u \in Task : state[u] \in Terminal => state'[u] = state[u]
    BY <1>2, FinishKeeps DEF Throw
  <2>2. turns' = turns
    BY <1>2 DEF Throw, Quiet
  <2> QED
    BY <1>1, <2>1, <2>2 DEF Advances
<1>3. CASE UNCHANGED <<state, turns>>
  BY <1>1, <1>3 DEF Advances
<1>4. CASE pc[t] \in Launching /\ turns' = turns /\ \E x : state' = [state EXCEPT ![t] = x]
  <2>1. state[t] \notin Terminal
    BY <1>1, <1>4 DEF Own, TaskSound, Ended
  <2> QED
    BY <1>1, <1>4, <2>1 DEF Advances, TypeOK
<1> QED
  BY <1>2, <1>3, <1>4
     DEF SessionGrant, Announce, Acquire, MachineGrant, MachineRefuse, MachineError, Launch,
         FirstAttempt, Attempt, WorkerThrows, Disposed, Quiet, Launching

\* Nor does any handler of an attempt: the next one counts on.
LEMMA AttemptAdvances ==
  ASSUME IInv, NEW t \in Task,
         \/ Progress(t) \/ ReturnRetry(t) \/ Retry(t) \/ ReturnResume(t) \/ Resume(t) \/ ReturnEnd(t)
         \/ Backoff(t) \/ Leave(t)
  PROVE  \A u \in Task : Advances(u)
<1>1. TypeOK /\ \A u \in Task : Own(u) /\ turns[u] \in Nat
  BY Parts DEF TypeOK
<1>2. CASE Progress(t)
  <2>1. PICK k \in 0 .. MaxTurns - prior[t] : prior[t] + k >= turns[t] /\ turns' = [turns EXCEPT ![t] = prior[t] + k]
    BY <1>2 DEF Progress
  <2>2. PICK x : state' = [state EXCEPT ![t] = x]
    BY <1>2 DEF Progress
  <2>3. state[t] \notin Terminal
    BY <1>2 DEF Progress
  <2> QED
    BY <1>1, <2>1, <2>2, <2>3 DEF Advances, TypeOK
<1>3. CASE ReturnRetry(t) \/ ReturnResume(t)
  BY <1>1, <1>3 DEF ReturnRetry, ReturnResume, Advances
<1>4. CASE Retry(t) \/ Resume(t)
  <2>1. turns' = [turns EXCEPT ![t] = prior[t]] /\ state' = state
    BY <1>4 DEF Retry, Resume, Attempt
  <2>2. prior[t] >= turns[t]
    BY <1>1, <1>4 DEF Retry, Resume, Own, TaskSound, Carried, TypeOK
  <2> QED
    BY <1>1, <2>1, <2>2 DEF Advances, TypeOK
<1>5. CASE ReturnEnd(t)
  <2>1. PICK n \in Totals(t) : turns' = [turns EXCEPT ![t] = n]
    BY <1>5 DEF ReturnEnd
  <2>2. n >= turns[t]
    BY DEF Totals
  <2>3. \A u \in Task : state[u] \in Terminal => state'[u] = state[u]
    BY <1>5, FinishKeeps DEF ReturnEnd
  <2> QED
    BY <1>1, <2>1, <2>2, <2>3 DEF Advances, TypeOK
<1>6. CASE Backoff(t) \/ Leave(t)
  <2>1. turns' = turns
    BY <1>6 DEF Backoff, Leave, Quiet
  <2>2. \A u \in Task : state[u] \in Terminal => state'[u] = state[u]
    BY <1>6, FinishKeeps DEF Backoff, Leave, Attempt
  <2> QED
    BY <1>1, <2>1, <2>2 DEF Advances
<1> QED
  BY <1>2, <1>3, <1>4, <1>5, <1>6

\* RecordsAdvance: an ended task never comes back to life, whatever its worker
\* still reports, and no turns are lost (coordinator.ts, applyProgress and the
\* carried usage of execute).
THEOREM RecordsOnlyAdvance == Spec => RecordsAdvance
<1> DEFINE Advance == \A t \in Task : /\ state[t] \in Terminal => state'[t] = state[t]
                                      /\ turns'[t] >= turns[t]
<1>1. IInv /\ [Next]_vars => Advance
  <2> SUFFICES ASSUME IInv, [Next]_vars PROVE \A t \in Task : Advances(t)
    BY DEF Advances
  <2>1. \A t \in Task : turns[t] \in Nat
    BY Parts DEF TypeOK
  <2>2. ASSUME NEW t \in Task, Execute(t) \/ SessionGrant(t) \/ MachineGrant(t) \/ MachineError(t) \/ Disposed(t)
        PROVE  \A u \in Task : Advances(u)
    BY <2>2, LaunchAdvances, AttemptAdvances DEF Execute
  <2>3. ASSUME NEW t \in Task, Progress(t) \/ ReturnRetry(t) \/ ReturnResume(t) \/ Worker(t)
        PROVE  \A u \in Task : Advances(u)
    BY <2>3, LaunchAdvances, AttemptAdvances DEF Worker
  <2>4. ASSUME NEW S, NEW how, NEW r, NEW pumping, Stop(S, how, r, pumping)
        PROVE  \A u \in Task : Advances(u)
    BY <2>1, <2>4, FinishKeeps DEF Stop, Advances
  <2>5. ASSUME NEW t \in Task, Cancel(t) PROVE \A u \in Task : Advances(u)
    BY <2>4, <2>5 DEF Cancel
  <2>6. ASSUME NEW t \in Reviewer, LaunchTimeout(t) PROVE \A u \in Task : Advances(u)
    BY <2>4, <2>6 DEF LaunchTimeout
  <2>7. CASE CancelRun \/ Expire
    BY <2>4, <2>7 DEF CancelRun, Expire
  <2>8. CASE UNCHANGED <<state, turns>>
    BY <2>1, <2>8 DEF Advances
  <2> QED
    BY <2>2, <2>3, <2>5, <2>6, <2>7, <2>8 DEF Next, Clock, Wait, WaitEnds, vars
<1> QED
  BY <1>1, SafetyInvariant, PTL DEF Spec, RecordsAdvance
-----------------------------------------------------------------------------
(* CompletionDelivery. Completions: the parent is told of each once and    *)
(* woken for it once, for any runs, retries, faults, prompts and restarts. *)

\* CompletionDelivery counts with the same operator.
LEMMA DeliverySize == \A S : Delivery!Cardinality(S) = Cardinality(S)
BY DEF Delivery!Cardinality, Cardinality

-----------------------------------------------------------------------------
(* Parts of a sequence.                                                    *)

\* t is part of s, in its order: what precedes an element of t in t precedes it in s.
Within(t, s) ==
  \A j \in DOMAIN t : \E k \in DOMAIN s :
    s[k] = t[j] /\ \A i \in 1 .. j : \E h \in 1 .. k : s[h] = t[i]

\* What is kept are finitely many places.
LEMMA DeliveryKeptPlaces ==
  ASSUME NEW s \in Seq(Runs), NEW ids
  PROVE  /\ Delivery!Kept(s, ids) \in SUBSET (1 .. Len(s)) /\ IsFiniteSet(Delivery!Kept(s, ids))
         /\ Cardinality(Delivery!Kept(s, ids)) \in Nat
<1>1. Delivery!Kept(s, ids) \in SUBSET (1 .. Len(s)) /\ Len(s) \in Nat
  BY DEF Delivery!Kept
<1>2. IsFiniteSet(1 .. Len(s))
  BY <1>1, FS_Interval
<1>3. IsFiniteSet(Delivery!Kept(s, ids))
  BY <1>1, <1>2, FS_Subset
<1> QED
  BY <1>1, <1>3, FS_CardinalityType

\* The rank of a place is one of the numbers up to their count, and grows with it.
LEMMA DeliveryRanks ==
  ASSUME NEW K, IsFiniteSet(K), K \in SUBSET Nat
  PROVE  /\ \A i \in K : Delivery!Rank(K, i) \in 1 .. Cardinality(K) /\ Delivery!Rank(K, i) \in Nat
         /\ \A i, k \in K : Delivery!Rank(K, i) <= Delivery!Rank(K, k) => i <= k
         /\ \A i, k \in K : Delivery!Rank(K, i) = Delivery!Rank(K, k) => i = k
<1> DEFINE L(i) == {k \in K : k <= i}
<1>1. \A i \in Nat : L(i) \in SUBSET K /\ IsFiniteSet(L(i)) /\ Cardinality(L(i)) \in Nat /\ Cardinality(L(i)) <= Cardinality(K)
  BY FS_Subset, FS_CardinalityType
<1>2. \A i \in K : Cardinality(L(i)) # 0
  BY <1>1, FS_EmptySet
<1>3. \A i \in K : Delivery!Rank(K, i) \in 1 .. Cardinality(K) /\ Delivery!Rank(K, i) \in Nat
  <2>1. Cardinality(K) \in Nat
    BY FS_CardinalityType
  <2> QED
    BY DeliverySize, <1>1, <1>2, <2>1 DEF Delivery!Rank
<1>4. ASSUME NEW i \in K, NEW k \in K, i < k PROVE Delivery!Rank(K, i) < Delivery!Rank(K, k)
  <2>1. L(i) \in SUBSET L(k) /\ L(i) # L(k)
    <3>1. k \in L(k) /\ k \notin L(i)
      BY <1>4
    <3>2. L(i) \in SUBSET L(k)
      <4>1. \A m \in Nat : m <= i => m <= k
        BY <1>4
      <4> QED
        BY <4>1
    <3> QED
      BY <3>1, <3>2
  <2>2. IsFiniteSet(L(k)) /\ Cardinality(L(i)) \in Nat /\ Cardinality(L(k)) \in Nat
    BY <1>1
  <2>3. Cardinality(L(i)) < Cardinality(L(k))
    <3> HIDE DEF L
    <3> QED
      BY <2>1, <2>2, FS_Subset
  <2> QED
    BY DeliverySize, <2>3 DEF Delivery!Rank
<1>5. ASSUME NEW i \in K, NEW k \in K, Delivery!Rank(K, i) <= Delivery!Rank(K, k) PROVE i <= k
  <2>1. Delivery!Rank(K, i) \in Nat /\ Delivery!Rank(K, k) \in Nat /\ (k < i => Delivery!Rank(K, k) < Delivery!Rank(K, i))
    BY <1>3, <1>4
  <2>2. ~(k < i)
    <3>1. \A a, b \in Nat : a <= b => ~(b < a)
      OBVIOUS
    <3> QED
      BY <1>5, <2>1, <3>1
  <2>3. i \in Nat /\ k \in Nat
    OBVIOUS
  <2> HIDE DEF L
  <2> QED
    BY ONLY <2>2, <2>3
<1>6. ASSUME NEW i \in K, NEW k \in K, Delivery!Rank(K, i) = Delivery!Rank(K, k) PROVE i = k
  <2>1. Delivery!Rank(K, i) \in Nat /\ Delivery!Rank(K, k) \in Nat /\ i \in Nat /\ k \in Nat
    BY <1>3
  <2>2. Delivery!Rank(K, i) <= Delivery!Rank(K, k) /\ Delivery!Rank(K, k) <= Delivery!Rank(K, i)
    BY <1>6, <2>1
  <2>3. i <= k /\ k <= i
    BY <1>5, <2>2
  <2> QED
    BY ONLY <2>1, <2>3
<1> QED
  BY <1>3, <1>5, <1>6

\* So every number up to their count is the rank of a place.
LEMMA DeliveryEveryRank ==
  ASSUME NEW K, IsFiniteSet(K), K \in SUBSET Nat, NEW n \in 1 .. Cardinality(K)
  PROVE  \E i \in K : Delivery!Rank(K, i) = n
<1> DEFINE T == 1 .. Cardinality(K)
           f == [i \in K |-> Delivery!Rank(K, i)]
<1>1. Cardinality(K) \in Nat
  BY FS_CardinalityType
<1>2. IsFiniteSet(T) /\ Cardinality(T) = Cardinality(K)
  BY <1>1, FS_Interval
<1>3. f \in Injection(K, T)
  <2>1. f \in [K -> T]
    BY DeliveryRanks
  <2>2. ASSUME NEW i \in K, NEW k \in K, f[i] = f[k] PROVE i = k
    BY <2>2, DeliveryRanks
  <2> HIDE DEF f, T
  <2> QED
    BY <2>1, <2>2 DEF Injection, IsInjective
<1>4. f \in Surjection(K, T)
  <2> HIDE DEF f, T
  <2> QED
    BY <1>2, <1>3, FS_Injection
<1>5. PICK i \in K : f[i] = n
  BY <1>4 DEF Surjection
<1> QED
  BY <1>5

\* What Without returns: a sequence of what is not among ids, in the order of s.
LEMMA DeliveryWithoutIs ==
  ASSUME NEW s \in Seq(Runs), NEW ids
  PROVE  /\ Delivery!Without(s, ids) \in Seq(Runs)
         /\ Delivery!ToSet(Delivery!Without(s, ids)) = Delivery!ToSet(s) \ ids
         /\ Within(Delivery!Without(s, ids), s)
<1> DEFINE K == Delivery!Kept(s, ids)
           N == Cardinality(K)
           at == [n \in 1 .. N |-> CHOOSE i \in K : Delivery!Rank(K, i) = n]
           t == Delivery!Without(s, ids)
<1>1. K \in SUBSET (1 .. Len(s)) /\ IsFiniteSet(K) /\ N \in Nat /\ Len(s) \in Nat
  BY DeliveryKeptPlaces
<1>2. K \in SUBSET Nat
  BY <1>1
<1>3. t = [n \in 1 .. N |-> s[at[n]]]
  BY DeliverySize DEF Delivery!Without
<1>4. ASSUME NEW n \in 1 .. N PROVE at[n] \in K /\ Delivery!Rank(K, at[n]) = n
  <2>1. \E i \in K : Delivery!Rank(K, i) = n
    <3> HIDE DEF K
    <3> QED
      BY <1>1, <1>2, DeliveryEveryRank
  <2> QED
    BY <2>1
<1>5. \A i \in K : i \in 1 .. Len(s) /\ s[i] \in Runs \ ids
  BY <1>1 DEF Delivery!Kept
<1> HIDE DEF at, K, N
<1>9. /\ \A i \in K : Delivery!Rank(K, i) \in 1 .. N
      /\ \A i, k \in K : Delivery!Rank(K, i) <= Delivery!Rank(K, k) => i <= k
      /\ \A i, k \in K : Delivery!Rank(K, i) = Delivery!Rank(K, k) => i = k
  BY <1>1, <1>2, DeliveryRanks DEF N
<1>6. t \in Seq(Runs) /\ DOMAIN t = 1 .. N
  <2>1. \A n \in 1 .. N : s[at[n]] \in Runs
    BY <1>4, <1>5
  <2> QED
    BY <1>1, <1>3, <2>1
<1>7. Delivery!ToSet(t) = Delivery!ToSet(s) \ ids
  <2>1. ASSUME NEW n \in 1 .. N PROVE t[n] \in Delivery!ToSet(s) \ ids
    BY <1>3, <1>4, <1>5 DEF Delivery!ToSet
  <2>2. ASSUME NEW i \in DOMAIN s, s[i] \notin ids PROVE \E n \in 1 .. N : t[n] = s[i]
    <3>1. i \in K /\ Delivery!Rank(K, i) \in 1 .. N
      <4>1. i \in K
        BY <2>2 DEF K, Delivery!Kept
      <4> QED
        BY <1>9, <4>1
    <3>2. PICK n \in 1 .. N : n = Delivery!Rank(K, i)
      BY <3>1
    <3>3. at[n] \in K /\ Delivery!Rank(K, at[n]) = Delivery!Rank(K, i)
      BY <1>4, <3>2
    <3>4. at[n] = i
      BY <1>9, <3>1, <3>3
    <3> QED
      BY <1>3, <3>4
  <2> QED
    BY <1>6, <2>1, <2>2 DEF Delivery!ToSet
<1>8. Within(t, s)
  <2>1. ASSUME NEW j \in 1 .. N, NEW i \in 1 .. j PROVE at[i] \in 1 .. at[j] /\ t[i] = s[at[i]]
    <3>1. i \in 1 .. N
      BY <1>1
    <3>2. at[i] \in K /\ Delivery!Rank(K, at[i]) = i /\ at[j] \in K /\ Delivery!Rank(K, at[j]) = j
      BY <1>4, <3>1
    <3>3. at[i] <= at[j]
      <4>1. i <= j
        BY <1>1
      <4> QED
        BY <1>9, <3>2, <4>1
    <3>4. at[i] \in 1 .. at[j]
      <4>1. at[i] \in 1 .. Len(s) /\ at[j] \in 1 .. Len(s)
        BY <1>1, <3>2
      <4> QED
        BY <1>1, <3>3, <4>1
    <3> QED
      BY <1>3, <3>1, <3>4
  <2>2. ASSUME NEW j \in 1 .. N
        PROVE  \E k \in DOMAIN s : s[k] = t[j] /\ \A i \in 1 .. j : \E h \in 1 .. k : s[h] = t[i]
    <3>1. at[j] \in DOMAIN s /\ s[at[j]] = t[j]
      BY <1>3, <1>4, <1>5
    <3> QED
      BY <2>1, <3>1
  <2> QED
    BY <1>6, <2>2 DEF Within
<1> QED
  BY <1>6, <1>7, <1>8

\* Part of a part.
LEMMA DeliveryWithinAgain ==
  ASSUME NEW s \in Seq(Runs), NEW t \in Seq(Runs), NEW u \in Seq(Runs), Within(u, t), Within(t, s)
  PROVE  Within(u, s)
<1>1. SUFFICES ASSUME NEW j \in DOMAIN u
               PROVE  \E k \in DOMAIN s : s[k] = u[j] /\ \A i \in 1 .. j : \E h \in 1 .. k : s[h] = u[i]
  BY DEF Within
<1>2. PICK l \in DOMAIN t : t[l] = u[j] /\ \A i \in 1 .. j : \E h \in 1 .. l : t[h] = u[i]
  BY DEF Within
<1>3. PICK k \in DOMAIN s : s[k] = t[l] /\ \A i \in 1 .. l : \E h \in 1 .. k : s[h] = t[i]
  BY DEF Within
<1> QED
  BY <1>2, <1>3

LEMMA DeliveryWithinItself == ASSUME NEW s \in Seq(Runs) PROVE Within(s, s)
<1>1. ASSUME NEW j \in DOMAIN s, NEW i \in 1 .. j PROVE i \in 1 .. j /\ s[i] = s[i]
  OBVIOUS
<1> QED
  BY DEF Within

\* A part has no other elements.
LEMMA DeliveryWithinIsSubset ==
  ASSUME NEW s \in Seq(Runs), NEW t \in Seq(Runs), Within(t, s)
  PROVE  Delivery!ToSet(t) \subseteq Delivery!ToSet(s)
BY DEF Within, Delivery!ToSet

\* In a part of the buffer, too, who was the latest of a wake had all before it
\* asked for.
LEMMA DeliveryAskedWithin ==
  ASSUME NEW s \in Seq(Runs), NEW t \in Seq(Runs), Within(t, s), NEW w, NEW done,
         \A j \in DOMAIN s : w[s[j]] > 0 => \A i \in 1 .. j : s[i] \in done
  PROVE  \A j \in DOMAIN t : w[t[j]] > 0 => \A i \in 1 .. j : t[i] \in done
<1>1. SUFFICES ASSUME NEW j \in DOMAIN t, w[t[j]] > 0, NEW i \in 1 .. j PROVE t[i] \in done
  OBVIOUS
<1>2. PICK k \in DOMAIN s : s[k] = t[j] /\ \A h \in 1 .. j : \E l \in 1 .. k : s[l] = t[h]
  BY DEF Within
<1>3. PICK l \in 1 .. k : s[l] = t[i]
  BY <1>2
<1> QED
  BY <1>1, <1>2, <1>3

-----------------------------------------------------------------------------
(* What the helpers do.                                                    *)

\* markDeliveredDurably acknowledges ids, takes them out of what is kept and no
\* longer awaits them, and stores or owes a receipt for them and nothing else.
LEMMA DeliveryMarkIs ==
  ASSUME NEW ids \in SUBSET Runs, NEW kept \in Seq(Runs), NEW awaited, Delivery!Mark(ids, kept, awaited)
  PROVE  /\ dAcked' = dAcked \cup ids /\ dAwaiting' = awaited \ ids
         /\ dBuffer' \in Seq(Runs) /\ Delivery!ToSet(dBuffer') = Delivery!ToSet(kept) \ ids /\ Within(dBuffer', kept)
         /\ dDelivered' \subseteq dDelivered \cup ids /\ dReceipts' \subseteq dReceipts \cup ids
<1>1. dBuffer' = Delivery!Without(kept, ids) /\ dAcked' = dAcked \cup ids /\ dAwaiting' = awaited \ ids
  BY DEF Delivery!Mark
<1>2. dDelivered' \subseteq dDelivered \cup ids /\ dReceipts' \subseteq dReceipts \cup ids
  BY DEF Delivery!Mark
<1> QED
  BY <1>1, <1>2, DeliveryWithoutIs

\* retryDelivery stays within its retries.
LEMMA DeliveryRetryIs ==
  ASSUME NEW n \in 0 .. MaxRetries, NEW idle \in BOOLEAN, NEW t \in BOOLEAN, dShown \in BOOLEAN,
         Delivery!RetryDelivery(n, idle, t)
  PROVE  dTimer' \in BOOLEAN /\ dRetries' \in 0 .. MaxRetries /\ dShown' \in BOOLEAN
<1>1. n \in Nat /\ MaxRetries \in Nat /\ n <= MaxRetries
  BY DeliveryAssumption
<1>2. dTimer' \in BOOLEAN /\ dShown' \in BOOLEAN
  BY DEF Delivery!RetryDelivery
<1>3. dRetries' = IF t \/ n >= MaxRetries THEN n ELSE n + 1
  BY DEF Delivery!RetryDelivery
<1>4. n < MaxRetries => n + 1 \in 0 .. MaxRetries
  BY <1>1
<1>5. ~(n >= MaxRetries) => n < MaxRetries
  BY <1>1
<1> QED
  BY <1>2, <1>3, <1>4, <1>5

\* The members of the sets that a message may be.
LEMMA DeliveryBatchIs ==
  ASSUME Delivery!IInv, NEW batch \in Delivery!Batches
  PROVE  /\ batch \in SUBSET Runs /\ batch # {}
         /\ \A r \in batch : Delivery!InBuffer(r) /\ r \notin dAwaiting /\ r \notin dAcked
<1>1. Delivery!Unsent \in Seq(Runs) /\ Delivery!ToSet(Delivery!Unsent) = Delivery!ToSet(dBuffer) \ dAwaiting
  BY DeliveryWithoutIs DEF Delivery!Unsent, Delivery!IInv, Delivery!ToldOnce, Delivery!DeliveredOnce,
     Delivery!TypeOK
<1>2. PICK n \in 1 .. Len(Delivery!Unsent) : batch = Delivery!ToSet(SubSeq(Delivery!Unsent, 1, n))
  BY DEF Delivery!Batches, Delivery!Chunks
<1>3. SubSeq(Delivery!Unsent, 1, n) \in Seq(Runs) /\ Len(SubSeq(Delivery!Unsent, 1, n)) = n
      /\ \A i \in 1 .. n : SubSeq(Delivery!Unsent, 1, n)[i] = Delivery!Unsent[i]
  BY <1>1
<1>4. \A r \in batch : r \in Delivery!ToSet(Delivery!Unsent)
  BY <1>1, <1>2, <1>3 DEF Delivery!ToSet
<1>5. batch # {}
  <2>1. 1 \in DOMAIN SubSeq(Delivery!Unsent, 1, n)
    BY <1>3
  <2> QED
    BY <1>2, <2>1 DEF Delivery!ToSet
<1>6. \A r \in Delivery!ToSet(dBuffer) : r \in Runs /\ r \notin dAcked
  BY DEF Delivery!IInv, Delivery!Unsaid, Delivery!InBuffer, Delivery!ToSet, Delivery!ToldOnce,
     Delivery!DeliveredOnce, Delivery!TypeOK
<1> QED
  BY <1>1, <1>4, <1>5, <1>6 DEF Delivery!InBuffer

\* The number of runs that have not ended.
LEMMA DeliveryOpenRuns ==
  ASSUME NEW S \in SUBSET Runs
  PROVE  IsFiniteSet(S) /\ Cardinality(S) \in Nat /\ Cardinality(Runs) \in Nat /\ Cardinality(S) <= Cardinality(Runs)
BY FS_Subset, FS_CardinalityType, DeliveryAssumption

LEMMA DeliveryDueKept ==
  ASSUME Delivery!IInv, dMicro' \in Nat, dMicro' <= dMicro, \A r \in Runs : dLive'[r] = "ended" <=> dLive[r] = "ended"
  PROVE  Delivery!Due' /\ dMicro' \in 0 .. Cardinality(Runs) + 1
<1> DEFINE S == {r \in Runs : dLive[r] # "ended"}
<1>1. {r \in Runs : dLive'[r] # "ended"} = S
  OBVIOUS
<1>0. S \in SUBSET Runs /\ Runs \in SUBSET Runs
  OBVIOUS
<1>2. PICK m \in Nat, k \in Nat, n \in Nat : m = dMicro /\ k = Cardinality(S) /\ n = Cardinality(Runs)
  <2>1. Cardinality(S) \in Nat /\ Cardinality(Runs) \in Nat
    <3> HIDE DEF S
    <3> QED
      BY <1>0, DeliveryOpenRuns
  <2>2. dMicro \in 0 .. Cardinality(Runs) + 1
    BY DeliverySize DEF Delivery!IInv, Delivery!ToldOnce, Delivery!DeliveredOnce, Delivery!TypeOK
  <2>3. dMicro \in Nat
    BY <2>1, <2>2
  <2> HIDE DEF S
  <2> QED
    BY <2>1, <2>3
<1>3. m + k <= n + 1
  BY DeliverySize, <1>2 DEF Delivery!IInv, Delivery!Due
<1>4. PICK p \in Nat : p = dMicro' /\ p <= m
  BY <1>2
<1>5. p + k <= n + 1 /\ p \in 0 .. n + 1
  <2>1. \A a, b, c, d \in Nat : a + b <= c + 1 /\ d <= a => d + b <= c + 1 /\ d \in 0 .. c + 1
    OBVIOUS
  <2> QED
    BY <1>3, <1>4, <2>1
<1> HIDE DEF S
<1> QED
  BY DeliverySize, <1>1, <1>2, <1>4, <1>5 DEF Delivery!Due

-----------------------------------------------------------------------------
(* The steps.                                                              *)

\* Every step that sends nothing: the buffer loses what it loses, what was sent
\* stays awaited or acknowledged.
LEMMA DeliveryKeeps ==
  ASSUME Delivery!IInv, Delivery!TypeOK', Delivery!Typed',
         \A r \in Runs : dLive[r] = "ended" => dLive'[r] = "ended",
         UNCHANGED <<dAttempted, dWoken, dClash, dInbox, dEntries>>,
         Within(dBuffer', dBuffer),
         \A r \in dAwaiting \cup dAcked : r \in dAwaiting' \cup dAcked',
         \A r \in dAcked' : r \notin Delivery!ToSet(dBuffer'),
         dAcked' \cup dDelivered' \cup dReceipts' \subseteq Delivery!Observed \cup dTold' \cup dFailing' \cup dSilent',
         dFlush'.at # "off" => \A r \in Delivery!Observed : r \notin Delivery!ToSet(dBuffer'),
         dFlush'.at # "fallback",
         Delivery!Calm', Delivery!Due'
  PROVE  Delivery!IInv'
<1>1. dBuffer \in Seq(Runs) /\ dBuffer' \in Seq(Runs)
  BY DEF Delivery!IInv, Delivery!ToldOnce, Delivery!DeliveredOnce, Delivery!TypeOK
<1>2. Delivery!ToSet(dBuffer') \subseteq Delivery!ToSet(dBuffer)
  BY <1>1, DeliveryWithinIsSubset
<1>3. Delivery!Past'
  BY <1>2 DEF Delivery!IInv, Delivery!Past, Delivery!InBuffer
<1>4. Delivery!Queued'
  BY DEF Delivery!IInv, Delivery!Queued
<1>5. Delivery!Unsaid'
  BY DEF Delivery!Unsaid, Delivery!InBuffer, Delivery!Quiet, Delivery!Observed
<1>6. Delivery!Asked'
  <2>1. \A j \in DOMAIN dBuffer : dWoken[dBuffer[j]] > 0 => \A i \in 1 .. j : dBuffer[i] \in dAttempted
    BY DEF Delivery!IInv, Delivery!Asked
  <2>2. \A j \in DOMAIN dBuffer' : dWoken[dBuffer'[j]] > 0 => \A i \in 1 .. j : dBuffer'[i] \in dAttempted
    BY <1>1, <2>1, DeliveryAskedWithin
  <2> QED
    BY <2>2 DEF Delivery!Asked
<1>7. Delivery!ToldOnce'
  BY DEF Delivery!IInv, Delivery!ToldOnce, Delivery!DeliveredOnce, Delivery!OneWakePerFlush,
     Delivery!Observed
<1> QED
  BY <1>3, <1>4, <1>5, <1>6, <1>7 DEF Delivery!IInv

\* What flushCompletions does before its first message: it retries later, or it
\* takes what has a receipt out of the buffer.
LEMMA DeliveryFlushIs ==
  ASSUME Delivery!IInv, Delivery!Quiet, NEW n \in 0 .. MaxRetries, NEW idle \in BOOLEAN, NEW t \in BOOLEAN, Delivery!Flush(n, idle, t)
  PROVE  /\ dBuffer' \in Seq(Runs) /\ Within(dBuffer', dBuffer) /\ dAwaiting' \subseteq Runs /\ dAcked' \subseteq Runs
         /\ \A r \in dAwaiting \cup dAcked : r \in dAwaiting' \cup dAcked'
         /\ \A r \in dAcked' : r \notin Delivery!ToSet(dBuffer')
         /\ dAcked' \cup dDelivered' \cup dReceipts' \subseteq (dAcked \cup dDelivered \cup dReceipts) \cup Delivery!Observed
         /\ dTimer' \in BOOLEAN /\ dRetries' \in 0 .. MaxRetries /\ dShown' \in BOOLEAN
         /\ dFlush' \in [at : {"off", "loop", "fallback"}, used : BOOLEAN, batch : SUBSET Runs]
         /\ dFlush'.at \in {"off", "loop"}
         /\ dFlush'.at = "loop" => /\ \A r \in Delivery!Observed : r \notin Delivery!ToSet(dBuffer')
                                   /\ idle => TRUE \in Delivery!IsIdle
<1>1. /\ dBuffer \in Seq(Runs) /\ dAwaiting \subseteq Runs /\ dAcked \subseteq Runs /\ dShown \in BOOLEAN
      /\ dFlush \in [at : {"off", "loop", "fallback"}, used : BOOLEAN, batch : SUBSET Runs] /\ dFlush.at = "off"
      /\ \A r \in dAcked : r \notin Delivery!ToSet(dBuffer)
  BY DEF Delivery!IInv, Delivery!ToldOnce, Delivery!DeliveredOnce, Delivery!TypeOK, Delivery!Typed,
     Delivery!Quiet, Delivery!Unsaid, Delivery!InBuffer
<1>2. PICK isIdle \in Delivery!IsIdle :
        IF idle /\ ~isIdle
        THEN Delivery!RetryDelivery(n, idle, t) /\ UNCHANGED <<Delivery!queue, Delivery!store, dBudget, dFlush>>
        ELSE /\ Delivery!Mark(Delivery!Observed \cap Delivery!ToSet(dBuffer), Delivery!Without(dBuffer, dAcked \cup dDelivered), dAwaiting)
             /\ dFlush' = [at |-> "loop", used |-> FALSE, batch |-> {}]
             /\ dTimer' = t /\ dRetries' = n /\ UNCHANGED dShown
  BY DEF Delivery!Flush
<1>3. isIdle \in BOOLEAN
  BY <1>2 DEF Delivery!IsIdle
<1>4. CASE idle /\ ~isIdle
  <2>1. Delivery!RetryDelivery(n, idle, t) /\ UNCHANGED <<dBuffer, dAwaiting, dAcked, dDelivered, dReceipts, dFlush>>
    BY <1>2, <1>4 DEF Delivery!queue, Delivery!store
  <2>2. dTimer' \in BOOLEAN /\ dRetries' \in 0 .. MaxRetries /\ dShown' \in BOOLEAN
    BY <1>1, <2>1, DeliveryRetryIs
  <2> QED
    BY <1>1, <2>1, <2>2, DeliveryWithinItself
<1>5. CASE ~(idle /\ ~isIdle)
  <2> DEFINE ids == Delivery!Observed \cap Delivery!ToSet(dBuffer)
             kept == Delivery!Without(dBuffer, dAcked \cup dDelivered)
  <2>1. /\ Delivery!Mark(ids, kept, dAwaiting) /\ dFlush' = [at |-> "loop", used |-> FALSE, batch |-> {}]
        /\ dTimer' = t /\ dRetries' = n /\ dShown' = dShown
    BY <1>2, <1>5
  <2>2. kept \in Seq(Runs) /\ Delivery!ToSet(kept) = Delivery!ToSet(dBuffer) \ (dAcked \cup dDelivered) /\ Within(kept, dBuffer)
    BY <1>1, DeliveryWithoutIs
  <2>3. ids \in SUBSET Runs
    BY DEF Delivery!Observed
  <2>4. idle => TRUE \in Delivery!IsIdle
    BY <1>2, <1>3, <1>5
  <2>5. ids \subseteq Delivery!Observed /\ \A r \in Delivery!Observed : r \in ids \/ r \notin Delivery!ToSet(dBuffer)
    OBVIOUS
  <2> HIDE DEF ids, kept
  <2>6. /\ dAcked' = dAcked \cup ids /\ dAwaiting' = dAwaiting \ ids
        /\ dBuffer' \in Seq(Runs) /\ Delivery!ToSet(dBuffer') = Delivery!ToSet(kept) \ ids /\ Within(dBuffer', kept)
        /\ dDelivered' \subseteq dDelivered \cup ids /\ dReceipts' \subseteq dReceipts \cup ids
    BY <2>1, <2>2, <2>3, DeliveryMarkIs
  <2>7. Within(dBuffer', dBuffer)
    BY <1>1, <2>2, <2>6, DeliveryWithinAgain
  <2>8. \A r \in dAcked' : r \notin Delivery!ToSet(dBuffer')
    BY <2>2, <2>6
  <2>9. \A r \in Delivery!Observed : r \notin Delivery!ToSet(dBuffer')
    BY <2>2, <2>5, <2>6
  <2>10. dAcked' \cup dDelivered' \cup dReceipts' \subseteq (dAcked \cup dDelivered \cup dReceipts) \cup Delivery!Observed
    BY <2>5, <2>6
  <2>11. dAwaiting' \subseteq Runs /\ dAcked' \subseteq Runs /\ \A r \in dAwaiting \cup dAcked : r \in dAwaiting' \cup dAcked'
    BY <1>1, <2>3, <2>6
  <2>12. dTimer' \in BOOLEAN /\ dRetries' \in 0 .. MaxRetries /\ dShown' \in BOOLEAN
    BY <1>1, <2>1
  <2>13. dFlush' \in [at : {"off", "loop", "fallback"}, used : BOOLEAN, batch : SUBSET Runs] /\ dFlush'.at = "loop"
    BY <2>1
  <2> QED
    BY <2>4, <2>6, <2>7, <2>8, <2>9, <2>10, <2>11, <2>12, <2>13
<1> QED
  BY <1>4, <1>5

\* A flush begins.
LEMMA DeliveryFlushSafe ==
  ASSUME Delivery!IInv, Delivery!Quiet, NEW n \in 0 .. MaxRetries, NEW idle \in BOOLEAN, NEW t \in BOOLEAN, Delivery!Flush(n, idle, t),
         UNCHANGED <<dLive, dBackground, dAttached, dAttempted, dWakePending, dWoken, dClash, dInbox, dEntries,
                     dTold, dFailing, dSilent>>,
         dPhase' \in Delivery!Phases, dAgentIdle' \in BOOLEAN, dMicro' \in 0 .. Cardinality(Runs) + 1, Delivery!Due',
         dPhase' \in {"running", "finished"} => ~dAgentIdle', dPhase' = "waking" => dPhase = "waking",
         (idle => TRUE \in Delivery!IsIdle) /\ dAgentIdle' => dPhase' \in {"idle", "waking"}
  PROVE  Delivery!IInv'
<1>1. /\ dBuffer' \in Seq(Runs) /\ Within(dBuffer', dBuffer) /\ dAwaiting' \subseteq Runs /\ dAcked' \subseteq Runs
      /\ \A r \in dAwaiting \cup dAcked : r \in dAwaiting' \cup dAcked'
      /\ \A r \in dAcked' : r \notin Delivery!ToSet(dBuffer')
      /\ dAcked' \cup dDelivered' \cup dReceipts' \subseteq (dAcked \cup dDelivered \cup dReceipts) \cup Delivery!Observed
      /\ dTimer' \in BOOLEAN /\ dRetries' \in 0 .. MaxRetries /\ dShown' \in BOOLEAN
      /\ dFlush' \in [at : {"off", "loop", "fallback"}, used : BOOLEAN, batch : SUBSET Runs]
      /\ dFlush'.at \in {"off", "loop"}
      /\ dFlush'.at = "loop" => /\ \A r \in Delivery!Observed : r \notin Delivery!ToSet(dBuffer')
                                /\ idle => TRUE \in Delivery!IsIdle
  BY DeliveryFlushIs
<1>2. Delivery!Typed'
  BY <1>1 DEF Delivery!Typed
<1>3. dAcked' \cup dDelivered' \cup dReceipts' \subseteq Delivery!Observed \cup dTold' \cup dFailing' \cup dSilent'
  BY <1>1 DEF Delivery!IInv, Delivery!ToldOnce, Delivery!DeliveredOnce
<1>4. Delivery!TypeOK'
  <2>1. dDelivered' \subseteq Runs /\ dReceipts' \subseteq Runs
    BY <1>1 DEF Delivery!IInv, Delivery!ToldOnce, Delivery!DeliveredOnce, Delivery!TypeOK,
       Delivery!Observed
  <2>2. dFlush'.at \in {"off", "loop", "fallback"} /\ dFlush'.batch \subseteq Runs
    BY <1>1
  <2> QED
    BY DeliverySize, <1>1, <2>1, <2>2 DEF Delivery!IInv, Delivery!ToldOnce, Delivery!DeliveredOnce,
       Delivery!TypeOK
<1>5. Delivery!Calm'
  BY <1>1 DEF Delivery!IInv, Delivery!Calm, Delivery!Quiet
<1>6. dFlush'.at # "off" => \A r \in Delivery!Observed : r \notin Delivery!ToSet(dBuffer')
  BY <1>1
<1> QED
  BY <1>1, <1>2, <1>3, <1>4, <1>5, <1>6, DeliveryKeeps
-----------------------------------------------------------------------------
(* Steps that touch neither the buffer nor the transcript.                 *)

LEMMA DeliveryTypes == Delivery!IInv => Delivery!TypeOK /\ Delivery!Typed
BY DEF Delivery!IInv, Delivery!ToldOnce, Delivery!DeliveredOnce

\* Whatever a step does beside, the buffer and what was sent keep their invariant.
LEMMA DeliveryKeepsQuiet ==
  ASSUME Delivery!IInv, Delivery!Quiet, Delivery!TypeOK', Delivery!Calm', Delivery!Due',
         \A r \in Runs : dLive[r] = "ended" => dLive'[r] = "ended",
         UNCHANGED <<dBuffer, dAwaiting, dAcked, dAttempted, dWoken, dClash, dFlush, dInbox, dEntries>>,
         dTold \cup dFailing \cup dSilent \subseteq dTold' \cup dFailing' \cup dSilent',
         dDelivered' \cup dReceipts' \subseteq dDelivered \cup dReceipts
  PROVE  Delivery!IInv'
<1>1. Within(dBuffer', dBuffer)
  BY DeliveryWithinItself, DeliveryTypes DEF Delivery!TypeOK
<1>2. Delivery!Typed'
  BY DeliveryTypes DEF Delivery!Typed
<1>3. \A r \in dAcked' : r \notin Delivery!ToSet(dBuffer')
  BY DEF Delivery!IInv, Delivery!Unsaid, Delivery!InBuffer
<1>4. dAcked' \cup dDelivered' \cup dReceipts' \subseteq Delivery!Observed \cup dTold' \cup dFailing' \cup dSilent'
  BY DEF Delivery!IInv, Delivery!ToldOnce, Delivery!DeliveredOnce
<1>5. dFlush'.at = "off"
  BY DEF Delivery!Quiet
<1>6. /\ dFlush'.at # "off" => \A r \in Delivery!Observed : r \notin Delivery!ToSet(dBuffer')
      /\ dFlush'.at # "fallback"
  BY <1>5
<1>7. \A r \in dAwaiting \cup dAcked : r \in dAwaiting' \cup dAcked'
  OBVIOUS
<1> QED
  BY <1>1, <1>2, <1>3, <1>4, <1>6, <1>7, DeliveryKeeps

LEMMA DeliverySameDue ==
  ASSUME Delivery!IInv, dMicro' = dMicro, \A r \in Runs : dLive'[r] = "ended" <=> dLive[r] = "ended"
  PROVE  Delivery!Due'
<1>1. dMicro \in Nat
  <2>1. Cardinality(Runs) \in Nat
    BY DeliveryOpenRuns
  <2> QED
    BY <2>1, DeliveryTypes DEF Delivery!TypeOK
<1>2. dMicro' \in Nat /\ dMicro' <= dMicro
  BY <1>1
<1> QED
  BY <1>2, DeliveryDueKept

LEMMA DeliveryDispatchSafe ==
  ASSUME Delivery!IInv, NEW r \in Runs, Delivery!Dispatch(r)
  PROVE  Delivery!IInv'
<1>1. /\ Delivery!Quiet /\ dLive[r] = "none" /\ dLive' = [dLive EXCEPT ![r] = "running"]
      /\ dBackground' \in {dBackground, dBackground \cup {r}}
      /\ \/ dAttached' = dAttached \cup {r} /\ r \in dBackground'
         \/ dAttached' = dAttached
      /\ dBackground \subseteq dBackground'
      /\ UNCHANGED <<Delivery!queue, Delivery!wakes, dAgentIdle, Delivery!retry, dFlush, dMicro, Delivery!store, Delivery!agent, Delivery!heard, dBudget>>
  BY DEF Delivery!Dispatch
<1>2. \A q \in Runs : dLive'[q] = IF q = r THEN "running" ELSE dLive[q]
  BY <1>1, DeliveryTypes DEF Delivery!TypeOK
<1>3. \A q \in Runs : dLive'[q] = "ended" <=> dLive[q] = "ended"
  BY <1>1, <1>2
<1>4. UNCHANGED <<dBuffer, dAwaiting, dAcked, dAttempted, dWakePending, dWoken, dClash, dAgentIdle, dTimer, dRetries,
                  dShown, dFlush, dMicro, dDelivered, dReceipts, dPhase, dInbox, dEntries, dTold, dFailing, dSilent>>
  BY <1>1 DEF Delivery!heard, Delivery!queue, Delivery!wakes, Delivery!retry, Delivery!store, Delivery!agent
<1>5. Delivery!TypeOK'
  <2>1. dLive' \in [Runs -> {"none", "running", "settled", "ended"}]
    BY <1>1, DeliveryTypes DEF Delivery!TypeOK
  <2>2. dBackground' \subseteq Runs /\ dAttached' \subseteq dBackground'
    BY <1>1, DeliveryTypes DEF Delivery!TypeOK
  <2> QED
    BY <1>4, <2>1, <2>2, DeliveryTypes DEF Delivery!TypeOK
<1>6. Delivery!Calm' /\ Delivery!Due'
  BY <1>3, <1>4, DeliverySameDue DEF Delivery!IInv, Delivery!Calm, Delivery!Quiet
<1>7. \A q \in Runs : dLive[q] = "ended" => dLive'[q] = "ended"
  BY <1>3
<1> QED
  BY <1>1, <1>4, <1>5, <1>6, <1>7, DeliveryKeepsQuiet

LEMMA DeliverySettleSafe ==
  ASSUME Delivery!IInv, NEW r \in Runs, Delivery!Settle(r)
  PROVE  Delivery!IInv'
<1>1. /\ Delivery!Quiet /\ dLive[r] = "running" /\ dLive' = [dLive EXCEPT ![r] = "settled"]
      /\ UNCHANGED <<dBackground, dAttached, dBuffer, dAwaiting, dAcked, dAttempted, dWakePending, dWoken, dClash,
                     dAgentIdle, dTimer, dRetries, dShown, dFlush, dMicro, dDelivered, dReceipts, dPhase, dInbox,
                     dEntries, dTold, dFailing, dSilent>>
  BY DEF Delivery!Settle, Delivery!heard, Delivery!queue, Delivery!wakes, Delivery!retry, Delivery!store, Delivery!agent
<1>2. \A q \in Runs : dLive'[q] = IF q = r THEN "settled" ELSE dLive[q]
  BY <1>1, DeliveryTypes DEF Delivery!TypeOK
<1>3. \A q \in Runs : dLive'[q] = "ended" <=> dLive[q] = "ended"
  BY <1>1, <1>2
<1>4. Delivery!TypeOK'
  <2>1. dLive' \in [Runs -> {"none", "running", "settled", "ended"}]
    BY <1>1, DeliveryTypes DEF Delivery!TypeOK
  <2> QED
    BY <1>1, <2>1, DeliveryTypes DEF Delivery!TypeOK
<1>5. Delivery!Calm' /\ Delivery!Due'
  BY <1>1, <1>3, DeliverySameDue DEF Delivery!IInv, Delivery!Calm, Delivery!Quiet
<1>6. \A q \in Runs : dLive[q] = "ended" => dLive'[q] = "ended"
  BY <1>3
<1> QED
  BY <1>1, <1>4, <1>5, <1>6, DeliveryKeepsQuiet

LEMMA DeliverySaveReceiptSafe ==
  ASSUME Delivery!IInv, NEW r \in Runs, Delivery!SaveReceipt(r)
  PROVE  Delivery!IInv'
<1>1. /\ Delivery!Quiet /\ r \in dReceipts /\ dReceipts' = dReceipts \ {r} /\ dDelivered' = dDelivered \cup {r}
      /\ UNCHANGED <<dLive, dBackground, dAttached, dBuffer, dAwaiting, dAcked, dAttempted, dWakePending, dWoken, dClash,
                     dAgentIdle, dTimer, dRetries, dShown, dFlush, dMicro, dPhase, dInbox, dEntries, dTold,
                     dFailing, dSilent>>
  BY DEF Delivery!SaveReceipt, Delivery!heard, Delivery!runs, Delivery!queue, Delivery!wakes, Delivery!retry,
     Delivery!agent
<1>2. Delivery!TypeOK'
  BY <1>1, DeliveryTypes DEF Delivery!TypeOK
<1>3. \A q \in Runs : dLive'[q] = "ended" <=> dLive[q] = "ended"
  BY <1>1
<1>4. Delivery!Calm' /\ Delivery!Due'
  BY <1>1, <1>3, DeliverySameDue DEF Delivery!IInv, Delivery!Calm, Delivery!Quiet
<1>5. dDelivered' \cup dReceipts' \subseteq dDelivered \cup dReceipts
      /\ dTold \cup dFailing \cup dSilent \subseteq dTold' \cup dFailing' \cup dSilent'
  BY <1>1
<1> QED
  BY <1>1, <1>2, <1>3, <1>4, <1>5, DeliveryKeepsQuiet

\* The agent's own steps change its phase and what the host knows of it.
LEMMA DeliveryAgentSafe ==
  ASSUME Delivery!IInv, Delivery!Quiet,
         UNCHANGED <<dLive, dBackground, dAttached, dBuffer, dAwaiting, dAcked, dAttempted, dWoken, dClash,
                     dTimer, dRetries, dShown, dFlush, dMicro, dDelivered, dReceipts, dInbox, dEntries, dTold,
                     dFailing, dSilent>>,
         dPhase' \in Delivery!Phases, dAgentIdle' \in BOOLEAN, dWakePending' \in BOOLEAN,
         dPhase' \in {"running", "finished"} => ~dAgentIdle', dPhase' # "waking"
  PROVE  Delivery!IInv'
<1>1. Delivery!TypeOK'
  BY DeliveryTypes DEF Delivery!TypeOK
<1>2. \A q \in Runs : dLive'[q] = "ended" <=> dLive[q] = "ended"
  OBVIOUS
<1>3. Delivery!Calm' /\ Delivery!Due'
  BY <1>2, DeliverySameDue DEF Delivery!IInv, Delivery!Calm, Delivery!Quiet
<1>4. dDelivered' \cup dReceipts' \subseteq dDelivered \cup dReceipts
      /\ dTold \cup dFailing \cup dSilent \subseteq dTold' \cup dFailing' \cup dSilent'
  OBVIOUS
<1> QED
  BY <1>1, <1>2, <1>3, <1>4, DeliveryKeepsQuiet

LEMMA DeliveryBeginSafe == ASSUME Delivery!IInv, Delivery!Begin PROVE Delivery!IInv'
<1>1. /\ Delivery!Quiet /\ dPhase' = "begun" /\ dAgentIdle' = dAgentIdle /\ dWakePending' = dWakePending
      /\ UNCHANGED <<dLive, dBackground, dAttached, dBuffer, dAwaiting, dAcked, dAttempted, dWoken, dClash,
                     dTimer, dRetries, dShown, dFlush, dMicro, dDelivered, dReceipts, dInbox, dEntries, dTold,
                     dFailing, dSilent>>
  BY DEF Delivery!Begin, Delivery!heard, Delivery!runs, Delivery!queue, Delivery!wakes, Delivery!retry, Delivery!store
<1>2. dPhase' \in Delivery!Phases /\ dAgentIdle' \in BOOLEAN /\ dWakePending' \in BOOLEAN
  BY <1>1, DeliveryTypes DEF Delivery!TypeOK, Delivery!Phases
<1> QED
  BY <1>1, <1>2, DeliveryAgentSafe

LEMMA DeliveryWakeFailsSafe == ASSUME Delivery!IInv, Delivery!WakeFails PROVE Delivery!IInv'
<1>1. /\ Delivery!Quiet /\ dPhase' = "idle" /\ dAgentIdle' = dAgentIdle /\ dWakePending' = dWakePending
      /\ UNCHANGED <<dLive, dBackground, dAttached, dBuffer, dAwaiting, dAcked, dAttempted, dWoken, dClash,
                     dTimer, dRetries, dShown, dFlush, dMicro, dDelivered, dReceipts, dInbox, dEntries, dTold,
                     dFailing, dSilent>>
  BY DEF Delivery!WakeFails, Delivery!heard, Delivery!runs, Delivery!queue, Delivery!wakes, Delivery!retry,
     Delivery!store
<1>2. dPhase' \in Delivery!Phases /\ dAgentIdle' \in BOOLEAN /\ dWakePending' \in BOOLEAN
  BY <1>1, DeliveryTypes DEF Delivery!TypeOK, Delivery!Phases
<1> QED
  BY <1>1, <1>2, DeliveryAgentSafe

LEMMA DeliveryAgentStartSafe == ASSUME Delivery!IInv, Delivery!AgentStart PROVE Delivery!IInv'
<1>1. /\ Delivery!Quiet /\ dPhase' = "running" /\ dAgentIdle' = FALSE /\ dWakePending' = FALSE
      /\ UNCHANGED <<dLive, dBackground, dAttached, dBuffer, dAwaiting, dAcked, dAttempted, dWoken, dClash,
                     dTimer, dRetries, dShown, dFlush, dMicro, dDelivered, dReceipts, dInbox, dEntries, dTold,
                     dFailing, dSilent>>
  BY DEF Delivery!AgentStart, Delivery!heard, Delivery!runs, Delivery!queue, Delivery!retry, Delivery!store
<1>2. dPhase' \in Delivery!Phases
  BY <1>1 DEF Delivery!Phases
<1> QED
  BY <1>1, <1>2, DeliveryAgentSafe

LEMMA DeliveryTurnsIdleSafe == ASSUME Delivery!IInv, Delivery!TurnsIdle PROVE Delivery!IInv'
<1>1. /\ Delivery!Quiet /\ dAgentIdle' = dAgentIdle /\ dWakePending' = dWakePending
      /\ \/ dPhase = "running" /\ dPhase' = "finished"
         \/ dPhase = "ending" /\ dPhase' = "idle"
      /\ UNCHANGED <<dLive, dBackground, dAttached, dBuffer, dAwaiting, dAcked, dAttempted, dWoken, dClash,
                     dTimer, dRetries, dShown, dFlush, dMicro, dDelivered, dReceipts, dInbox, dEntries, dTold,
                     dFailing, dSilent>>
  BY DEF Delivery!TurnsIdle, Delivery!CallsDone, Delivery!heard, Delivery!runs, Delivery!queue, Delivery!wakes, Delivery!retry,
     Delivery!store
<1>2. dPhase' \in Delivery!Phases /\ dAgentIdle' \in BOOLEAN /\ dWakePending' \in BOOLEAN
  BY <1>1, DeliveryTypes DEF Delivery!TypeOK, Delivery!Phases
<1>3. dPhase' \in {"running", "finished"} => ~dAgentIdle'
  BY <1>1 DEF Delivery!IInv, Delivery!Calm
<1> QED
  BY <1>1, <1>2, <1>3, DeliveryAgentSafe

\* The end of a flush keeps the buffer, and retries what is left of it.
LEMMA DeliveryFlushEndSafe == ASSUME Delivery!IInv, Delivery!FlushEnd PROVE Delivery!IInv'
<1>1. /\ dFlush' = Delivery!Off
      /\ IF dBuffer # <<>> THEN Delivery!RetryDelivery(dRetries, dAgentIdle, dTimer)
                          ELSE dTimer' = FALSE /\ dRetries' = 0 /\ dShown' = FALSE
      /\ UNCHANGED <<dLive, dBackground, dAttached, dBuffer, dAwaiting, dAcked, dAttempted, dWakePending, dWoken, dClash,
                     dAgentIdle, dMicro, dDelivered, dReceipts, dPhase, dInbox, dEntries, dTold, dFailing, dSilent>>
  BY DEF Delivery!FlushEnd, Delivery!heard, Delivery!runs, Delivery!queue, Delivery!wakes, Delivery!store,
     Delivery!agent
<1>2. dTimer' \in BOOLEAN /\ dRetries' \in 0 .. MaxRetries /\ dShown' \in BOOLEAN
  <2>1. dRetries \in 0 .. MaxRetries /\ dAgentIdle \in BOOLEAN /\ dTimer \in BOOLEAN /\ dShown \in BOOLEAN
    BY DeliveryTypes DEF Delivery!TypeOK
  <2>2. 0 \in 0 .. MaxRetries
    BY DeliveryAssumption
  <2> QED
    BY <1>1, <2>1, <2>2, DeliveryRetryIs
<1>3. Delivery!TypeOK' /\ Delivery!Typed'
  BY <1>1, <1>2, DeliveryTypes DEF Delivery!TypeOK, Delivery!Typed, Delivery!Off
<1>4. \A q \in Runs : dLive'[q] = "ended" <=> dLive[q] = "ended"
  BY <1>1
<1>5. Delivery!Calm' /\ Delivery!Due'
  BY <1>1, <1>4, DeliverySameDue DEF Delivery!IInv, Delivery!Calm, Delivery!Quiet, Delivery!Off
<1>6. Within(dBuffer', dBuffer)
  BY <1>1, DeliveryWithinItself, DeliveryTypes DEF Delivery!TypeOK
<1>7. \A r \in dAcked' : r \notin Delivery!ToSet(dBuffer')
  BY <1>1 DEF Delivery!IInv, Delivery!Unsaid, Delivery!InBuffer
<1>8. dAcked' \cup dDelivered' \cup dReceipts' \subseteq Delivery!Observed \cup dTold' \cup dFailing' \cup dSilent'
  BY <1>1 DEF Delivery!IInv, Delivery!ToldOnce, Delivery!DeliveredOnce
<1>9. dFlush'.at = "off"
  BY <1>1 DEF Delivery!Off
<1>10. /\ dFlush'.at # "off" => \A r \in Delivery!Observed : r \notin Delivery!ToSet(dBuffer')
       /\ dFlush'.at # "fallback"
  BY <1>9
<1>11. \A r \in dAwaiting \cup dAcked : r \in dAwaiting' \cup dAcked'
  BY <1>1
<1> QED
  BY <1>1, <1>3, <1>4, <1>5, <1>6, <1>7, <1>8, <1>10, <1>11, DeliveryKeeps

\* An outcome that a tool call has told, or is about to, is acknowledged at once.
LEMMA DeliveryTellSafe ==
  ASSUME Delivery!IInv, Delivery!Quiet, NEW r \in Runs, Delivery!Mark({r}, dBuffer, dAwaiting),
         dTold \cup dFailing \cup dSilent \cup {r} \subseteq dTold' \cup dFailing' \cup dSilent',
         dTold' \subseteq Runs, dFailing' \subseteq Runs, dSilent' \subseteq Runs,
         dLive' \in [Runs -> {"none", "running", "settled", "ended"}],
         \A q \in Runs : dLive'[q] = "ended" <=> dLive[q] = "ended",
         dBackground' \subseteq Runs, dBackground \subseteq dBackground', dAttached' = dAttached,
         UNCHANGED <<dAttempted, dWakePending, dWoken, dClash, dAgentIdle, dTimer, dRetries, dShown, dFlush, dMicro,
                     dPhase, dInbox, dEntries>>
  PROVE  Delivery!IInv'
<1>1. dBuffer \in Seq(Runs) /\ {r} \in SUBSET Runs
  BY DeliveryTypes DEF Delivery!TypeOK
<1>2. /\ dAcked' = dAcked \cup {r} /\ dAwaiting' = dAwaiting \ {r}
      /\ dBuffer' \in Seq(Runs) /\ Delivery!ToSet(dBuffer') = Delivery!ToSet(dBuffer) \ {r} /\ Within(dBuffer', dBuffer)
      /\ dDelivered' \subseteq dDelivered \cup {r} /\ dReceipts' \subseteq dReceipts \cup {r}
  BY <1>1, DeliveryMarkIs
<1>3. Delivery!TypeOK' /\ Delivery!Typed'
  <2>1. dAwaiting' \subseteq Runs /\ dAcked' \subseteq Runs /\ dDelivered' \subseteq Runs /\ dReceipts' \subseteq Runs
    BY <1>2, DeliveryTypes DEF Delivery!TypeOK
  <2>2. dAttached' \subseteq dBackground'
    BY DeliveryTypes DEF Delivery!TypeOK
  <2> QED
    BY <1>2, <2>1, <2>2, DeliveryTypes DEF Delivery!TypeOK, Delivery!Typed
<1>4. Delivery!Calm' /\ Delivery!Due'
  BY DeliverySameDue DEF Delivery!IInv, Delivery!Calm, Delivery!Quiet
<1>5. \A q \in dAcked' : q \notin Delivery!ToSet(dBuffer')
  BY <1>2 DEF Delivery!IInv, Delivery!Unsaid, Delivery!InBuffer
<1>6. dAcked' \cup dDelivered' \cup dReceipts' \subseteq Delivery!Observed \cup dTold' \cup dFailing' \cup dSilent'
  BY <1>2 DEF Delivery!IInv, Delivery!ToldOnce, Delivery!DeliveredOnce
<1>7. \A q \in dAwaiting \cup dAcked : q \in dAwaiting' \cup dAcked'
  BY <1>2
<1>8. /\ dFlush'.at # "off" => \A q \in Delivery!Observed : q \notin Delivery!ToSet(dBuffer')
      /\ dFlush'.at # "fallback"
  BY DEF Delivery!Quiet
<1> QED
  BY <1>2, <1>3, <1>4, <1>5, <1>6, <1>7, <1>8, DeliveryKeeps

LEMMA DeliveryHubSafe == ASSUME Delivery!IInv, NEW r \in Runs, Delivery!Hub(r) PROVE Delivery!IInv'
<1>1. /\ Delivery!Quiet /\ Delivery!Mark({r}, dBuffer, dAwaiting) /\ dTold' = dTold \cup {r}
      /\ UNCHANGED <<dFailing, dSilent>>
      /\ UNCHANGED <<dLive, dBackground, dAttached, dAttempted, dWakePending, dWoken, dClash, dAgentIdle, dTimer,
                     dRetries, dShown, dFlush, dMicro, dPhase, dInbox, dEntries>>
  BY DEF Delivery!Hub, Delivery!heard, Delivery!runs, Delivery!wakes, Delivery!retry, Delivery!agent
<1>2. /\ dLive' \in [Runs -> {"none", "running", "settled", "ended"}]
      /\ \A q \in Runs : dLive'[q] = "ended" <=> dLive[q] = "ended"
      /\ dBackground' \subseteq Runs /\ dBackground \subseteq dBackground'
  BY <1>1, DeliveryTypes DEF Delivery!TypeOK
<1>4. /\ dTold \cup dFailing \cup dSilent \cup {r} \subseteq dTold' \cup dFailing' \cup dSilent'
      /\ dTold' \subseteq Runs /\ dFailing' \subseteq Runs /\ dSilent' \subseteq Runs
  BY <1>1, DeliveryTypes DEF Delivery!TypeOK
<1> QED
  BY <1>1, <1>2, <1>4, DeliveryTellSafe

LEMMA DeliveryDispatchFailsSafe ==
  ASSUME Delivery!IInv, NEW r \in Runs, Delivery!DispatchFails(r)
  PROVE  Delivery!IInv'
<1>1. /\ Delivery!Quiet /\ Delivery!Mark({r}, dBuffer, dAwaiting) /\ dFailing' = dFailing \cup {r}
      /\ UNCHANGED <<dTold, dSilent>>
      /\ dLive[r] = "none" /\ dLive' = [dLive EXCEPT ![r] = "running"] /\ dBackground' = dBackground \cup {r}
      /\ UNCHANGED <<dAttached, dAttempted, dWakePending, dWoken, dClash, dAgentIdle, dTimer,
                     dRetries, dShown, dFlush, dMicro, dPhase, dInbox, dEntries>>
  BY DEF Delivery!DispatchFails, Delivery!heard, Delivery!wakes, Delivery!retry, Delivery!agent
<1>2. \A q \in Runs : dLive'[q] = IF q = r THEN "running" ELSE dLive[q]
  BY <1>1, DeliveryTypes DEF Delivery!TypeOK
<1>3. \A q \in Runs : dLive'[q] = "ended" <=> dLive[q] = "ended"
  BY <1>1, <1>2
<1>4. /\ dLive' \in [Runs -> {"none", "running", "settled", "ended"}]
      /\ dBackground' \subseteq Runs /\ dBackground \subseteq dBackground'
  BY <1>1, DeliveryTypes DEF Delivery!TypeOK
<1>5. /\ dTold \cup dFailing \cup dSilent \cup {r} \subseteq dTold' \cup dFailing' \cup dSilent'
      /\ dTold' \subseteq Runs /\ dFailing' \subseteq Runs /\ dSilent' \subseteq Runs
  BY <1>1, DeliveryTypes DEF Delivery!TypeOK
<1> QED
  BY <1>1, <1>3, <1>4, <1>5, DeliveryTellSafe

\* What a failed dispatch is about to tell it tells.
LEMMA DeliveryDispatchThrowsSafe ==
  ASSUME Delivery!IInv, NEW r \in Runs, Delivery!DispatchThrows(r)
  PROVE  Delivery!IInv'
<1>1. /\ Delivery!Quiet /\ r \in dFailing
      /\ dFailing' = dFailing \ {r} /\ dTold' = dTold \cup {r} /\ dSilent' = dSilent
      /\ UNCHANGED <<dLive, dBackground, dAttached, dBuffer, dAwaiting, dAcked, dAttempted, dWakePending, dWoken, dClash,
                     dAgentIdle, dTimer, dRetries, dShown, dFlush, dMicro, dDelivered, dReceipts, dPhase, dInbox, dEntries>>
  BY DEF Delivery!DispatchThrows, Delivery!runs, Delivery!queue, Delivery!wakes, Delivery!retry, Delivery!store,
     Delivery!agent
<1>2. Delivery!TypeOK'
  BY <1>1, DeliveryTypes DEF Delivery!TypeOK
<1>3. \A q \in Runs : dLive'[q] = "ended" <=> dLive[q] = "ended"
  BY <1>1
<1>4. Delivery!Calm' /\ Delivery!Due'
  BY <1>1, <1>3, DeliverySameDue DEF Delivery!IInv, Delivery!Calm, Delivery!Quiet
<1>5. /\ dDelivered' \cup dReceipts' \subseteq dDelivered \cup dReceipts
      /\ dTold \cup dFailing \cup dSilent \subseteq dTold' \cup dFailing' \cup dSilent'
  BY <1>1
<1> QED
  BY <1>1, <1>2, <1>3, <1>4, <1>5, DeliveryKeepsQuiet

-----------------------------------------------------------------------------
(* Steps that begin a flush.                                               *)

LEMMA DeliveryMicrotaskSafe == ASSUME Delivery!IInv, Delivery!Microtask PROVE Delivery!IInv'
<1>1. /\ Delivery!Quiet /\ dMicro > 0 /\ dMicro' = dMicro - 1 /\ Delivery!Flush(dRetries, dAgentIdle, dTimer)
      /\ UNCHANGED <<dLive, dBackground, dAttached, dAttempted, dWakePending, dWoken, dClash, dAgentIdle,
                     dPhase, dInbox, dEntries, dTold, dFailing, dSilent>>
  BY DEF Delivery!Microtask, Delivery!heard, Delivery!runs, Delivery!wakes, Delivery!agent
<1>2. dRetries \in 0 .. MaxRetries /\ dAgentIdle \in BOOLEAN /\ dTimer \in BOOLEAN /\ dPhase \in Delivery!Phases
  BY DeliveryTypes DEF Delivery!TypeOK
<1>3. dMicro' \in Nat /\ dMicro' <= dMicro
  <2>1. Cardinality(Runs) \in Nat /\ dMicro \in 0 .. Cardinality(Runs) + 1
    BY DeliverySize, DeliveryOpenRuns, DeliveryTypes DEF Delivery!TypeOK
  <2> QED
    BY <1>1, <2>1
<1>4. Delivery!Due' /\ dMicro' \in 0 .. Cardinality(Runs) + 1
  <2>1. \A r \in Runs : dLive'[r] = "ended" <=> dLive[r] = "ended"
    BY <1>1
  <2> QED
    BY <1>3, <2>1, DeliveryDueKept
<1>5. /\ dPhase' \in {"running", "finished"} => ~dAgentIdle'
      /\ dPhase' = "waking" => dPhase = "waking"
  BY <1>1 DEF Delivery!IInv, Delivery!Calm
<1>6. (dAgentIdle => TRUE \in Delivery!IsIdle) /\ dAgentIdle' => dPhase' \in {"idle", "waking"}
  BY <1>1, <1>5 DEF Delivery!IsIdle
<1> QED
  BY <1>1, <1>2, <1>4, <1>5, <1>6, DeliveryFlushSafe

LEMMA DeliverySameMicro ==
  ASSUME Delivery!IInv, dMicro' = dMicro, \A r \in Runs : dLive'[r] = "ended" <=> dLive[r] = "ended"
  PROVE  Delivery!Due' /\ dMicro' \in 0 .. Cardinality(Runs) + 1
BY DeliverySize, DeliverySameDue, DeliveryTypes DEF Delivery!TypeOK

LEMMA DeliveryTimerSafe == ASSUME Delivery!IInv, Delivery!Timer PROVE Delivery!IInv'
<1>1. /\ Delivery!Quiet /\ Delivery!Flush(dRetries, dAgentIdle, FALSE)
      /\ UNCHANGED <<dLive, dBackground, dAttached, dAttempted, dWakePending, dWoken, dClash, dAgentIdle,
                     dMicro, dPhase, dInbox, dEntries, dTold, dFailing, dSilent>>
  BY DEF Delivery!Timer, Delivery!heard, Delivery!runs, Delivery!wakes, Delivery!agent
<1>2. dRetries \in 0 .. MaxRetries /\ dAgentIdle \in BOOLEAN /\ FALSE \in BOOLEAN /\ dPhase \in Delivery!Phases
  BY DeliveryTypes DEF Delivery!TypeOK
<1>3. Delivery!Due' /\ dMicro' \in 0 .. Cardinality(Runs) + 1
  <2>1. \A r \in Runs : dLive'[r] = "ended" <=> dLive[r] = "ended"
    BY <1>1
  <2> QED
    BY <1>1, <2>1, DeliverySameMicro
<1>4. /\ dPhase' \in {"running", "finished"} => ~dAgentIdle'
      /\ dPhase' = "waking" => dPhase = "waking"
  BY <1>1 DEF Delivery!IInv, Delivery!Calm
<1>5. (dAgentIdle => TRUE \in Delivery!IsIdle) /\ dAgentIdle' => dPhase' \in {"idle", "waking"}
  BY <1>1, <1>4 DEF Delivery!IsIdle
<1> QED
  BY <1>1, <1>2, <1>3, <1>4, <1>5, DeliveryFlushSafe

LEMMA DeliveryTurnEndSafe == ASSUME Delivery!IInv, Delivery!TurnEnd PROVE Delivery!IInv'
<1>1. /\ Delivery!Quiet /\ dPhase = "running" /\ Delivery!Flush(0, dAgentIdle, dTimer)
      /\ UNCHANGED <<dLive, dBackground, dAttached, dAttempted, dWakePending, dWoken, dClash, dAgentIdle,
                     dMicro, dPhase, dInbox, dEntries, dTold, dFailing, dSilent>>
  BY DEF Delivery!TurnEnd, Delivery!CallsDone, Delivery!heard, Delivery!runs, Delivery!wakes, Delivery!agent
<1>2. 0 \in 0 .. MaxRetries /\ dAgentIdle \in BOOLEAN /\ dTimer \in BOOLEAN /\ dPhase \in Delivery!Phases
  BY DeliveryAssumption, DeliveryTypes DEF Delivery!TypeOK
<1>3. Delivery!Due' /\ dMicro' \in 0 .. Cardinality(Runs) + 1
  <2>1. \A r \in Runs : dLive'[r] = "ended" <=> dLive[r] = "ended"
    BY <1>1
  <2> QED
    BY <1>1, <2>1, DeliverySameMicro
<1>4. /\ dPhase' \in {"running", "finished"} => ~dAgentIdle'
      /\ dPhase' = "waking" => dPhase = "waking"
  BY <1>1 DEF Delivery!IInv, Delivery!Calm
<1>5. (dAgentIdle => TRUE \in Delivery!IsIdle) /\ dAgentIdle' => dPhase' \in {"idle", "waking"}
  BY <1>1, <1>4
<1> QED
  BY <1>1, <1>2, <1>3, <1>4, <1>5, DeliveryFlushSafe

\* agent_settled before isIdle says so can only ask for a retry.
LEMMA DeliveryAgentSettledSafe == ASSUME Delivery!IInv, Delivery!AgentSettled PROVE Delivery!IInv'
<1>1. /\ Delivery!Quiet /\ dAgentIdle' = TRUE /\ Delivery!Flush(0, TRUE, dTimer)
      /\ \/ dPhase = "running" /\ dPhase' = "ending"
         \/ dPhase = "finished" /\ dPhase' = "idle"
      /\ UNCHANGED <<dLive, dBackground, dAttached, dAttempted, dWakePending, dWoken, dClash, dMicro, dInbox,
                     dEntries, dTold, dFailing, dSilent>>
  BY DEF Delivery!AgentSettled, Delivery!CallsDone, Delivery!heard, Delivery!runs, Delivery!wakes
<1>2. 0 \in 0 .. MaxRetries /\ TRUE \in BOOLEAN /\ dTimer \in BOOLEAN /\ dPhase' \in Delivery!Phases /\ dAgentIdle' \in BOOLEAN
  BY <1>1, DeliveryAssumption, DeliveryTypes DEF Delivery!TypeOK, Delivery!Phases
<1>3. Delivery!Due' /\ dMicro' \in 0 .. Cardinality(Runs) + 1
  <2>1. \A r \in Runs : dLive'[r] = "ended" <=> dLive[r] = "ended"
    BY <1>1
  <2> QED
    BY <1>1, <2>1, DeliverySameMicro
<1>4. /\ dPhase' \in {"running", "finished"} => ~dAgentIdle'
      /\ dPhase' = "waking" => dPhase = "waking"
  BY <1>1
<1>5. (TRUE => TRUE \in Delivery!IsIdle) /\ dAgentIdle' => dPhase' \in {"idle", "waking"}
  BY <1>1 DEF Delivery!IsIdle
<1> QED
  BY <1>1, <1>2, <1>3, <1>4, <1>5, DeliveryFlushSafe
-----------------------------------------------------------------------------
(* The end of a run, and the restart of the host.                          *)

\* A completion joins the buffer with the end of its run: no wake was asked for it.
LEMMA DeliveryCompleteSafe ==
  ASSUME Delivery!IInv, NEW r \in Runs, Delivery!Complete(r)
  PROVE  Delivery!IInv'
<1>1. /\ Delivery!Quiet /\ dLive[r] = "settled" /\ dLive' = [dLive EXCEPT ![r] = "ended"]
      /\ \/ r \notin dAcked /\ dBuffer' = Append(dBuffer, r) /\ dMicro' = dMicro + 1
         \/ UNCHANGED <<dBuffer, dMicro>>
      /\ UNCHANGED <<dBackground, dAttached, dAwaiting, dAcked, dAttempted, dWakePending, dWoken, dClash, dAgentIdle,
                     dTimer, dRetries, dShown, dFlush, dDelivered, dReceipts, dPhase, dInbox, dEntries, dTold,
                     dFailing, dSilent>>
  BY DEF Delivery!Complete, Delivery!heard, Delivery!wakes, Delivery!retry, Delivery!store, Delivery!agent
<1>2. \A q \in Runs : dLive'[q] = IF q = r THEN "ended" ELSE dLive[q]
  BY <1>1, DeliveryTypes DEF Delivery!TypeOK
<1>3. dBuffer \in Seq(Runs) /\ Len(dBuffer) \in Nat
  BY DeliveryTypes DEF Delivery!TypeOK
<1>4. \/ dBuffer' = dBuffer
      \/ /\ r \notin dAcked /\ dBuffer' \in Seq(Runs) /\ DOMAIN dBuffer' = 1 .. Len(dBuffer) + 1
         /\ dBuffer'[Len(dBuffer) + 1] = r
         /\ \A i \in 1 .. Len(dBuffer) : dBuffer'[i] = dBuffer[i]
  BY <1>1, <1>3
<1>5. \A q \in Runs : q \in Delivery!ToSet(dBuffer') => (q = r /\ r \notin dAcked) \/ q \in Delivery!ToSet(dBuffer)
  <2>1. ASSUME NEW i \in DOMAIN dBuffer' PROVE (dBuffer'[i] = r /\ r \notin dAcked) \/ dBuffer'[i] \in Delivery!ToSet(dBuffer)
    BY <1>3, <1>4 DEF Delivery!ToSet
  <2> QED
    BY <2>1 DEF Delivery!ToSet
<1>6. Delivery!Due' /\ dMicro' \in 0 .. Cardinality(Runs) + 1
  <2> DEFINE S == {q \in Runs : dLive[q] # "ended"}
  <2>1. {q \in Runs : dLive'[q] # "ended"} = S \ {r} /\ r \in S /\ S \in SUBSET Runs
    BY <1>1, <1>2
  <2> HIDE DEF S
  <2>2. IsFiniteSet(S) /\ Cardinality(S) \in Nat /\ Cardinality(Runs) \in Nat
    BY <2>1, DeliveryOpenRuns
  <2>3. Cardinality(S \ {r}) = Cardinality(S) - 1 /\ Cardinality(S \ {r}) \in Nat
    <3>1. IsFiniteSet(S \ {r})
      BY <2>2, FS_Subset
    <3> QED
      BY <2>1, <2>2, <3>1, FS_RemoveElement, FS_CardinalityType
  <2>4. dMicro + Cardinality(S) <= Cardinality(Runs) + 1
    BY DeliverySize DEF Delivery!IInv, Delivery!Due, S
  <2>5. dMicro \in Nat
    BY <2>2, DeliveryTypes DEF Delivery!TypeOK
  <2>6. dMicro' \in {dMicro, dMicro + 1}
    BY <1>1
  <2>7. \A m, k, j, n \in Nat : j = k - 1 /\ m + k <= n + 1
          => m \in 0 .. n + 1 /\ m + 1 \in 0 .. n + 1 /\ m + j <= n + 1 /\ m + 1 + j <= n + 1
    OBVIOUS
  <2>8. dMicro' \in 0 .. Cardinality(Runs) + 1 /\ dMicro' + Cardinality(S \ {r}) <= Cardinality(Runs) + 1
    BY <2>2, <2>3, <2>4, <2>5, <2>6, <2>7
  <2> QED
    BY DeliverySize, <2>1, <2>8 DEF Delivery!Due
<1>7. Delivery!TypeOK' /\ Delivery!Typed'
  <2>1. dLive' \in [Runs -> {"none", "running", "settled", "ended"}] /\ dBuffer' \in Seq(Runs)
    BY <1>1, <1>3, <1>4, DeliveryTypes DEF Delivery!TypeOK
  <2> QED
    BY DeliverySize, <1>1, <1>6, <2>1, DeliveryTypes DEF Delivery!TypeOK, Delivery!Typed
<1>8. Delivery!Past'
  BY <1>1, <1>2, <1>5 DEF Delivery!IInv, Delivery!Past, Delivery!InBuffer
<1>9. Delivery!Queued'
  BY <1>1 DEF Delivery!IInv, Delivery!Queued
<1>10. Delivery!Unsaid'
  <2>1. dFlush' = dFlush /\ dFlush.at = "off"
    BY <1>1 DEF Delivery!Quiet
  <2>2. \A q \in dAcked' : q \notin Delivery!ToSet(dBuffer')
    <3>1. dAcked \subseteq Runs
      BY DeliveryTypes DEF Delivery!TypeOK
    <3> QED
      BY <1>1, <1>5, <3>1 DEF Delivery!IInv, Delivery!Unsaid, Delivery!InBuffer
  <2> QED
    BY <2>1, <2>2 DEF Delivery!Unsaid, Delivery!Quiet, Delivery!InBuffer
<1>11. Delivery!Asked'
  <2>1. \A j \in DOMAIN dBuffer : dWoken[dBuffer[j]] > 0 => \A i \in 1 .. j : dBuffer[i] \in dAttempted
    BY DEF Delivery!IInv, Delivery!Asked
  <2>2. dWoken[r] = 0
    BY <1>1 DEF Delivery!IInv, Delivery!Past
  <2>3. \A j \in DOMAIN dBuffer' : dWoken[dBuffer'[j]] > 0 => \A i \in 1 .. j : dBuffer'[i] \in dAttempted
    <3>1. CASE dBuffer' = dBuffer
      BY <2>1, <3>1
    <3>2. CASE dBuffer' # dBuffer
      <4>1. SUFFICES ASSUME NEW j \in DOMAIN dBuffer', dWoken[dBuffer'[j]] > 0, NEW i \in 1 .. j
                     PROVE  dBuffer'[i] \in dAttempted
        OBVIOUS
      <4>2. j \in 1 .. Len(dBuffer) + 1 /\ j # Len(dBuffer) + 1
        BY <1>4, <2>2, <3>2, <4>1
      <4>3. j \in 1 .. Len(dBuffer) /\ i \in 1 .. Len(dBuffer)
        BY <1>3, <4>2
      <4>4. dBuffer'[j] = dBuffer[j] /\ dBuffer'[i] = dBuffer[i]
        BY <1>4, <3>2, <4>3
      <4> QED
        BY <1>3, <2>1, <4>1, <4>3, <4>4
    <3> QED
      BY <3>1, <3>2
  <2> QED
    BY <1>1, <2>3 DEF Delivery!Asked
<1>12. Delivery!Calm'
  BY <1>1 DEF Delivery!IInv, Delivery!Calm, Delivery!Quiet
<1>13. Delivery!ToldOnce'
  BY <1>1, <1>7 DEF Delivery!IInv, Delivery!ToldOnce, Delivery!DeliveredOnce, Delivery!OneWakePerFlush,
     Delivery!Observed
<1> QED
  BY <1>6, <1>7, <1>8, <1>9, <1>10, <1>11, <1>12, <1>13 DEF Delivery!IInv

\* The orders of a finite set are sequences of it.
LEMMA DeliveryOrderIs ==
  ASSUME NEW S \in SUBSET Runs, NEW s \in Delivery!SetToSeqs(S)
  PROVE  s \in Seq(Runs) /\ Delivery!ToSet(s) \subseteq S
<1>1. s \in [1 .. Cardinality(S) -> S] /\ Cardinality(S) \in Nat
  BY DeliverySize, DeliveryOpenRuns DEF Delivery!SetToSeqs
<1>2. s \in Seq(Runs)
  BY <1>1
<1> QED
  BY <1>1, <1>2 DEF Delivery!ToSet

\* A new host knows no wake, and has nothing queued.
LEMMA DeliveryRestartSafe == ASSUME Delivery!IInv, Delivery!Restart PROVE Delivery!IInv'
<1> DEFINE known == {r \in Runs : dLive[r] # "none"}
           due == {r \in known \cap dBackground : r \notin dDelivered \cup Delivery!Observed}
<1>1. /\ dLive' = [r \in Runs |-> IF dLive[r] = "none" THEN "none" ELSE "ended"]
      /\ dDelivered' = dDelivered \cup (known \cap Delivery!Observed)
      /\ dBuffer' \in Delivery!SetToSeqs(due)
      /\ dAttached' = {} /\ dAwaiting' = {} /\ dAcked' = {} /\ dAttempted' = {} /\ dReceipts' = {}
      /\ dWakePending' = FALSE /\ dAgentIdle' = TRUE
      /\ dTimer' = FALSE /\ dRetries' = 0 /\ dShown' = FALSE /\ dFlush' = Delivery!Off
      /\ dMicro' = 1 /\ dPhase' = "idle" /\ dInbox' = <<>>
      /\ dWoken' = [r \in Runs |-> 0] /\ dClash' = FALSE
      /\ dFailing' = {} /\ dSilent' = dSilent \cup (dFailing \cap dDelivered)
      /\ UNCHANGED <<dBackground, dEntries, dTold>>
  BY DEF Delivery!Restart
<1>2. dBuffer' \in Seq(Runs) /\ Delivery!ToSet(dBuffer') \subseteq known
  BY <1>1, DeliveryOrderIs
<1>3. \A r \in Runs : dLive'[r] # "ended" => dLive[r] = "none"
  BY <1>1
<1>4. \A r \in known : r \in Runs /\ dLive[r] # "none"
  OBVIOUS
<1>5. dDelivered' \subseteq dDelivered \cup Delivery!Observed /\ Delivery!Observed \subseteq Runs
  BY <1>1 DEF Delivery!Observed
<1> HIDE DEF known, due
<1>6. Cardinality(Runs) \in Nat /\ 1 \in 0 .. Cardinality(Runs) + 1
  BY DeliveryOpenRuns
<1>7. Delivery!TypeOK' /\ Delivery!Typed'
  <2>1. dLive' \in [Runs -> {"none", "running", "settled", "ended"}]
    BY <1>1, DeliveryTypes DEF Delivery!TypeOK
  <2>2. dRetries' \in 0 .. MaxRetries
    BY <1>1, DeliveryAssumption
  <2>3. dDelivered' \subseteq Runs
    BY <1>5, DeliveryTypes DEF Delivery!TypeOK
  <2>5. dTold' \subseteq Runs /\ dFailing' \subseteq Runs /\ dSilent' \subseteq Runs
    BY <1>1, DeliveryTypes DEF Delivery!TypeOK
  <2>4. dInbox' \in Seq(SUBSET Runs) /\ dWoken' \in [Runs -> Nat]
    BY <1>1
  <2> QED
    BY DeliverySize, <1>1, <1>2, <1>6, <2>1, <2>2, <2>3, <2>4, <2>5, DeliveryTypes DEF Delivery!TypeOK,
       Delivery!Typed, Delivery!Off, Delivery!Phases
<1>8. Delivery!Past'
  <2>1. \A r \in Runs : dLive[r] = "none" => dEntries[r] = 0
    BY DEF Delivery!IInv, Delivery!Past
  <2>2. DOMAIN dInbox' = {}
    BY <1>1
  <2> QED
    BY <1>1, <1>2, <1>3, <1>4, <2>1, <2>2 DEF Delivery!Past, Delivery!InBuffer
<1>9. Delivery!Queued'
  <2>1. DOMAIN dInbox' = {}
    BY <1>1
  <2> QED
    BY <2>1 DEF Delivery!Queued
<1>10. Delivery!Unsaid' /\ Delivery!Calm'
  BY <1>1 DEF Delivery!Unsaid, Delivery!Quiet, Delivery!Off, Delivery!Calm
<1>11. Delivery!Asked'
  <2>1. \A j \in DOMAIN dBuffer' : dBuffer'[j] \in Runs
    BY <1>2
  <2> QED
    BY <1>1, <2>1 DEF Delivery!Asked
<1>12. Delivery!Due'
  <2> DEFINE S == {r \in Runs : dLive'[r] # "ended"}
  <2>1. S \in SUBSET Runs
    OBVIOUS
  <2> HIDE DEF S
  <2>2. Cardinality(S) \in Nat /\ Cardinality(Runs) \in Nat /\ Cardinality(S) <= Cardinality(Runs)
    BY <2>1, DeliveryOpenRuns
  <2>3. 1 + Cardinality(S) <= Cardinality(Runs) + 1
    BY <2>2
  <2> QED
    BY DeliverySize, <1>1, <2>3 DEF Delivery!Due, S
<1>13. Delivery!ToldOnce'
  BY <1>1, <1>5, <1>7 DEF Delivery!IInv, Delivery!ToldOnce, Delivery!DeliveredOnce,
     Delivery!OneWakePerFlush, Delivery!Observed
<1> QED
  BY <1>7, <1>8, <1>9, <1>10, <1>11, <1>12, <1>13 DEF Delivery!IInv

\* A queued message that lands names what has no entry and is in no other message.
LEMMA DeliveryLandSafe == ASSUME Delivery!IInv, Delivery!Land PROVE Delivery!IInv'
<1>1. /\ Delivery!Quiet /\ dInbox # <<>> /\ dInbox' = Tail(dInbox)
      /\ dEntries' \in {dEntries, [r \in Runs |-> dEntries[r] + (IF r \in Head(dInbox) THEN 1 ELSE 0)]}
      /\ UNCHANGED <<dLive, dBackground, dAttached, dBuffer, dAwaiting, dAcked, dAttempted, dWakePending, dWoken, dClash,
                     dAgentIdle, dTimer, dRetries, dShown, dFlush, dMicro, dDelivered, dReceipts, dPhase, dTold,
                     dFailing, dSilent>>
  BY DEF Delivery!Land, Delivery!heard, Delivery!runs, Delivery!queue, Delivery!wakes, Delivery!retry, Delivery!store
<1>2. dInbox \in Seq(SUBSET Runs) /\ dEntries \in [Runs -> Nat]
  BY DeliveryTypes DEF Delivery!TypeOK
<1>3. /\ dInbox' \in Seq(SUBSET Runs) /\ 1 \in DOMAIN dInbox
      /\ \A k \in DOMAIN dInbox' : k + 1 \in DOMAIN dInbox /\ k + 1 # 1 /\ dInbox'[k] = dInbox[k + 1]
  BY <1>1, <1>2
<1>4. \A r \in Runs : dEntries'[r] = dEntries[r] \/ (dEntries'[r] = dEntries[r] + 1 /\ r \in dInbox[1])
  BY <1>1, <1>2
<1>5. dEntries' \in [Runs -> Nat]
  BY <1>1, <1>2
<1>6. \A r \in dInbox[1] : r \in Runs /\ dEntries[r] = 0
  BY <1>2, <1>3 DEF Delivery!IInv, Delivery!Queued
<1>7. Delivery!TypeOK' /\ Delivery!Typed'
  BY <1>1, <1>3, <1>5, DeliveryTypes DEF Delivery!TypeOK, Delivery!Typed
<1>8. Delivery!Past'
  BY <1>1, <1>3, <1>4 DEF Delivery!IInv, Delivery!Past, Delivery!InBuffer
<1>9. Delivery!Queued'
  <2>1. SUFFICES ASSUME NEW k \in DOMAIN dInbox', NEW r \in dInbox'[k]
                 PROVE  /\ dEntries'[r] = 0 /\ r \in dAwaiting' \cup dAcked'
                        /\ \A h \in DOMAIN dInbox' : r \in dInbox'[h] => h = k
    BY DEF Delivery!Queued
  <2>2. k + 1 \in DOMAIN dInbox /\ k + 1 # 1 /\ r \in dInbox[k + 1] /\ r \in Runs
    BY <1>2, <1>3, <2>1
  <2>3. /\ dEntries[r] = 0 /\ r \in dAwaiting \cup dAcked
        /\ \A h \in DOMAIN dInbox : r \in dInbox[h] => h = k + 1
    BY <2>2 DEF Delivery!IInv, Delivery!Queued
  <2>4. r \notin dInbox[1]
    BY <1>3, <2>2, <2>3
  <2>5. \A h \in DOMAIN dInbox' : r \in dInbox'[h] => h + 1 = k + 1
    BY <1>3, <2>3
  <2>6. \A h \in DOMAIN dInbox' : h \in Nat /\ k \in Nat
    BY <1>3
  <2> QED
    BY <1>1, <1>4, <2>2, <2>3, <2>4, <2>5, <2>6
<1>10. Delivery!Unsaid'
  BY <1>1 DEF Delivery!IInv, Delivery!Unsaid, Delivery!Quiet, Delivery!InBuffer
<1>11. Delivery!Asked' /\ Delivery!Calm' /\ Delivery!Due'
  BY <1>1 DEF Delivery!IInv, Delivery!Asked, Delivery!Calm, Delivery!Quiet, Delivery!Due
<1>12. Delivery!ToldOnce'
  <2>1. \A r \in Runs : dEntries'[r] <= 1
    BY <1>2, <1>4, <1>6 DEF Delivery!IInv, Delivery!ToldOnce, Delivery!DeliveredOnce
  <2>2. \A r \in Runs : dEntries[r] > 0 => dEntries'[r] > 0
    BY <1>2, <1>4
  <2> QED
    BY <1>1, <1>7, <2>1, <2>2 DEF Delivery!IInv, Delivery!ToldOnce, Delivery!DeliveredOnce,
       Delivery!OneWakePerFlush, Delivery!Observed
<1> QED
  BY <1>7, <1>8, <1>9, <1>10, <1>11, <1>12 DEF Delivery!IInv
-----------------------------------------------------------------------------
(* The messages of a flush.                                                *)

\* A step of the loop that sends a batch of what is buffered: it may append the
\* batch or queue it, and may have asked for a wake with all that is buffered.
LEMMA DeliverySends ==
  ASSUME Delivery!IInv, ~Delivery!Quiet, Delivery!TypeOK', Delivery!Typed', Delivery!Calm',
         UNCHANGED <<dLive, dTold, dFailing, dSilent, dMicro>>,
         NEW batch \in SUBSET Runs,
         \A r \in batch : Delivery!InBuffer(r) /\ r \notin dAwaiting /\ r \notin dAcked,
         \A r \in Runs : dEntries'[r] = dEntries[r] \/ (r \in batch /\ dEntries'[r] = dEntries[r] + 1),
         dInbox' = dInbox \/ (/\ dInbox' = Append(dInbox, batch) /\ dEntries' = dEntries
                              /\ \A r \in batch : r \in dAwaiting' \cup dAcked'),
         Within(dBuffer', dBuffer),
         \A r \in dAwaiting \cup dAcked : r \in dAwaiting' \cup dAcked',
         \A r \in dAcked' : r \notin Delivery!ToSet(dBuffer'),
         \A r \in dAcked' \cup dDelivered' \cup dReceipts' :
            r \in dAcked \cup dDelivered \cup dReceipts \/ (r \in Runs /\ dEntries'[r] > 0),
         dFlush'.at # "off" => \A r \in Runs : dEntries'[r] > 0 => r \notin Delivery!ToSet(dBuffer'),
         dFlush'.at = "fallback" => \/ dFlush'.batch \subseteq Delivery!Observed'
                                    \/ dFlush'.batch \subseteq Delivery!ToSet(dBuffer') \ dAwaiting',
         \/ UNCHANGED <<dAttempted, dWoken, dClash>>
         \/ /\ Delivery!Triggers(batch) /\ dAttempted' = dAttempted \cup Delivery!ToSet(dBuffer)
            /\ dWoken' = [dWoken EXCEPT ![Delivery!Last(dBuffer)] = @ + 1]
            /\ dClash' = (dClash \/ dPhase # "idle")
  PROVE  Delivery!IInv'
<1>1. dBuffer \in Seq(Runs) /\ dBuffer' \in Seq(Runs) /\ Delivery!ToSet(dBuffer') \subseteq Delivery!ToSet(dBuffer)
  <2>1. dBuffer \in Seq(Runs) /\ dBuffer' \in Seq(Runs)
    BY DeliveryTypes DEF Delivery!TypeOK
  <2> QED
    BY <2>1, DeliveryWithinIsSubset
<1>2. \A r \in batch : r \in Runs /\ dLive[r] = "ended" /\ dEntries[r] = 0 /\ r \in Delivery!ToSet(dBuffer)
  BY DEF Delivery!IInv, Delivery!Past, Delivery!Unsaid, Delivery!Observed, Delivery!InBuffer,
     Delivery!ToldOnce, Delivery!DeliveredOnce, Delivery!TypeOK
<1>3. dEntries \in [Runs -> Nat] /\ dInbox \in Seq(SUBSET Runs)
  BY DeliveryTypes DEF Delivery!TypeOK
<1>4. \A r \in Runs : dEntries'[r] <= 1 /\ (dEntries[r] > 0 => dEntries'[r] > 0)
  BY <1>2, <1>3 DEF Delivery!IInv, Delivery!ToldOnce, Delivery!DeliveredOnce
<1>5. \/ dInbox' = dInbox
      \/ /\ dEntries' = dEntries /\ \A r \in batch : r \in dAwaiting' \cup dAcked'
         /\ DOMAIN dInbox' = 1 .. Len(dInbox) + 1 /\ dInbox'[Len(dInbox) + 1] = batch
         /\ \A k \in DOMAIN dInbox : k \in DOMAIN dInbox' /\ dInbox'[k] = dInbox[k]
         /\ \A k \in DOMAIN dInbox' : k = Len(dInbox) + 1 \/ k \in DOMAIN dInbox
  BY <1>3
<1>6. \A r \in batch : \A k \in DOMAIN dInbox : r \notin dInbox[k]
  BY DEF Delivery!IInv, Delivery!Queued
<1>7. \/ UNCHANGED <<dAttempted, dWoken, dClash>>
      \/ /\ dClash' = dClash /\ dAttempted' = dAttempted \cup Delivery!ToSet(dBuffer)
         /\ \E l \in Runs : /\ dWoken[l] = 0 /\ dLive[l] = "ended"
                            /\ \A r \in Runs : dWoken'[r] = IF r = l THEN 1 ELSE dWoken[r]
  <2>1. CASE UNCHANGED <<dAttempted, dWoken, dClash>>
    BY <2>1
  <2>2. CASE /\ Delivery!Triggers(batch) /\ dAttempted' = dAttempted \cup Delivery!ToSet(dBuffer)
             /\ dWoken' = [dWoken EXCEPT ![Delivery!Last(dBuffer)] = @ + 1]
             /\ dClash' = (dClash \/ dPhase # "idle")
    <3>1. dAgentIdle /\ ~dWakePending /\ \E r \in batch : r \notin dAttempted
      BY <2>2 DEF Delivery!Triggers
    <3>2. dPhase = "idle"
      BY <3>1 DEF Delivery!IInv, Delivery!Calm
    <3>3. PICK r \in batch : r \notin dAttempted
      BY <3>1
    <3>4. PICK i \in DOMAIN dBuffer : dBuffer[i] = r
      BY <1>2, <3>3 DEF Delivery!ToSet
    <3>5. Len(dBuffer) \in DOMAIN dBuffer /\ i \in 1 .. Len(dBuffer) /\ Delivery!Last(dBuffer) = dBuffer[Len(dBuffer)] /\ Delivery!Last(dBuffer) \in Runs
      BY <1>1 DEF Delivery!Last
    <3>6. ~(dWoken[Delivery!Last(dBuffer)] > 0)
      BY <3>3, <3>4, <3>5 DEF Delivery!IInv, Delivery!Asked
    <3>7. dWoken[Delivery!Last(dBuffer)] = 0 /\ dWoken \in [Runs -> Nat]
      <4>1. dWoken \in [Runs -> Nat]
        BY DeliveryTypes DEF Delivery!TypeOK
      <4> QED
        BY <3>5, <3>6, <4>1
    <3>8. dLive[Delivery!Last(dBuffer)] = "ended"
      <4>1. Delivery!Last(dBuffer) \in Delivery!ToSet(dBuffer)
        BY <3>5 DEF Delivery!ToSet
      <4> QED
        BY <3>5, <4>1 DEF Delivery!IInv, Delivery!Past, Delivery!InBuffer
    <3>9. \A q \in Runs : dWoken'[q] = IF q = Delivery!Last(dBuffer) THEN 1 ELSE dWoken[q]
      BY <2>2, <3>5, <3>7
    <3>10. dClash' = dClash
      <4>1. dClash \in BOOLEAN
        BY DeliveryTypes DEF Delivery!TypeOK
      <4> QED
        BY <2>2, <3>2, <4>1
    <3> QED
      BY <2>2, <3>5, <3>7, <3>8, <3>9, <3>10
  <2> QED
    BY <2>1, <2>2
<1>8. Delivery!Past'
  <2>1. ASSUME NEW r \in Runs, dLive[r] # "ended"
        PROVE  dEntries'[r] = 0 /\ dWoken'[r] = 0 /\ r \notin Delivery!ToSet(dBuffer') /\ r \notin batch
    <3>1. dEntries[r] = 0 /\ dWoken[r] = 0 /\ r \notin Delivery!ToSet(dBuffer)
      BY <2>1 DEF Delivery!IInv, Delivery!Past, Delivery!InBuffer
    <3>2. r \notin batch
      BY <1>2, <2>1
    <3>3. dWoken'[r] = 0
      BY <1>7, <2>1, <3>1
    <3> QED
      BY <1>1, <3>1, <3>2, <3>3
  <2>2. ASSUME NEW r \in Runs, dLive[r] # "ended", NEW k \in DOMAIN dInbox' PROVE r \notin dInbox'[k]
    <3>1. \A h \in DOMAIN dInbox : r \notin dInbox[h]
      BY <2>2 DEF Delivery!IInv, Delivery!Past
    <3> QED
      BY <1>5, <2>1, <2>2, <3>1
  <2> QED
    BY <2>1, <2>2 DEF Delivery!Past, Delivery!InBuffer
<1>9. Delivery!Queued'
  <2>1. ASSUME NEW k \in DOMAIN dInbox, NEW r \in dInbox[k]
        PROVE  /\ dEntries'[r] = 0 /\ r \in dAwaiting' \cup dAcked' /\ r \notin batch
               /\ \A h \in DOMAIN dInbox : r \in dInbox[h] => h = k
    <3>1. /\ dEntries[r] = 0 /\ r \in dAwaiting \cup dAcked
          /\ \A h \in DOMAIN dInbox : r \in dInbox[h] => h = k
      BY DEF Delivery!IInv, Delivery!Queued
    <3>2. r \notin batch /\ r \in Runs
      BY <1>3, <3>1
    <3> QED
      BY <3>1, <3>2
  <2>2. CASE dInbox' = dInbox
    BY <2>1, <2>2 DEF Delivery!Queued
  <2>3. CASE dInbox' # dInbox
    <3>1. /\ dEntries' = dEntries /\ \A r \in batch : r \in dAwaiting' \cup dAcked'
          /\ dInbox'[Len(dInbox) + 1] = batch
          /\ \A k \in DOMAIN dInbox : dInbox'[k] = dInbox[k]
          /\ \A k \in DOMAIN dInbox' : k = Len(dInbox) + 1 \/ k \in DOMAIN dInbox
      BY <1>5, <2>3
    <3>2. SUFFICES ASSUME NEW k \in DOMAIN dInbox', NEW r \in dInbox'[k]
                   PROVE  /\ dEntries'[r] = 0 /\ r \in dAwaiting' \cup dAcked'
                          /\ \A h \in DOMAIN dInbox' : r \in dInbox'[h] => h = k
      BY DEF Delivery!Queued
    <3>3. CASE k = Len(dInbox) + 1
      <4>1. r \in batch
        BY <3>1, <3>3
      <4>2. \A h \in DOMAIN dInbox' : r \in dInbox'[h] => h = k
        BY <1>6, <3>1, <3>3, <4>1
      <4> QED
        BY <1>2, <3>1, <4>1, <4>2
    <3>4. CASE k # Len(dInbox) + 1
      <4>1. k \in DOMAIN dInbox /\ r \in dInbox[k]
        BY <3>1, <3>4
      <4>2. /\ dEntries'[r] = 0 /\ r \in dAwaiting' \cup dAcked' /\ r \notin batch
            /\ \A h \in DOMAIN dInbox : r \in dInbox[h] => h = k
        BY <2>1, <4>1
      <4>3. \A h \in DOMAIN dInbox' : r \in dInbox'[h] => h = k
        BY <3>1, <4>2
      <4> QED
        BY <4>2, <4>3
    <3> QED
      BY <3>3, <3>4
  <2> QED
    BY <2>2, <2>3
<1>10. Delivery!Unsaid'
  BY DEF Delivery!Unsaid, Delivery!InBuffer, Delivery!Quiet, Delivery!Observed
<1>11. Delivery!Asked'
  <2>1. CASE UNCHANGED <<dAttempted, dWoken, dClash>>
    <3>1. \A j \in DOMAIN dBuffer : dWoken[dBuffer[j]] > 0 => \A i \in 1 .. j : dBuffer[i] \in dAttempted
      BY DEF Delivery!IInv, Delivery!Asked
    <3>2. \A j \in DOMAIN dBuffer' : dWoken[dBuffer'[j]] > 0 => \A i \in 1 .. j : dBuffer'[i] \in dAttempted
      BY <1>1, <3>1, DeliveryAskedWithin
    <3> QED
      BY <2>1, <3>2 DEF Delivery!Asked
  <2>2. CASE dAttempted' = dAttempted \cup Delivery!ToSet(dBuffer)
    <3>1. \A i \in DOMAIN dBuffer' : dBuffer'[i] \in dAttempted'
      BY <1>1, <2>2 DEF Delivery!ToSet
    <3>2. \A j \in DOMAIN dBuffer' : \A i \in 1 .. j : i \in DOMAIN dBuffer'
      BY <1>1
    <3> QED
      BY <3>1, <3>2 DEF Delivery!Asked
  <2> QED
    BY <2>1, <2>2
<1>12. Delivery!Due'
  BY DEF Delivery!IInv, Delivery!Due
<1>13. Delivery!ToldOnce'
  <2>1. dAcked' \cup dDelivered' \cup dReceipts' \subseteq Delivery!Observed' \cup dTold' \cup dFailing' \cup dSilent'
    <3>1. ASSUME NEW r \in dAcked \cup dDelivered \cup dReceipts
          PROVE  r \in Delivery!Observed' \cup dTold' \cup dFailing' \cup dSilent'
      <4>1. r \in Delivery!Observed \cup dTold \cup dFailing \cup dSilent
        BY DEF Delivery!IInv, Delivery!ToldOnce, Delivery!DeliveredOnce
      <4> QED
        BY <1>4, <4>1 DEF Delivery!Observed
    <3> QED
      BY <3>1 DEF Delivery!Observed
  <2>2. (\A r \in Runs : dWoken'[r] <= 1) /\ ~dClash'
    BY <1>7 DEF Delivery!IInv, Delivery!ToldOnce, Delivery!OneWakePerFlush
  <2> QED
    BY <1>4, <2>1, <2>2 DEF Delivery!ToldOnce, Delivery!DeliveredOnce, Delivery!OneWakePerFlush
<1> QED
  BY <1>8, <1>9, <1>10, <1>11, <1>12, <1>13 DEF Delivery!IInv

\* What a batch of the buffer may be added to or appended as.
LEMMA DeliveryTakeIs ==
  ASSUME Delivery!IInv, NEW batch \in SUBSET Runs, Delivery!Take(batch) \/ Delivery!Throw(batch)
  PROVE  /\ dEntries' \in [Runs -> Nat] /\ dInbox' \in Seq(SUBSET Runs)
         /\ \A r \in Runs : dEntries'[r] = dEntries[r] \/ (r \in batch /\ dEntries'[r] = dEntries[r] + 1)
         /\ \/ dEntries' = dEntries
            \/ /\ dInbox' = dInbox
               /\ \A r \in Runs : dEntries'[r] = IF r \in batch THEN dEntries[r] + 1 ELSE dEntries[r]
         /\ dInbox' = dInbox \/ (dInbox' = Append(dInbox, batch) /\ dEntries' = dEntries)
         /\ Delivery!Take(batch) => dEntries' # dEntries \/ dInbox' = Append(dInbox, batch) \/ batch = {}
<1>1. dEntries \in [Runs -> Nat] /\ dInbox \in Seq(SUBSET Runs)
  BY DeliveryTypes DEF Delivery!TypeOK
<1>2. \/ dEntries' = dEntries /\ dInbox' = Append(dInbox, batch)
      \/ dEntries' = dEntries /\ dInbox' = dInbox /\ Delivery!Throw(batch)
      \/ dEntries' = [r \in Runs |-> dEntries[r] + (IF r \in batch THEN 1 ELSE 0)] /\ dInbox' = dInbox
  BY DEF Delivery!Take, Delivery!Throw
<1>3. CASE dEntries' = dEntries /\ dInbox' = Append(dInbox, batch)
  BY <1>1, <1>3
<1>4. CASE dEntries' = dEntries /\ dInbox' = dInbox /\ Delivery!Throw(batch)
  <2>1. Delivery!Take(batch) => batch = {}
    <3>1. ASSUME Delivery!Take(batch), NEW r \in batch PROVE FALSE
      <4>1. CASE dEntries' = [q \in Runs |-> dEntries[q] + (IF q \in batch THEN 1 ELSE 0)]
        <5>1. dEntries'[r] = dEntries[r] + 1 /\ dEntries[r] \in Nat
          BY <1>1, <4>1
        <5> QED
          BY <1>4, <5>1
      <4>2. CASE dInbox' = Append(dInbox, batch)
        BY <1>1, <1>4, <4>2
      <4> QED
        BY <3>1, <4>1, <4>2 DEF Delivery!Take
    <3> QED
      BY <3>1
  <2> QED
    BY <1>1, <1>4, <2>1
<1>5. CASE dEntries' = [r \in Runs |-> dEntries[r] + (IF r \in batch THEN 1 ELSE 0)] /\ dInbox' = dInbox
  <2>1. \A r \in Runs : dEntries'[r] = IF r \in batch THEN dEntries[r] + 1 ELSE dEntries[r]
    BY <1>1, <1>5
  <2>2. dEntries' \in [Runs -> Nat]
    BY <1>1, <1>5
  <2>3. batch # {} => dEntries' # dEntries
    <3>1. ASSUME NEW r \in batch PROVE dEntries'[r] # dEntries[r]
      BY <1>1, <2>1
    <3> QED
      BY <3>1
  <2> QED
    BY <1>1, <1>5, <2>1, <2>2, <2>3
<1> QED
  BY <1>2, <1>3, <1>4, <1>5

\* What was appended of the buffer is the batch or nothing.
LEMMA DeliveryAppendedIs ==
  ASSUME Delivery!IInv, ~Delivery!Quiet, NEW batch \in SUBSET Runs, \A r \in batch : Delivery!InBuffer(r),
         Delivery!Take(batch) \/ Delivery!Throw(batch)
  PROVE  \/ dEntries' = dEntries /\ Delivery!Appended \cap Delivery!ToSet(dBuffer) = {}
         \/ /\ dInbox' = dInbox /\ Delivery!Appended \cap Delivery!ToSet(dBuffer) = batch
            /\ \A r \in batch : dEntries'[r] > 0
<1>1. dEntries \in [Runs -> Nat]
  BY DeliveryTypes DEF Delivery!TypeOK
<1>2. \/ dEntries' = dEntries
      \/ /\ dInbox' = dInbox
         /\ \A r \in Runs : dEntries'[r] = IF r \in batch THEN dEntries[r] + 1 ELSE dEntries[r]
  BY DeliveryTakeIs
<1>3. \A r \in Runs : Delivery!InBuffer(r) => dEntries[r] = 0
  BY <1>1 DEF Delivery!IInv, Delivery!Unsaid, Delivery!Observed
<1>4. CASE dEntries' = dEntries
  <2>1. \A r \in Delivery!Appended : r \notin Delivery!ToSet(dBuffer)
    BY <1>3, <1>4 DEF Delivery!Appended, Delivery!InBuffer
  <2> QED
    BY <1>4, <2>1
<1>5. CASE /\ dInbox' = dInbox
           /\ \A r \in Runs : dEntries'[r] = IF r \in batch THEN dEntries[r] + 1 ELSE dEntries[r]
  <2>1. \A r \in Runs : Delivery!InBuffer(r) => (dEntries'[r] > 0 <=> r \in batch)
    BY <1>3, <1>5
  <2>2. Delivery!Appended \cap Delivery!ToSet(dBuffer) = batch
    BY <2>1 DEF Delivery!Appended, Delivery!InBuffer
  <2> QED
    BY <1>5, <2>1, <2>2
<1> QED
  BY <1>2, <1>4, <1>5
\* What markDeliveredDurably makes of a batch that was appended, or of none of it:
\* the receipts that are stored or owed are those of what has an entry.
LEMMA DeliverySentIs ==
  ASSUME Delivery!IInv, ~Delivery!Quiet, NEW batch \in SUBSET Runs,
         \A r \in batch : Delivery!InBuffer(r) /\ r \notin dAwaiting /\ r \notin dAcked,
         Delivery!Take(batch) \/ Delivery!Throw(batch),
         NEW more \in SUBSET batch, Delivery!Mark(Delivery!Appended \cap Delivery!ToSet(dBuffer), dBuffer, dAwaiting \cup more)
  PROVE  /\ dBuffer' \in Seq(Runs) /\ Within(dBuffer', dBuffer) /\ dAwaiting' \subseteq Runs /\ dAcked' \subseteq Runs
         /\ dDelivered' \subseteq Runs /\ dReceipts' \subseteq Runs
         /\ \A r \in dAwaiting \cup dAcked : r \in dAwaiting' \cup dAcked'
         /\ \A r \in dAcked' : r \notin Delivery!ToSet(dBuffer')
         /\ \A r \in dAcked' \cup dDelivered' \cup dReceipts' :
              r \in dAcked \cup dDelivered \cup dReceipts \/ (r \in Runs /\ dEntries'[r] > 0)
         /\ \A r \in Runs : dEntries'[r] > 0 => r \notin Delivery!ToSet(dBuffer')
         /\ \/ /\ dEntries' = dEntries /\ dAcked' = dAcked /\ dAwaiting' = dAwaiting \cup more
               /\ Delivery!ToSet(dBuffer') = Delivery!ToSet(dBuffer)
            \/ /\ dInbox' = dInbox /\ dAcked' = dAcked \cup batch /\ dAwaiting' = dAwaiting
               /\ \A r \in batch : dEntries'[r] > 0
<1> DEFINE ids == Delivery!Appended \cap Delivery!ToSet(dBuffer)
<1>1. \/ dEntries' = dEntries /\ ids = {}
      \/ dInbox' = dInbox /\ ids = batch /\ \A r \in batch : dEntries'[r] > 0
  BY DeliveryAppendedIs
<1>2. ids \in SUBSET Runs /\ \A r \in ids : dEntries'[r] > 0
  BY DEF Delivery!Appended
<1>3. \A r \in Runs : dEntries'[r] > 0 => r \in ids \/ r \notin Delivery!ToSet(dBuffer)
  BY DEF Delivery!Appended
<1>4. Delivery!Mark(ids, dBuffer, dAwaiting \cup more)
  OBVIOUS
<1> HIDE DEF ids
<1>5. /\ dBuffer \in Seq(Runs) /\ dAwaiting \subseteq Runs /\ dAcked \subseteq Runs
      /\ dDelivered \subseteq Runs /\ dReceipts \subseteq Runs
      /\ \A r \in dAcked : r \notin Delivery!ToSet(dBuffer)
  BY DeliveryTypes DEF Delivery!TypeOK, Delivery!IInv, Delivery!Unsaid, Delivery!InBuffer
<1>6. /\ dAcked' = dAcked \cup ids /\ dAwaiting' = (dAwaiting \cup more) \ ids
      /\ dBuffer' \in Seq(Runs) /\ Delivery!ToSet(dBuffer') = Delivery!ToSet(dBuffer) \ ids /\ Within(dBuffer', dBuffer)
      /\ dDelivered' \subseteq dDelivered \cup ids /\ dReceipts' \subseteq dReceipts \cup ids
  BY <1>2, <1>4, <1>5, DeliveryMarkIs
<1>7. dAwaiting' \subseteq Runs /\ dAcked' \subseteq Runs /\ dDelivered' \subseteq Runs /\ dReceipts' \subseteq Runs
  BY <1>2, <1>5, <1>6
<1>8. \A r \in dAwaiting \cup dAcked : r \in dAwaiting' \cup dAcked'
  BY <1>6
<1>9. \A r \in dAcked' : r \notin Delivery!ToSet(dBuffer')
  BY <1>5, <1>6
<1>10. \A r \in dAcked' \cup dDelivered' \cup dReceipts' :
         r \in dAcked \cup dDelivered \cup dReceipts \/ (r \in Runs /\ dEntries'[r] > 0)
  BY <1>2, <1>6
<1>11. \A r \in Runs : dEntries'[r] > 0 => r \notin Delivery!ToSet(dBuffer')
  BY <1>3, <1>6
<1>12. \/ /\ dEntries' = dEntries /\ dAcked' = dAcked /\ dAwaiting' = dAwaiting \cup more
          /\ Delivery!ToSet(dBuffer') = Delivery!ToSet(dBuffer)
       \/ /\ dInbox' = dInbox /\ dAcked' = dAcked \cup batch /\ dAwaiting' = dAwaiting
          /\ \A r \in batch : dEntries'[r] > 0
  <2>1. ASSUME ids = batch PROVE dAwaiting' = dAwaiting
    BY <1>6, <2>1
  <2> QED
    BY <1>1, <1>6, <2>1
<1> QED
  BY <1>6, <1>7, <1>8, <1>9, <1>10, <1>11, <1>12

\* A message that the SDK takes, of what a flush may send.
LEMMA DeliveryTakenSafe ==
  ASSUME Delivery!IInv, ~Delivery!Quiet, NEW batch \in SUBSET Runs,
         \A r \in batch : Delivery!InBuffer(r) /\ r \notin dAwaiting /\ r \notin dAcked,
         Delivery!Take(batch), Delivery!Accepted(batch), Delivery!Calm',
         UNCHANGED <<dLive, dBackground, dAttached, dAgentIdle, dMicro, dTold, dFailing, dSilent>>,
         dWakePending' \in BOOLEAN, dPhase' \in Delivery!Phases, dFlush'.at = "loop", Delivery!Typed',
         dAttempted' \subseteq Runs, dWoken' \in [Runs -> Nat], dClash' \in BOOLEAN,
         \/ UNCHANGED <<dAttempted, dWoken, dClash>>
         \/ /\ Delivery!Triggers(batch) /\ dAttempted' = dAttempted \cup Delivery!ToSet(dBuffer)
            /\ dWoken' = [dWoken EXCEPT ![Delivery!Last(dBuffer)] = @ + 1]
            /\ dClash' = (dClash \/ dPhase # "idle")
  PROVE  Delivery!IInv'
<1>1. /\ Delivery!Mark(Delivery!Appended \cap Delivery!ToSet(dBuffer), dBuffer, dAwaiting \cup (batch \ dAcked))
      /\ UNCHANGED <<dTimer, dRetries, dShown>>
  BY DEF Delivery!Accepted, Delivery!retry
<1>2. batch \ dAcked = batch /\ batch \in SUBSET batch
  OBVIOUS
<1>3. /\ dBuffer' \in Seq(Runs) /\ Within(dBuffer', dBuffer) /\ dAwaiting' \subseteq Runs /\ dAcked' \subseteq Runs
      /\ dDelivered' \subseteq Runs /\ dReceipts' \subseteq Runs
      /\ \A r \in dAwaiting \cup dAcked : r \in dAwaiting' \cup dAcked'
      /\ \A r \in dAcked' : r \notin Delivery!ToSet(dBuffer')
      /\ \A r \in dAcked' \cup dDelivered' \cup dReceipts' :
           r \in dAcked \cup dDelivered \cup dReceipts \/ (r \in Runs /\ dEntries'[r] > 0)
      /\ \A r \in Runs : dEntries'[r] > 0 => r \notin Delivery!ToSet(dBuffer')
      /\ \/ /\ dEntries' = dEntries /\ dAcked' = dAcked /\ dAwaiting' = dAwaiting \cup batch
            /\ Delivery!ToSet(dBuffer') = Delivery!ToSet(dBuffer)
         \/ /\ dInbox' = dInbox /\ dAcked' = dAcked \cup batch /\ dAwaiting' = dAwaiting
            /\ \A r \in batch : dEntries'[r] > 0
  BY <1>1, <1>2, DeliverySentIs
<1>4. /\ dEntries' \in [Runs -> Nat] /\ dInbox' \in Seq(SUBSET Runs)
      /\ \A r \in Runs : dEntries'[r] = dEntries[r] \/ (r \in batch /\ dEntries'[r] = dEntries[r] + 1)
      /\ dInbox' = dInbox \/ (dInbox' = Append(dInbox, batch) /\ dEntries' = dEntries)
  BY DeliveryTakeIs
<1>5. \A r \in batch : r \in dAwaiting' \cup dAcked'
  BY <1>3
<1>6. dInbox' = dInbox \/ (/\ dInbox' = Append(dInbox, batch) /\ dEntries' = dEntries
                           /\ \A r \in batch : r \in dAwaiting' \cup dAcked')
  BY <1>4, <1>5
<1>7. Delivery!TypeOK'
  <2>1. dFlush'.at \in {"off", "loop", "fallback"} /\ dFlush'.batch \subseteq Runs
    BY DEF Delivery!Typed
  <2> QED
    BY <1>1, <1>3, <1>4, <2>1, DeliveryTypes DEF Delivery!TypeOK
<1>8. /\ dFlush'.at # "off" => \A r \in Runs : dEntries'[r] > 0 => r \notin Delivery!ToSet(dBuffer')
      /\ dFlush'.at = "fallback" => \/ dFlush'.batch \subseteq Delivery!Observed'
                                    \/ dFlush'.batch \subseteq Delivery!ToSet(dBuffer') \ dAwaiting'
  BY <1>3
<1> QED
  BY <1>3, <1>4, <1>6, <1>7, <1>8, DeliverySends

\* A message that the SDK rejects ends the flush, unless it was to wake.
LEMMA DeliveryThrownSafe ==
  ASSUME Delivery!IInv, ~Delivery!Quiet, NEW batch \in SUBSET Runs,
         \A r \in batch : Delivery!InBuffer(r) /\ r \notin dAwaiting /\ r \notin dAcked,
         Delivery!Throw(batch), Delivery!RetryDelivery(dRetries, dAgentIdle, dTimer), dFlush' = Delivery!Off,
         UNCHANGED <<dLive, dBackground, dAttached, dAgentIdle, dMicro, dTold, dFailing, dSilent, dBuffer,
                     dAwaiting, dAcked, dDelivered,
                     dReceipts, dAttempted, dWakePending, dWoken, dClash, dPhase>>
  PROVE  Delivery!IInv'
<1>1. dTimer' \in BOOLEAN /\ dRetries' \in 0 .. MaxRetries /\ dShown' \in BOOLEAN
  BY DeliveryTypes, DeliveryRetryIs DEF Delivery!TypeOK
<1>2. /\ dEntries' \in [Runs -> Nat] /\ dInbox' = dInbox
      /\ \A r \in Runs : dEntries'[r] = dEntries[r] \/ (r \in batch /\ dEntries'[r] = dEntries[r] + 1)
  BY DeliveryTakeIs DEF Delivery!Throw
<1>3. dFlush' \in [at : {"off", "loop", "fallback"}, used : BOOLEAN, batch : SUBSET Runs] /\ dFlush'.at = "off"
  BY DEF Delivery!Off
<1>4. Delivery!TypeOK' /\ Delivery!Typed'
  BY <1>1, <1>2, <1>3, DeliveryTypes DEF Delivery!TypeOK, Delivery!Typed
<1>5. Delivery!Calm'
  BY <1>3 DEF Delivery!IInv, Delivery!Calm, Delivery!Quiet
<1>6. Within(dBuffer', dBuffer)
  BY DeliveryWithinItself, DeliveryTypes DEF Delivery!TypeOK
<1>7. \A r \in dAcked' : r \notin Delivery!ToSet(dBuffer')
  BY DEF Delivery!IInv, Delivery!Unsaid, Delivery!InBuffer
<1>8. \A r \in dAcked' \cup dDelivered' \cup dReceipts' :
        r \in dAcked \cup dDelivered \cup dReceipts \/ (r \in Runs /\ dEntries'[r] > 0)
  OBVIOUS
<1>9. /\ dFlush'.at # "off" => \A r \in Runs : dEntries'[r] > 0 => r \notin Delivery!ToSet(dBuffer')
      /\ dFlush'.at = "fallback" => \/ dFlush'.batch \subseteq Delivery!Observed'
                                    \/ dFlush'.batch \subseteq Delivery!ToSet(dBuffer') \ dAwaiting'
  BY <1>3
<1>10. \A r \in dAwaiting \cup dAcked : r \in dAwaiting' \cup dAcked'
  OBVIOUS
<1> QED
  BY <1>2, <1>4, <1>5, <1>6, <1>7, <1>8, <1>9, <1>10, DeliverySends

\* A rejected wake leaves its batch to the fallback.
LEMMA DeliveryRejectedSafe ==
  ASSUME Delivery!IInv, ~Delivery!Quiet, NEW batch \in SUBSET Runs,
         \A r \in batch : Delivery!InBuffer(r) /\ r \notin dAwaiting /\ r \notin dAcked,
         Delivery!Throw(batch), Delivery!Mark(Delivery!Appended \cap Delivery!ToSet(dBuffer), dBuffer, dAwaiting),
         Delivery!Triggers(batch), dAttempted' = dAttempted \cup Delivery!ToSet(dBuffer),
         dWoken' = [dWoken EXCEPT ![Delivery!Last(dBuffer)] = @ + 1], dClash' = (dClash \/ dPhase # "idle"),
         dWakePending' = FALSE, dFlush' = [at |-> "fallback", used |-> TRUE, batch |-> batch],
         UNCHANGED <<dLive, dBackground, dAttached, dAgentIdle, dMicro, dTold, dFailing, dSilent, dTimer,
                     dRetries, dShown, dPhase>>,
         dAttempted' \subseteq Runs, dWoken' \in [Runs -> Nat], dClash' \in BOOLEAN
  PROVE  Delivery!IInv'
<1>1. {} \in SUBSET batch /\ dAwaiting \cup {} = dAwaiting
  OBVIOUS
<1>2. Delivery!Mark(Delivery!Appended \cap Delivery!ToSet(dBuffer), dBuffer, dAwaiting \cup {})
  BY <1>1
<1>3. /\ dBuffer' \in Seq(Runs) /\ Within(dBuffer', dBuffer) /\ dAwaiting' \subseteq Runs /\ dAcked' \subseteq Runs
      /\ dDelivered' \subseteq Runs /\ dReceipts' \subseteq Runs
      /\ \A r \in dAwaiting \cup dAcked : r \in dAwaiting' \cup dAcked'
      /\ \A r \in dAcked' : r \notin Delivery!ToSet(dBuffer')
      /\ \A r \in dAcked' \cup dDelivered' \cup dReceipts' :
           r \in dAcked \cup dDelivered \cup dReceipts \/ (r \in Runs /\ dEntries'[r] > 0)
      /\ \A r \in Runs : dEntries'[r] > 0 => r \notin Delivery!ToSet(dBuffer')
      /\ \/ /\ dEntries' = dEntries /\ dAcked' = dAcked /\ dAwaiting' = dAwaiting \cup {}
            /\ Delivery!ToSet(dBuffer') = Delivery!ToSet(dBuffer)
         \/ /\ dInbox' = dInbox /\ dAcked' = dAcked \cup batch /\ dAwaiting' = dAwaiting
            /\ \A r \in batch : dEntries'[r] > 0
  BY <1>1, <1>2, DeliverySentIs
<1>4. /\ dEntries' \in [Runs -> Nat] /\ dInbox' = dInbox
      /\ \A r \in Runs : dEntries'[r] = dEntries[r] \/ (r \in batch /\ dEntries'[r] = dEntries[r] + 1)
  BY DeliveryTakeIs DEF Delivery!Throw
<1>5. dFlush' \in [at : {"off", "loop", "fallback"}, used : BOOLEAN, batch : SUBSET Runs] /\ dFlush'.at = "fallback" /\ dFlush'.batch = batch
  OBVIOUS
<1>6. Delivery!TypeOK' /\ Delivery!Typed'
  BY <1>3, <1>4, <1>5, DeliveryTypes DEF Delivery!TypeOK, Delivery!Typed
<1>7. Delivery!Calm'
  <2>1. dAgentIdle /\ ~dWakePending
    BY DEF Delivery!Triggers
  <2>2. dPhase = "idle"
    BY <2>1 DEF Delivery!IInv, Delivery!Calm
  <2> QED
    BY <2>2 DEF Delivery!Calm
<1>8. \/ dFlush'.batch \subseteq Delivery!Observed'
      \/ dFlush'.batch \subseteq Delivery!ToSet(dBuffer') \ dAwaiting'
  BY <1>3, <1>5 DEF Delivery!Observed, Delivery!InBuffer
<1>9. /\ dFlush'.at # "off" => \A r \in Runs : dEntries'[r] > 0 => r \notin Delivery!ToSet(dBuffer')
      /\ dFlush'.at = "fallback" => \/ dFlush'.batch \subseteq Delivery!Observed'
                                    \/ dFlush'.batch \subseteq Delivery!ToSet(dBuffer') \ dAwaiting'
  BY <1>3, <1>8
<1> QED
  BY <1>3, <1>4, <1>6, <1>7, <1>9, DeliverySends

\* What a wake is requested with: all that is buffered has been asked for, and
\* woken is a count still.
LEMMA DeliveryWakeTypes ==
  ASSUME Delivery!IInv, NEW batch \in Delivery!Batches, Delivery!Attempt, dWoken' = [dWoken EXCEPT ![Delivery!Last(dBuffer)] = @ + 1],
         dClash' = (dClash \/ dPhase # "idle")
  PROVE  dAttempted' \subseteq Runs /\ dWoken' \in [Runs -> Nat] /\ dClash' \in BOOLEAN
         /\ dAttempted' = dAttempted \cup Delivery!ToSet(dBuffer)
<1>1. dBuffer \in Seq(Runs) /\ dAttempted \subseteq Runs /\ dWoken \in [Runs -> Nat]
  BY DeliveryTypes DEF Delivery!TypeOK
<1>2. Delivery!ToSet(dBuffer) \subseteq Runs
  BY <1>1 DEF Delivery!ToSet
<1>3. dWoken' \in [Runs -> Nat]
  <2> DEFINE l == Delivery!Last(dBuffer)
  <2>1. dWoken' = [dWoken EXCEPT ![l] = dWoken[l] + 1]
    OBVIOUS
  <2> HIDE DEF l
  <2>2. \A r \in Runs : dWoken'[r] = (IF r = l THEN dWoken[r] + 1 ELSE dWoken[r])
    BY <1>1, <2>1
  <2>3. dWoken' = [r \in Runs |-> dWoken'[r]]
    BY <1>1, <2>1
  <2>4. \A r \in Runs : dWoken'[r] \in Nat
    BY <1>1, <2>2
  <2> QED
    BY <2>3, <2>4
<1> QED
  BY <1>1, <1>2, <1>3 DEF Delivery!Attempt

LEMMA DeliverySendSafe == ASSUME Delivery!IInv, Delivery!Send PROVE Delivery!IInv'
<1>1. dFlush.at = "loop" /\ ~Delivery!Quiet
  BY DEF Delivery!Send, Delivery!heard, Delivery!Quiet
<1>2. PICK batch \in Delivery!Batches :
        IF Delivery!Triggers(batch)
        THEN /\ Delivery!Attempt
             /\ dWoken' = [dWoken EXCEPT ![Delivery!Last(dBuffer)] = @ + 1]
             /\ dClash' = (dClash \/ dPhase # "idle")
             /\ \/ /\ Delivery!Take(batch) /\ Delivery!Accepted(batch)
                   /\ dWakePending' = TRUE /\ dPhase' = "waking"
                   /\ dFlush' = [dFlush EXCEPT !.used = TRUE]
                \/ /\ Delivery!Throw(batch)
                   /\ Delivery!Mark(Delivery!Appended \cap Delivery!ToSet(dBuffer), dBuffer, dAwaiting)
                   /\ dWakePending' = FALSE
                   /\ dFlush' = [at |-> "fallback", used |-> TRUE, batch |-> batch]
                   /\ UNCHANGED <<Delivery!retry, dPhase>>
        ELSE /\ \/ Delivery!Take(batch) /\ Delivery!Accepted(batch) /\ UNCHANGED dFlush
                \/ /\ Delivery!Throw(batch) /\ Delivery!RetryDelivery(dRetries, dAgentIdle, dTimer)
                   /\ dFlush' = Delivery!Off
                   /\ UNCHANGED <<Delivery!queue, Delivery!store, dBudget>>
             /\ UNCHANGED <<Delivery!wakes, dPhase>>
  BY DEF Delivery!Send
<1>3. UNCHANGED <<dLive, dBackground, dAttached, dAgentIdle, dMicro, dTold, dFailing, dSilent>>
  BY DEF Delivery!Send, Delivery!heard, Delivery!runs
<1>4. batch \in SUBSET Runs /\ \A r \in batch : Delivery!InBuffer(r) /\ r \notin dAwaiting /\ r \notin dAcked
  BY DeliveryBatchIs
<1>5. dFlush \in [at : {"off", "loop", "fallback"}, used : BOOLEAN, batch : SUBSET Runs] /\ dPhase \in Delivery!Phases
      /\ dWakePending \in BOOLEAN /\ dAttempted \subseteq Runs /\ dWoken \in [Runs -> Nat] /\ dClash \in BOOLEAN
  BY DeliveryTypes DEF Delivery!Typed, Delivery!TypeOK
<1>6. CASE Delivery!Triggers(batch) /\ Delivery!Take(batch) /\ Delivery!Accepted(batch) /\ dWakePending' = TRUE /\ dPhase' = "waking"
           /\ dFlush' = [dFlush EXCEPT !.used = TRUE] /\ Delivery!Attempt
           /\ dWoken' = [dWoken EXCEPT ![Delivery!Last(dBuffer)] = @ + 1] /\ dClash' = (dClash \/ dPhase # "idle")
  <2>1. dAttempted' \subseteq Runs /\ dWoken' \in [Runs -> Nat] /\ dClash' \in BOOLEAN
        /\ dAttempted' = dAttempted \cup Delivery!ToSet(dBuffer)
    BY <1>6, DeliveryWakeTypes
  <2>2. Delivery!Typed' /\ dFlush'.at = "loop"
    BY <1>1, <1>5, <1>6 DEF Delivery!Typed
  <2>3. Delivery!Calm' /\ dPhase' \in Delivery!Phases /\ dWakePending' \in BOOLEAN
    BY <1>6 DEF Delivery!Calm, Delivery!Phases
  <2> QED
    BY <1>1, <1>3, <1>4, <1>6, <2>1, <2>2, <2>3, DeliveryTakenSafe
<1>7. CASE Delivery!Triggers(batch) /\ Delivery!Throw(batch) /\ Delivery!Mark(Delivery!Appended \cap Delivery!ToSet(dBuffer), dBuffer, dAwaiting)
           /\ dWakePending' = FALSE /\ dFlush' = [at |-> "fallback", used |-> TRUE, batch |-> batch]
           /\ UNCHANGED <<Delivery!retry, dPhase>> /\ Delivery!Attempt
           /\ dWoken' = [dWoken EXCEPT ![Delivery!Last(dBuffer)] = @ + 1] /\ dClash' = (dClash \/ dPhase # "idle")
  <2>1. dAttempted' \subseteq Runs /\ dWoken' \in [Runs -> Nat] /\ dClash' \in BOOLEAN
        /\ dAttempted' = dAttempted \cup Delivery!ToSet(dBuffer)
    BY <1>7, DeliveryWakeTypes
  <2>2. UNCHANGED <<dTimer, dRetries, dShown, dPhase>>
    BY <1>7 DEF Delivery!retry
  <2> QED
    BY <1>1, <1>3, <1>4, <1>7, <2>1, <2>2, DeliveryRejectedSafe
<1>8. CASE Delivery!Take(batch) /\ Delivery!Accepted(batch) /\ UNCHANGED dFlush /\ UNCHANGED <<Delivery!wakes, dPhase>>
  <2>1. UNCHANGED <<dAttempted, dWakePending, dWoken, dClash, dPhase, dFlush>>
    BY <1>8 DEF Delivery!wakes
  <2>2. Delivery!Typed' /\ dFlush'.at = "loop"
    BY <1>1, <1>5, <2>1 DEF Delivery!Typed
  <2>3. Delivery!Calm' /\ dPhase' \in Delivery!Phases /\ dWakePending' \in BOOLEAN /\ dAttempted' \subseteq Runs
        /\ dWoken' \in [Runs -> Nat] /\ dClash' \in BOOLEAN
    BY <1>3, <1>5, <2>1 DEF Delivery!IInv, Delivery!Calm, Delivery!Quiet
  <2> QED
    BY <1>1, <1>3, <1>4, <1>8, <2>1, <2>2, <2>3, DeliveryTakenSafe
<1>9. CASE /\ Delivery!Throw(batch) /\ Delivery!RetryDelivery(dRetries, dAgentIdle, dTimer)
           /\ dFlush' = Delivery!Off /\ UNCHANGED <<Delivery!queue, Delivery!store, dBudget>> /\ UNCHANGED <<Delivery!wakes, dPhase>>
  <2>1. UNCHANGED <<dBuffer, dAwaiting, dAcked, dDelivered, dReceipts, dAttempted, dWakePending, dWoken, dClash, dPhase>>
    BY <1>9 DEF Delivery!queue, Delivery!store, Delivery!wakes
  <2> QED
    BY <1>1, <1>3, <1>4, <1>9, <2>1, DeliveryThrownSafe
<1> QED
  BY <1>2, <1>6, <1>7, <1>8, <1>9

\* After a rejected wake: what was appended is awaited; what was not is sent.
LEMMA DeliveryFallbackSafe == ASSUME Delivery!IInv, Delivery!Fallback PROVE Delivery!IInv'
<1>1. /\ dFlush.at = "fallback" /\ ~Delivery!Quiet
      /\ UNCHANGED <<dLive, dBackground, dAttached, dAttempted, dWakePending, dWoken, dClash, dAgentIdle,
                     dMicro, dPhase, dTold, dFailing, dSilent>>
  BY DEF Delivery!Fallback, Delivery!heard, Delivery!Quiet, Delivery!runs, Delivery!wakes
<1>2. dFlush \in [at : {"off", "loop", "fallback"}, used : BOOLEAN, batch : SUBSET Runs] /\ dPhase \in Delivery!Phases
      /\ dWakePending \in BOOLEAN /\ dAttempted \subseteq Runs /\ dWoken \in [Runs -> Nat] /\ dClash \in BOOLEAN
  BY DeliveryTypes DEF Delivery!Typed, Delivery!TypeOK
<1>3. CASE dFlush.batch \subseteq Delivery!Observed
  <2>1. /\ dAwaiting' = dAwaiting \cup (dFlush.batch \ dAcked)
        /\ dFlush' = [dFlush EXCEPT !.at = "loop", !.batch = {}]
        /\ UNCHANGED <<dBuffer, dAcked, dDelivered, dReceipts, dTimer, dRetries, dShown, dInbox, dEntries>>
    BY <1>3 DEF Delivery!Fallback, Delivery!store, Delivery!retry
  <2>2. dFlush' \in [at : {"off", "loop", "fallback"}, used : BOOLEAN, batch : SUBSET Runs] /\ dFlush'.at = "loop"
    BY <1>2, <2>1
  <2>3. dAwaiting' \subseteq Runs
    BY <1>2, <2>1, DeliveryTypes DEF Delivery!TypeOK
  <2>4. Delivery!TypeOK' /\ Delivery!Typed'
    BY <1>1, <2>1, <2>2, <2>3, DeliveryTypes DEF Delivery!TypeOK, Delivery!Typed
  <2>5. Delivery!Calm' /\ Delivery!Due'
    BY <1>1, <2>1, <2>2 DEF Delivery!IInv, Delivery!Calm, Delivery!Quiet, Delivery!Due
  <2>6. Within(dBuffer', dBuffer)
    BY <2>1, DeliveryWithinItself, DeliveryTypes DEF Delivery!TypeOK
  <2>7. \A r \in dAcked' : r \notin Delivery!ToSet(dBuffer')
    BY <2>1 DEF Delivery!IInv, Delivery!Unsaid, Delivery!InBuffer
  <2>8. dAcked' \cup dDelivered' \cup dReceipts' \subseteq Delivery!Observed \cup dTold' \cup dFailing' \cup dSilent'
    BY <1>1, <2>1 DEF Delivery!IInv, Delivery!ToldOnce, Delivery!DeliveredOnce
  <2>9. \A r \in dAwaiting \cup dAcked : r \in dAwaiting' \cup dAcked'
    BY <2>1
  <2>10. dFlush'.at # "off" => \A r \in Delivery!Observed : r \notin Delivery!ToSet(dBuffer')
    BY <1>1, <2>1 DEF Delivery!IInv, Delivery!Unsaid, Delivery!InBuffer
  <2>11. dFlush'.at # "fallback" /\ \A r \in Runs : dLive[r] = "ended" => dLive'[r] = "ended"
    BY <1>1, <2>2
  <2> QED
    BY <1>1, <2>1, <2>4, <2>5, <2>6, <2>7, <2>8, <2>9, <2>10, <2>11, DeliveryKeeps
<1>4. CASE ~(dFlush.batch \subseteq Delivery!Observed)
  <2>1. \/ /\ Delivery!Take(dFlush.batch) /\ Delivery!Accepted(dFlush.batch)
           /\ dFlush' = [dFlush EXCEPT !.at = "loop", !.batch = {}]
        \/ /\ Delivery!Throw(dFlush.batch) /\ Delivery!RetryDelivery(dRetries, dAgentIdle, dTimer)
           /\ dFlush' = Delivery!Off
           /\ UNCHANGED <<dBuffer, dAwaiting, dAcked, dDelivered, dReceipts>>
    BY <1>4 DEF Delivery!Fallback, Delivery!queue, Delivery!store
  <2>2. dFlush.batch \in SUBSET Runs
    BY <1>2
  <2>3. \A r \in dFlush.batch : Delivery!InBuffer(r) /\ r \notin dAwaiting /\ r \notin dAcked
    BY <1>1, <1>4 DEF Delivery!IInv, Delivery!Unsaid, Delivery!InBuffer
  <2>4. CASE Delivery!Take(dFlush.batch) /\ Delivery!Accepted(dFlush.batch) /\ dFlush' = [dFlush EXCEPT !.at = "loop", !.batch = {}]
    <3>1. Delivery!Typed' /\ dFlush'.at = "loop"
      BY <1>2, <2>4 DEF Delivery!Typed
    <3>2. Delivery!Calm' /\ dPhase' \in Delivery!Phases /\ dWakePending' \in BOOLEAN /\ dAttempted' \subseteq Runs
          /\ dWoken' \in [Runs -> Nat] /\ dClash' \in BOOLEAN
      BY <1>1, <1>2 DEF Delivery!IInv, Delivery!Calm, Delivery!Quiet
    <3> QED
      BY <1>1, <2>2, <2>3, <2>4, <3>1, <3>2, DeliveryTakenSafe
  <2>5. CASE /\ Delivery!Throw(dFlush.batch) /\ Delivery!RetryDelivery(dRetries, dAgentIdle, dTimer) /\ dFlush' = Delivery!Off
             /\ UNCHANGED <<dBuffer, dAwaiting, dAcked, dDelivered, dReceipts>>
    BY <1>1, <2>2, <2>3, <2>5, DeliveryThrownSafe
  <2> QED
    BY <2>1, <2>4, <2>5
<1> QED
  BY <1>3, <1>4

-----------------------------------------------------------------------------
(* The theorem.                                                            *)

LEMMA DeliveryInitSafe == ASSUME Delivery!Init PROVE Delivery!IInv
<1>1. Cardinality(Runs) \in Nat /\ Cardinality({r \in Runs : dLive[r] # "ended"}) <= Cardinality(Runs)
  <2>1. {r \in Runs : dLive[r] # "ended"} \in SUBSET Runs /\ Runs \in SUBSET Runs
    OBVIOUS
  <2> QED
    BY <2>1, DeliveryOpenRuns
<1>2. Delivery!TypeOK /\ Delivery!Typed
  <2>1. dBuffer \in Seq(Runs) /\ dInbox \in Seq(SUBSET Runs)
    BY DEF Delivery!Init
  <2>2. dRetries \in 0 .. MaxRetries /\ dMicro \in 0 .. Cardinality(Runs) + 1
    BY <1>1, DeliveryAssumption DEF Delivery!Init
  <2>3. dPhase \in Delivery!Phases
    BY DEF Delivery!Init, Delivery!Phases
  <2> QED
    BY DeliverySize, <2>1, <2>2, <2>3 DEF Delivery!Init, Delivery!TypeOK, Delivery!Typed, Delivery!Off
<1>3. DOMAIN dBuffer = {} /\ DOMAIN dInbox = {}
  BY DEF Delivery!Init
<1>4. Delivery!Past /\ Delivery!Queued /\ Delivery!Asked
  BY <1>3 DEF Delivery!Init, Delivery!Past, Delivery!Queued, Delivery!Asked, Delivery!InBuffer,
     Delivery!ToSet
<1>5. Delivery!Unsaid /\ Delivery!Calm
  BY DEF Delivery!Init, Delivery!Unsaid, Delivery!Calm, Delivery!Quiet, Delivery!Off
<1>6. Delivery!Due
  <2>1. \A k, n \in Nat : k <= n => 0 + k <= n + 1
    OBVIOUS
  <2>2. {r \in Runs : dLive[r] # "ended"} \in SUBSET Runs
    OBVIOUS
  <2>3. Cardinality({r \in Runs : dLive[r] # "ended"}) \in Nat
    BY <2>2, DeliveryOpenRuns
  <2>4. dMicro = 0
    BY DEF Delivery!Init
  <2> QED
    BY DeliverySize, <1>1, <2>1, <2>3, <2>4 DEF Delivery!Due
<1>7. Delivery!ToldOnce
  <2>1. Delivery!Observed = {}
    BY DEF Delivery!Init, Delivery!Observed
  <2> QED
    BY <1>2, <2>1 DEF Delivery!Init, Delivery!ToldOnce, Delivery!DeliveredOnce, Delivery!OneWakePerFlush
<1> QED
  BY <1>2, <1>4, <1>5, <1>6, <1>7 DEF Delivery!IInv

\* Nothing changes.
LEMMA DeliveryStutterSafe == ASSUME Delivery!IInv, UNCHANGED Delivery!vars PROVE Delivery!IInv'
<1>1. UNCHANGED <<dLive, dBackground, dAttached, dBuffer, dAwaiting, dAcked, dAttempted, dWakePending, dAgentIdle, dTimer,
                  dRetries, dShown, dFlush, dMicro, dDelivered, dReceipts, dPhase, dInbox, dEntries, dTold,
                  dFailing, dSilent, dWoken, dClash>>
  BY DEF Delivery!vars
<1>2. Delivery!Typed' /\ Delivery!Past' /\ Delivery!Queued' /\ Delivery!Unsaid'
  BY <1>1 DEF Delivery!IInv, Delivery!Typed, Delivery!Past, Delivery!Queued, Delivery!Unsaid,
     Delivery!InBuffer, Delivery!Observed, Delivery!Quiet
<1>3. Delivery!Asked' /\ Delivery!Calm' /\ Delivery!Due'
  BY <1>1 DEF Delivery!IInv, Delivery!Asked, Delivery!Calm, Delivery!Due, Delivery!Quiet
<1>4. Delivery!ToldOnce'
  BY <1>1 DEF Delivery!IInv, Delivery!ToldOnce, Delivery!DeliveredOnce, Delivery!OneWakePerFlush,
     Delivery!Observed, Delivery!TypeOK
<1> QED
  BY <1>2, <1>3, <1>4 DEF Delivery!IInv

LEMMA DeliveryNextSafe == ASSUME Delivery!IInv, [Delivery!Next]_(Delivery!vars) PROVE Delivery!IInv'
<1>1. CASE Delivery!HostSteps
  BY <1>1, DeliverySendSafe, DeliveryFallbackSafe, DeliveryFlushEndSafe, DeliveryMicrotaskSafe,
     DeliveryTimerSafe, DeliveryCompleteSafe DEF Delivery!HostSteps
<1>2. CASE Delivery!AgentSteps
  BY <1>2, DeliveryBeginSafe, DeliveryAgentStartSafe, DeliveryAgentSettledSafe, DeliveryTurnsIdleSafe
     DEF Delivery!AgentSteps
<1>3. CASE Delivery!WakeFails \/ Delivery!TurnEnd \/ Delivery!Land \/ Delivery!Restart
  BY <1>3, DeliveryWakeFailsSafe, DeliveryTurnEndSafe, DeliveryLandSafe, DeliveryRestartSafe
<1>4. ASSUME NEW r \in Runs, Delivery!Dispatch(r) \/ Delivery!DispatchFails(r) \/ Delivery!DispatchThrows(r)
      PROVE  Delivery!IInv'
  BY <1>4, DeliveryDispatchSafe, DeliveryDispatchFailsSafe, DeliveryDispatchThrowsSafe
<1>6. ASSUME NEW r \in Runs, Delivery!Settle(r) \/ Delivery!Hub(r) \/ Delivery!SaveReceipt(r)
      PROVE  Delivery!IInv'
  BY <1>6, DeliverySettleSafe, DeliveryHubSafe, DeliverySaveReceiptSafe
<1>5. CASE UNCHANGED Delivery!vars
  BY <1>5, DeliveryStutterSafe
<1> QED
  BY <1>1, <1>2, <1>3, <1>4, <1>5, <1>6 DEF Delivery!Next

\* The inductive invariant holds in every reachable state.
THEOREM DeliveryKept == Delivery!Spec => []Delivery!IInv
<1>1. Delivery!Init => Delivery!IInv
  BY DeliveryInitSafe
<1>2. Delivery!IInv /\ [Delivery!Next]_(Delivery!vars) => Delivery!IInv'
  BY DeliveryNextSafe
<1> QED
  BY <1>1, <1>2, PTL DEF Delivery!Spec

\* Whatever is queued, rejected after it was appended, lost, or recovered by a new
\* host: a completion is in the transcript once at most, what counts as delivered has
\* reached the parent, is about to, or belongs to a failing dispatch whose host went
\* away; and a wake is asked for with no completion twice and of no agent that runs.
THEOREM CompletionsAreToldOnce == Delivery!Spec => []ToldOnce
<1>1. Delivery!IInv => ToldOnce
  BY DEF ToldOnce, Delivery!IInv
<1> QED
  BY <1>1, DeliveryKept, PTL

-----------------------------------------------------------------------------
(* A dispatch, HostDispatch, as the instance Dispatch of MCRuns.           *)

\* The numbers are well ordered, which the library states of an operator.
LEMMA DispatchNumbersWellFounded ==
  \E R \in SUBSET (Nat \X Nat) :
    IsWellFoundedOn(R, Nat) /\ \A x, y \in Nat : x < y => <<x, y>> \in R
<1>1. IsWellFoundedOn(OpToRel(<, Nat), Nat)
  BY NatLessThanWellFounded
<1>2. \A x, y \in Nat : x < y => <<x, y>> \in OpToRel(<, Nat)
  BY DEF OpToRel
<1>3. OpToRel(<, Nat) \in SUBSET (Nat \X Nat)
  BY DEF OpToRel
<1> QED
  BY <1>1, <1>2, <1>3, Zenon

\* A set of numbers has a least one.
LEMMA DispatchLeastNumber == ASSUME NEW S \in SUBSET Nat, S # {} PROVE \E n \in S : \A m \in S : n <= m
<1>1. PICK R \in SUBSET (Nat \X Nat) :
        IsWellFoundedOn(R, Nat) /\ \A x, y \in Nat : x < y => <<x, y>> \in R
  BY DispatchNumbersWellFounded, Zenon
<1>2. IsWellFoundedOn(R, Nat) /\ S \subseteq Nat
  BY <1>1
<1>3. PICK n \in S : \A y \in S : ~ (<<y, n>> \in R)
  BY <1>2, WFMin
<1>4. \A m \in S : ~(m < n) /\ m \in Nat /\ n \in Nat
  BY <1>1, <1>3
<1> QED
  BY <1>4

\* The first open step is one of the chain that is not out, or the Claude tier.
LEMMA DispatchFirstOpen ==
  ASSUME NEW shut \in SUBSET (1 .. Tiers)
  PROVE  Dispatch!FirstOpen(shut) = Dispatch!Claude \/ Dispatch!FirstOpen(shut) \in (1 .. Tiers) \ (Dispatch!Out \cup shut)
<1> DEFINE open == (1 .. Tiers) \ (Dispatch!Out \cup shut)
<1>1. CASE open = {}
  BY <1>1 DEF Dispatch!FirstOpen
<1>2. CASE open # {}
  <2>1. open \in SUBSET Nat
    BY DispatchAssumption
  <2>2. \E t \in open : \A u \in open : t <= u
    BY <1>2, <2>1, DispatchLeastNumber
  <2>3. Dispatch!FirstOpen(shut) = CHOOSE t \in open : \A u \in open : t <= u
    BY <1>2 DEF Dispatch!FirstOpen
  <2> HIDE DEF open
  <2>4. Dispatch!FirstOpen(shut) \in open
    BY <2>2, <2>3
  <2> QED
    BY <2>4 DEF open
<1> QED
  BY <1>1, <1>2

\* Between waves the workers have ended.
LEMMA DispatchSettled == ASSUME Dispatch!IInv, xAt \in {"route", "gate"} PROVE Dispatch!Settled /\ xOutcome = "none"
BY DEF Dispatch!IInv, Dispatch!Clean, Dispatch!Between, Dispatch!Placed, Dispatch!Launched,
   Dispatch!Settled

LEMMA DispatchRouteSafe == ASSUME Dispatch!IInv, Dispatch!Route PROVE Dispatch!IInv'
<1>1. PICK shut \in SUBSET (1 .. Tiers) :
        /\ xRoute' = [xRoute EXCEPT ![xWave + 1] = Dispatch!FirstOpen(shut)]
        /\ \/ xAt' = "gate" /\ UNCHANGED xOutcome
           \/ Dispatch!FirstOpen(shut) = Dispatch!Claude /\ Dispatch!Ends("error")
  BY DEF Dispatch!Route
<1>2. /\ xAt = "route" /\ xKind = "implicit"
      /\ UNCHANGED <<xKind, xBackground, xWave, xWork, xOut, xLeft, xSnap, xWhy, xAborted, xCancelled, xLoud, xTold>>
  BY DEF Dispatch!Route
<1>3. Dispatch!FirstOpen(shut) \in 1 .. Dispatch!Claude /\ (Dispatch!FirstOpen(shut) = Dispatch!Claude \/ Dispatch!FirstOpen(shut) \in (1 .. Tiers) \ Dispatch!Out)
  <2>1. Dispatch!FirstOpen(shut) = Dispatch!Claude \/ Dispatch!FirstOpen(shut) \in (1 .. Tiers) \ Dispatch!Out
    BY DispatchFirstOpen
  <2>2. Dispatch!Claude \in 1 .. Dispatch!Claude /\ 1 .. Tiers \subseteq 1 .. Dispatch!Claude
    BY DispatchAssumption DEF Dispatch!Claude
  <2> QED
    BY <2>1, <2>2
<1> PICK t \in 1 .. Dispatch!Claude : t = Dispatch!FirstOpen(shut)
  BY <1>3
<1>4. xWave \in 0 .. MaxFalls /\ xWave + 1 \in Dispatch!Wave /\ 1 .. xWave \subseteq Dispatch!Wave
  BY <1>2, DispatchAssumption DEF Dispatch!IInv, Dispatch!Clean, Dispatch!Between,
     Dispatch!DispatchSound, Dispatch!TypeOK, Dispatch!Wave
<1>5. xRoute' \in [Dispatch!Wave -> 0 .. Dispatch!Claude] /\ \A i \in Dispatch!Wave : xRoute'[i] = IF i = xWave + 1 THEN t ELSE xRoute[i]
  BY <1>1, <1>4, DispatchAssumption DEF Dispatch!IInv, Dispatch!Typed, Dispatch!Claude
<1>6. ASSUME NEW i \in 1 .. xWave PROVE i \in Dispatch!Wave /\ Dispatch!Moved(i) /\ xRoute'[i] = xRoute[i]
  <2>1. i \in Dispatch!Wave /\ i # xWave + 1
    BY <1>4
  <2>2. Dispatch!Moved(i)
    BY <1>2 DEF Dispatch!IInv, Dispatch!Refusals, Dispatch!Between
  <2> QED
    BY <1>5, <2>1, <2>2
<1>7. ASSUME NEW i \in 1 .. xWave PROVE Dispatch!Further(i, t)
  <2>1. /\ xRoute[i] \in 1 .. Tiers
        /\ xWhy[i] = "ensure" \/ (xWhy[i] = "quota" /\ xRoute[i] \in Gated)
    BY <1>6 DEF Dispatch!Moved
  <2>2. CASE t = Dispatch!Claude
    BY <2>1, <2>2, DispatchAssumption DEF Dispatch!Further, Dispatch!Claude
  <2>3. CASE t # Dispatch!Claude
    <3>1. t \in 1 .. Tiers /\ t \notin Dispatch!Spent /\ t \notin Dispatch!Held
      BY <1>3, <2>3 DEF Dispatch!Out
    <3>2. CASE xWhy[i] = "ensure"
      BY <2>1, <3>1, <3>2 DEF Dispatch!Held, Dispatch!Further
    <3>3. CASE xWhy[i] = "quota"
      <4>1. \A u \in Gated : u <= xRoute[i] => u \in Dispatch!Spent
        BY <3>3 DEF Dispatch!Spent
      <4>2. t \in Gated => t > xRoute[i]
        BY <2>1, <3>1, <4>1, DispatchAssumption
      <4>3. xRoute[i] # t
        BY <2>1, <3>1, <3>3, <4>1, DispatchAssumption
      <4> QED
        BY <2>3, <4>2, <4>3 DEF Dispatch!Further
    <3> QED
      BY <2>1, <3>2, <3>3
  <2> QED
    BY <2>2, <2>3
<1>8. /\ xAt' \in {"gate", "over"} /\ (xAt' = "gate" => xOutcome' = "none") /\ (xAt' = "over" => xOutcome' = "error")
  BY <1>1, <1>2, DispatchSettled DEF Dispatch!Ends
<1>9. Dispatch!Typed' /\ Dispatch!Clean' /\ Dispatch!Placed' /\ Dispatch!Launched'
  BY <1>2, <1>5, <1>6, <1>8 DEF Dispatch!IInv, Dispatch!Typed, Dispatch!Clean, Dispatch!Between,
     Dispatch!Placed, Dispatch!Launched
<1>10. Dispatch!Refusals'
  BY <1>2, <1>5, <1>6 DEF Dispatch!IInv, Dispatch!Refusals, Dispatch!Moved, Dispatch!Wave
<1>11. Dispatch!GateIsNew'
  <2>1. ASSUME NEW i \in 1 .. xWave PROVE Dispatch!Further(i, t)'
    BY <1>2, <1>5, <1>6, <1>7 DEF Dispatch!Further
  <2>2. xRoute'[xWave + 1] = t /\ t # 0
    BY <1>4, <1>5, DispatchAssumption DEF Dispatch!Claude
  <2>3. \A i \in 1 .. xWave' : Dispatch!Further(i, xRoute[xWave + 1])'
    BY <1>2, <2>1, <2>2 DEF Dispatch!Further
  <2> QED
    BY <1>2, <2>2, <2>3 DEF Dispatch!GateIsNew
<1>12. Dispatch!TypeOK' /\ Dispatch!NothingRepeated' /\ Dispatch!DownTheChain'
  BY <1>2, <1>5, <1>6 DEF Dispatch!IInv, Dispatch!DispatchSound, Dispatch!Typed, Dispatch!TypeOK,
     Dispatch!NothingRepeated, Dispatch!DownTheChain, Dispatch!Wave
<1>13. Dispatch!HeardOnce'
  <2>1. Dispatch!Settled' /\ ~xLoud /\ xTold = 0
    BY <1>2, DispatchSettled DEF Dispatch!Settled, Dispatch!IInv, Dispatch!Typed,
       Dispatch!DispatchSound, Dispatch!HeardOnce
  <2> QED
    BY <1>2, <1>8, <2>1 DEF Dispatch!HeardOnce
<1> QED
  BY <1>9, <1>10, <1>11, <1>12, <1>13 DEF Dispatch!IInv, Dispatch!DispatchSound

LEMMA DispatchRouteExplicitSafe == ASSUME Dispatch!IInv, Dispatch!RouteExplicit PROVE Dispatch!IInv'
<1>1. PICK t \in 1 .. Dispatch!Claude : xRoute' = [xRoute EXCEPT ![1] = t]
  BY DEF Dispatch!RouteExplicit
<1>2. /\ xAt = "route" /\ xKind # "implicit"
      /\ UNCHANGED <<xKind, xBackground, xWave, xWork, xOut, xLeft, xSnap, xWhy, xAborted, xCancelled, xLoud, xTold>>
  BY DEF Dispatch!RouteExplicit
<1>3. xWave = 0 /\ 1 \in Dispatch!Wave
  <2>1. \A i \in 1 .. xWave : xKind = "implicit"
    BY <1>2 DEF Dispatch!IInv, Dispatch!Refusals, Dispatch!Between, Dispatch!Moved
  <2> QED
    BY <1>2, <2>1, DispatchAssumption DEF Dispatch!IInv, Dispatch!DispatchSound, Dispatch!TypeOK,
       Dispatch!Wave
<1>4. xRoute' \in [Dispatch!Wave -> 0 .. Dispatch!Claude] /\ xRoute'[1] = t /\ t # 0
  BY <1>1, <1>3, DispatchAssumption DEF Dispatch!IInv, Dispatch!Typed, Dispatch!Claude
<1>5. /\ xAt' \in {"gate", "over"} /\ (xAt' = "gate" => xOutcome' = "none") /\ (xAt' = "over" => xOutcome' = "error")
  BY <1>2, DispatchSettled DEF Dispatch!Ends, Dispatch!RouteExplicit
<1>6. Dispatch!Typed' /\ Dispatch!Clean' /\ Dispatch!Placed' /\ Dispatch!Launched' /\ Dispatch!Refusals' /\ Dispatch!GateIsNew'
  BY <1>2, <1>3, <1>4, <1>5 DEF Dispatch!IInv, Dispatch!Typed, Dispatch!Clean, Dispatch!Between,
     Dispatch!Placed, Dispatch!Launched, Dispatch!Refusals, Dispatch!GateIsNew
<1>7. Dispatch!TypeOK' /\ Dispatch!NothingRepeated' /\ Dispatch!DownTheChain'
  BY <1>2, <1>3, <1>4, <1>6 DEF Dispatch!IInv, Dispatch!DispatchSound, Dispatch!Typed, Dispatch!TypeOK,
     Dispatch!NothingRepeated, Dispatch!DownTheChain, Dispatch!Wave
<1>8. Dispatch!HeardOnce'
  <2>1. Dispatch!Settled' /\ ~xLoud /\ xTold = 0
    BY <1>2, DispatchSettled DEF Dispatch!Settled, Dispatch!IInv, Dispatch!Typed,
       Dispatch!DispatchSound, Dispatch!HeardOnce
  <2> QED
    BY <1>2, <1>5, <2>1 DEF Dispatch!HeardOnce
<1> QED
  BY <1>6, <1>7, <1>8 DEF Dispatch!IInv, Dispatch!DispatchSound

\* The dispatch ends before it launches again.
LEMMA DispatchAbortedSafe == ASSUME Dispatch!IInv, Dispatch!RouteAborted \/ Dispatch!LaunchAborted PROVE Dispatch!IInv'
<1>1. /\ xAt \in {"route", "gate"} /\ xAt' = "over" /\ xOutcome' = "cancelled"
      /\ UNCHANGED <<xKind, xBackground, xWave, xRoute, xWork, xOut, xLeft, xSnap, xWhy, xAborted, xCancelled, xLoud, xTold>>
  BY DEF Dispatch!RouteAborted, Dispatch!LaunchAborted, Dispatch!Ends
<1>2. Dispatch!Settled' /\ ~xLoud /\ xTold = 0 /\ xOutcome = "none"
  BY <1>1, DispatchSettled DEF Dispatch!Settled, Dispatch!IInv, Dispatch!Typed, Dispatch!DispatchSound,
     Dispatch!HeardOnce
<1>3. Dispatch!Typed' /\ Dispatch!Clean' /\ Dispatch!Placed' /\ Dispatch!Launched' /\ Dispatch!GateIsNew'
  BY <1>1 DEF Dispatch!IInv, Dispatch!Typed, Dispatch!Clean, Dispatch!Between, Dispatch!Placed,
     Dispatch!Launched, Dispatch!GateIsNew
<1>4. Dispatch!Refusals'
  BY <1>1 DEF Dispatch!IInv, Dispatch!Refusals, Dispatch!Between, Dispatch!Moved
<1>5. Dispatch!DispatchSound'
  BY <1>1, <1>2 DEF Dispatch!IInv, Dispatch!DispatchSound, Dispatch!TypeOK, Dispatch!NothingRepeated,
     Dispatch!DownTheChain, Dispatch!HeardOnce
<1> QED
  BY <1>3, <1>4, <1>5 DEF Dispatch!IInv

LEMMA DispatchLaunchSafe == ASSUME Dispatch!IInv, Dispatch!Launch PROVE Dispatch!IInv'
<1>1. xAt = "gate" /\ UNCHANGED <<xKind, xBackground, xRoute, xSnap, xWhy, xAborted, xLoud, xTold>>
  BY DEF Dispatch!Launch
<1>2. Dispatch!Settled /\ ~xLoud /\ xTold = 0 /\ xOutcome = "none"
  BY <1>1, DispatchSettled DEF Dispatch!IInv, Dispatch!Typed, Dispatch!DispatchSound, Dispatch!HeardOnce
<1>3. xWave \in 0 .. MaxFalls
  BY <1>1 DEF Dispatch!IInv, Dispatch!Clean, Dispatch!Between, Dispatch!DispatchSound, Dispatch!TypeOK
<1>4. CASE Dispatch!Ends("error") /\ UNCHANGED <<xWave, xWork, xOut, xCancelled, xLeft>>
  <2>1. xAt' = "over" /\ xOutcome' = "error"
    BY <1>4 DEF Dispatch!Ends
  <2>2. Dispatch!Typed' /\ Dispatch!Clean' /\ Dispatch!Placed' /\ Dispatch!Launched' /\ Dispatch!GateIsNew'
    BY <1>1, <1>4, <2>1 DEF Dispatch!IInv, Dispatch!Typed, Dispatch!Clean, Dispatch!Between,
       Dispatch!Placed, Dispatch!Launched, Dispatch!GateIsNew
  <2>3. Dispatch!Refusals'
    BY <1>1, <1>4, <2>1 DEF Dispatch!IInv, Dispatch!Refusals, Dispatch!Between, Dispatch!Moved
  <2>4. Dispatch!Settled'
    BY <1>2, <1>4 DEF Dispatch!Settled
  <2>5. Dispatch!DispatchSound'
    BY <1>1, <1>2, <1>4, <2>1, <2>4 DEF Dispatch!IInv, Dispatch!DispatchSound, Dispatch!TypeOK,
       Dispatch!NothingRepeated, Dispatch!DownTheChain, Dispatch!HeardOnce
  <2> QED
    BY <2>2, <2>3, <2>5 DEF Dispatch!IInv
<1>5. CASE /\ xAt' = "window" /\ xWave' = xWave + 1
           /\ xWork' = [w \in Workers |-> "queued"] /\ xOut' = {} /\ xCancelled' = FALSE
           /\ xLeft' = xLeft \cup {w \in Workers : w \in xOut \/ xWork[w] \in Dispatch!Live \cup {"done"}}
           /\ UNCHANGED xOutcome
  <2>1. {w \in Workers : w \in xOut \/ xWork[w] \in Dispatch!Live \cup {"done"}} = {}
    BY <1>1 DEF Dispatch!IInv, Dispatch!Clean, Dispatch!Between
  <2>2. Dispatch!Typed' /\ Dispatch!Clean' /\ Dispatch!Placed' /\ Dispatch!GateIsNew'
    <3>1. xWork' \in [Workers -> Dispatch!States]
      BY <1>5 DEF Dispatch!States, Dispatch!Live
    <3> QED
      BY <1>1, <1>5, <3>1 DEF Dispatch!IInv, Dispatch!Typed, Dispatch!Clean, Dispatch!Between,
         Dispatch!Placed, Dispatch!GateIsNew
  <2>3. /\ \A i \in 1 .. xWave : Dispatch!Moved(i) /\ Dispatch!Further(i, xRoute[xWave + 1])
        /\ xRoute[xWave + 1] # 0
    BY <1>1 DEF Dispatch!IInv, Dispatch!Refusals, Dispatch!Between, Dispatch!GateIsNew
  <2>10. Dispatch!Launched'
    BY <1>1, <1>3, <1>5, <2>3 DEF Dispatch!IInv, Dispatch!Launched
  <2>4. Dispatch!Refusals'
    BY <1>1, <1>3, <1>5, <2>3 DEF Dispatch!Refusals, Dispatch!Between, Dispatch!Moved
  <2>5. Dispatch!TypeOK' /\ Dispatch!NothingRepeated' /\ Dispatch!HeardOnce'
    BY <1>1, <1>2, <1>3, <1>5, <2>1, DispatchAssumption
    DEF Dispatch!IInv, Dispatch!DispatchSound, Dispatch!TypeOK, Dispatch!NothingRepeated,
       Dispatch!HeardOnce, Dispatch!Typed, Dispatch!Wave
  <2>6. Dispatch!DownTheChain'
    <3>1. SUFFICES ASSUME NEW i \in 1 .. xWave + 1, NEW j \in 1 .. xWave + 1, i < j
                   PROVE  /\ xKind = "implicit" /\ xRoute[i] # xRoute[j]
                          /\ xWhy[i] = "quota" => (xRoute[j] \in Gated \cup {Dispatch!Claude} => xRoute[j] > xRoute[i])
      BY <1>1, <1>5 DEF Dispatch!DownTheChain
    <3>2. CASE j = xWave + 1
      BY <1>3, <2>3, <3>1, <3>2 DEF Dispatch!Moved, Dispatch!Further
    <3>3. CASE j # xWave + 1
      BY <1>3, <3>1, <3>3 DEF Dispatch!IInv, Dispatch!DispatchSound, Dispatch!DownTheChain
    <3> QED
      BY <3>2, <3>3
  <2> QED
    BY <2>2, <2>4, <2>5, <2>6, <2>10 DEF Dispatch!IInv, Dispatch!DispatchSound
<1> QED
  BY <1>4, <1>5 DEF Dispatch!Launch

\* What a cancellation does to the workers.
LEMMA DispatchCancels ==
  ASSUME Dispatch!IInv, Dispatch!Cancel
  PROVE  /\ xCancelled' /\ xWork' \in [Workers -> Dispatch!States]
         /\ \A w \in Workers : xWork'[w] # xWork[w] => xWork'[w] = "aborted"
BY DEF Dispatch!IInv, Dispatch!Typed, Dispatch!Cancel, Dispatch!States

LEMMA DispatchJudgeSafe == ASSUME Dispatch!IInv, Dispatch!Look \/ Dispatch!Judge PROVE Dispatch!IInv'
<1>1. /\ xAt \in {"window", "judge"} /\ UNCHANGED <<xKind, xBackground, xWave, xRoute, xOut, xLeft, xWhy, xAborted, xTold>>
      /\ xSnap' \in {xSnap, xWork}
  BY DEF Dispatch!Look, Dispatch!Judge
<1>2. xOutcome = "none" /\ ~xLoud /\ xTold = 0
  BY <1>1 DEF Dispatch!IInv, Dispatch!Placed, Dispatch!Launched, Dispatch!Typed, Dispatch!DispatchSound,
     Dispatch!HeardOnce
<1>3. /\ xAt' \in {"judge", "settling", "over", "waiting"}
      /\ xAt' = "over" => xOutcome' = "started" /\ xLoud'
      /\ xAt' # "over" => xOutcome' = "none" /\ ~xLoud'
      /\ xAt' = "settling" => xCancelled'
      /\ xLoud' \in BOOLEAN /\ xCancelled' \in BOOLEAN
      /\ xWork' \in [Workers -> Dispatch!States]
  BY <1>2, DispatchCancels DEF Dispatch!Look, Dispatch!Judge, Dispatch!Ends, Dispatch!IInv, Dispatch!Typed
<1>4. Dispatch!Typed' /\ Dispatch!Clean' /\ Dispatch!Placed' /\ Dispatch!Launched' /\ Dispatch!GateIsNew'
  BY <1>1, <1>3 DEF Dispatch!IInv, Dispatch!Typed, Dispatch!Clean, Dispatch!Between, Dispatch!Placed,
     Dispatch!Launched, Dispatch!GateIsNew
<1>5. Dispatch!Refusals'
  BY <1>1, <1>3 DEF Dispatch!IInv, Dispatch!Refusals, Dispatch!Between, Dispatch!Moved
<1>6. Dispatch!DispatchSound'
  BY <1>1, <1>2, <1>3 DEF Dispatch!IInv, Dispatch!DispatchSound, Dispatch!TypeOK,
     Dispatch!NothingRepeated, Dispatch!DownTheChain, Dispatch!HeardOnce
<1> QED
  BY <1>4, <1>5, <1>6 DEF Dispatch!IInv

LEMMA DispatchConcludeSafe == ASSUME Dispatch!IInv, Dispatch!Conclude PROVE Dispatch!IInv'
<1>1. /\ xAt = "settling" /\ xSnap' = [w \in Workers |-> "none"]
      /\ UNCHANGED <<xKind, xBackground, xWave, xRoute, xWork, xOut, xLeft, xAborted, xCancelled, xLoud, xTold>>
  BY DEF Dispatch!Conclude
<1>2. xOutcome = "none" /\ ~xLoud /\ xTold = 0 /\ xCancelled
  BY <1>1 DEF Dispatch!IInv, Dispatch!Placed, Dispatch!Launched, Dispatch!Typed, Dispatch!DispatchSound,
     Dispatch!HeardOnce
<1>3. xSnap' \in [Workers -> Dispatch!States]
  BY <1>1 DEF Dispatch!States
<1>4. CASE Dispatch!Ends("error") /\ UNCHANGED xWhy
  <2>1. xAt' = "over" /\ xOutcome' = "error"
    BY <1>4 DEF Dispatch!Ends
  <2>2. Dispatch!Typed' /\ Dispatch!Clean' /\ Dispatch!Placed' /\ Dispatch!Launched' /\ Dispatch!GateIsNew'
    BY <1>1, <1>3, <1>4, <2>1 DEF Dispatch!IInv, Dispatch!Typed, Dispatch!Clean, Dispatch!Between,
       Dispatch!Placed, Dispatch!Launched, Dispatch!GateIsNew
  <2>3. Dispatch!Refusals'
    BY <1>1, <1>4, <2>1 DEF Dispatch!IInv, Dispatch!Refusals, Dispatch!Between, Dispatch!Moved
  <2>4. Dispatch!DispatchSound'
    BY <1>1, <1>2, <1>4, <2>1 DEF Dispatch!IInv, Dispatch!DispatchSound, Dispatch!TypeOK,
       Dispatch!NothingRepeated, Dispatch!DownTheChain, Dispatch!HeardOnce
  <2> QED
    BY <2>2, <2>3, <2>4 DEF Dispatch!IInv
<1>5. CASE /\ xKind = "implicit" /\ xRoute[xWave] # Dispatch!Claude /\ Dispatch!Settled /\ ~xAborted
           /\ xWave <= MaxFalls /\ Dispatch!Unused /\ Dispatch!Cause # {}
           /\ xAt' = "route" /\ UNCHANGED xOutcome
           /\ \E c \in Dispatch!Cause : xWhy' = [xWhy EXCEPT ![xWave] = c]
  <2>1. PICK c \in Dispatch!Cause : xWhy' = [xWhy EXCEPT ![xWave] = c]
    BY <1>5
  <2>2. c \in {"quota", "ensure"} /\ (c = "quota" => xRoute[xWave] \in Gated)
    BY DEF Dispatch!Cause
  <2>3. xWave \in 0 .. MaxFalls
    BY <1>5 DEF Dispatch!IInv, Dispatch!DispatchSound, Dispatch!TypeOK
  <2>4. /\ xWhy' \in [Dispatch!Wave -> {"none", "quota", "ensure"}]
        /\ \A i \in Dispatch!Wave : xWhy'[i] = IF i = xWave THEN c ELSE xWhy[i]
    BY <2>1, <2>2 DEF Dispatch!IInv, Dispatch!Typed
  <2>5. Dispatch!Typed' /\ Dispatch!Placed' /\ Dispatch!Launched' /\ Dispatch!GateIsNew'
    BY <1>1, <1>2, <1>3, <1>5, <2>4 DEF Dispatch!IInv, Dispatch!Typed, Dispatch!Placed,
       Dispatch!Launched, Dispatch!GateIsNew
  <2>6. Dispatch!Clean'
    BY <1>1, <1>5 DEF Dispatch!Clean, Dispatch!Between, Dispatch!Settled, Dispatch!Unused
  <2>7. ASSUME NEW i \in 1 .. xWave PROVE Dispatch!Moved(i)'
    <3>1. i \in Dispatch!Wave
      BY <2>3, DispatchAssumption DEF Dispatch!Wave
    <3>2. CASE i = xWave
      <4>1. xRoute[xWave] \in 1 .. Tiers
        <5>1. xRoute[xWave] \in 0 .. Dispatch!Claude /\ xRoute[xWave] # 0
          BY <2>3, <3>1, <3>2 DEF Dispatch!IInv, Dispatch!Typed, Dispatch!Launched
        <5> QED
          BY <1>5, <5>1, DispatchAssumption DEF Dispatch!Claude
      <4> QED
        BY <1>1, <1>5, <2>2, <2>4, <3>1, <3>2, <4>1 DEF Dispatch!Moved
    <3>3. CASE i # xWave
      BY <1>1, <1>5, <2>3, <2>4, <3>1, <3>3 DEF Dispatch!IInv, Dispatch!Refusals, Dispatch!Moved
    <3> QED
      BY <3>2, <3>3
  <2>8. Dispatch!Refusals'
    BY <1>1, <2>7 DEF Dispatch!Refusals
  <2>9. Dispatch!DispatchSound'
    <3>1. Dispatch!TypeOK' /\ Dispatch!NothingRepeated' /\ Dispatch!HeardOnce'
      BY <1>1, <1>2, <1>5, <2>4 DEF Dispatch!IInv, Dispatch!DispatchSound, Dispatch!TypeOK,
         Dispatch!NothingRepeated, Dispatch!HeardOnce
    <3>2. ASSUME NEW i \in 1 .. xWave, NEW j \in 1 .. xWave, i < j PROVE i \in Dispatch!Wave /\ xWhy'[i] = xWhy[i]
      BY <2>3, <2>4, <3>2, DispatchAssumption DEF Dispatch!Wave
    <3>3. Dispatch!DownTheChain'
      BY <1>1, <3>2 DEF Dispatch!IInv, Dispatch!DispatchSound, Dispatch!DownTheChain
    <3> QED
      BY <3>1, <3>3 DEF Dispatch!DispatchSound
  <2> QED
    BY <2>5, <2>6, <2>8, <2>9 DEF Dispatch!IInv
<1> QED
  BY <1>4, <1>5 DEF Dispatch!Conclude

\* The result, the operator's Esc and the completion.
LEMMA DispatchOutsideSafe == ASSUME Dispatch!IInv, Dispatch!Result \/ Dispatch!Abort \/ Dispatch!Tell \/ UNCHANGED Dispatch!vars PROVE Dispatch!IInv'
<1>1. UNCHANGED <<xKind, xBackground, xWave, xRoute, xOut, xLeft, xSnap, xWhy>>
  BY DEF Dispatch!Result, Dispatch!Abort, Dispatch!Tell, Dispatch!vars
<1>2. /\ \/ UNCHANGED <<xAt, xOutcome>>
         \/ xAt = "waiting" /\ xAt' = "over" /\ xOutcome' = "result"
      /\ xWork' \in [Workers -> Dispatch!States] /\ xCancelled' \in BOOLEAN /\ (xCancelled => xCancelled')
      /\ \A w \in Workers : xWork'[w] # xWork[w] => xWork'[w] = "aborted"
  BY DispatchCancels DEF Dispatch!Result, Dispatch!Abort, Dispatch!Tell, Dispatch!vars, Dispatch!Ends,
     Dispatch!IInv, Dispatch!Typed
<1>3. /\ xLoud' \in BOOLEAN /\ xTold' \in Nat
      /\ xTold' + (IF xLoud' THEN 1 ELSE 0) = xTold + (IF xLoud THEN 1 ELSE 0)
  <2>1. CASE Dispatch!Tell
    <3>1. xLoud = TRUE /\ xLoud' = FALSE /\ xTold' = xTold + 1 /\ xTold \in Nat
      BY <2>1 DEF Dispatch!Tell, Dispatch!IInv, Dispatch!Typed
    <3>2. (IF xLoud' THEN 1 ELSE 0) = 0 /\ (IF xLoud THEN 1 ELSE 0) = 1
      BY <3>1, Zenon
    <3>3. xLoud' \in BOOLEAN
      BY <3>1
    <3> QED
      BY <3>1, <3>2, <3>3
  <2>2. CASE Dispatch!Result \/ Dispatch!Abort \/ UNCHANGED Dispatch!vars
    BY <2>2 DEF Dispatch!Result, Dispatch!Abort, Dispatch!vars, Dispatch!IInv, Dispatch!Typed
  <2> QED
    BY <2>1, <2>2
<1>4. Dispatch!Settled => Dispatch!Settled'
  BY <1>2 DEF Dispatch!Settled, Dispatch!Live
<1>5. Dispatch!Typed' /\ Dispatch!Placed' /\ Dispatch!Launched' /\ Dispatch!GateIsNew'
  BY <1>1, <1>2, <1>3 DEF Dispatch!IInv, Dispatch!Typed, Dispatch!Placed, Dispatch!Launched,
     Dispatch!GateIsNew, Dispatch!Further
<1>6. Dispatch!Clean' /\ Dispatch!Refusals'
  BY <1>1, <1>2 DEF Dispatch!IInv, Dispatch!Clean, Dispatch!Between, Dispatch!Refusals, Dispatch!Moved,
     Dispatch!Live
<1>7. Dispatch!TypeOK' /\ Dispatch!NothingRepeated' /\ Dispatch!DownTheChain'
  BY <1>1 DEF Dispatch!IInv, Dispatch!DispatchSound, Dispatch!TypeOK, Dispatch!NothingRepeated,
     Dispatch!DownTheChain
<1>8. Dispatch!HeardOnce'
  <2>1. /\ xTold + (IF xLoud THEN 1 ELSE 0) = (IF xOutcome = "started" THEN 1 ELSE 0)
        /\ xOutcome \in {"error", "cancelled"} => xCancelled \/ Dispatch!Settled
        /\ xOutcome # "none" => xAt = "over"
    BY DEF Dispatch!IInv, Dispatch!DispatchSound, Dispatch!HeardOnce, Dispatch!Placed, Dispatch!Launched
  <2>2. xOutcome' = xOutcome \/ (xOutcome = "none" /\ xOutcome' = "result")
    BY <1>2 DEF Dispatch!IInv, Dispatch!Placed
  <2>3. xOutcome' \in {"error", "cancelled"} => xCancelled' \/ Dispatch!Settled'
    BY <1>2, <1>4, <2>1, <2>2
  <2>4. xTold' + (IF xLoud' THEN 1 ELSE 0) = (IF xOutcome' = "started" THEN 1 ELSE 0)
    BY <1>3, <2>1, <2>2
  <2> QED
    BY <2>3, <2>4 DEF Dispatch!HeardOnce
<1> QED
  BY <1>5, <1>6, <1>7, <1>8 DEF Dispatch!IInv, Dispatch!DispatchSound

\* A worker moves only when it is live, which it is not between the waves.
LEMMA DispatchWorkerSafe ==
  ASSUME Dispatch!IInv, NEW w \in Workers, Dispatch!Starts(w) \/ Dispatch!Speaks(w) \/ Dispatch!Fails(w) \/ Dispatch!Finishes(w) \/ Dispatch!Stops(w)
  PROVE  Dispatch!IInv'
<1>1. UNCHANGED <<xKind, xBackground, xAt, xWave, xRoute, xLeft, xSnap, xWhy, xAborted, xCancelled, xLoud, xTold, xOutcome>>
  BY DEF Dispatch!Starts, Dispatch!Speaks, Dispatch!Fails, Dispatch!Finishes, Dispatch!Stops,
     Dispatch!Becomes
<1>2. xWork[w] \in Dispatch!Live /\ xOut' \subseteq Workers
  BY DEF Dispatch!Starts, Dispatch!Speaks, Dispatch!Fails, Dispatch!Finishes, Dispatch!Stops,
     Dispatch!Live, Dispatch!IInv, Dispatch!Typed
<1>3. PICK s \in Dispatch!States : xWork' = [xWork EXCEPT ![w] = s]
  BY DEF Dispatch!Starts, Dispatch!Speaks, Dispatch!Fails, Dispatch!Finishes, Dispatch!Stops,
     Dispatch!Becomes, Dispatch!States, Dispatch!Live
<1>4. ~Dispatch!Between /\ ~Dispatch!Settled
  BY <1>2 DEF Dispatch!IInv, Dispatch!Clean, Dispatch!Settled
<1>5. xOutcome \in {"error", "cancelled"} => xCancelled
  BY <1>4 DEF Dispatch!IInv, Dispatch!DispatchSound, Dispatch!HeardOnce
<1>6. xWork' \in [Workers -> Dispatch!States]
  BY <1>3 DEF Dispatch!IInv, Dispatch!Typed
<1>7. Dispatch!Typed' /\ Dispatch!Placed' /\ Dispatch!Launched' /\ Dispatch!GateIsNew' /\ Dispatch!Clean' /\ Dispatch!Refusals'
  BY <1>1, <1>2, <1>4, <1>6 DEF Dispatch!IInv, Dispatch!Typed, Dispatch!Placed, Dispatch!Launched,
     Dispatch!GateIsNew, Dispatch!Further, Dispatch!Clean, Dispatch!Between, Dispatch!Refusals,
     Dispatch!Moved
<1>8. Dispatch!DispatchSound'
  BY <1>1, <1>5 DEF Dispatch!IInv, Dispatch!DispatchSound, Dispatch!TypeOK, Dispatch!NothingRepeated,
     Dispatch!DownTheChain, Dispatch!HeardOnce
<1> QED
  BY <1>7, <1>8 DEF Dispatch!IInv

LEMMA DispatchInit == Dispatch!Init => Dispatch!IInv
<1> SUFFICES ASSUME Dispatch!Init PROVE Dispatch!IInv
  OBVIOUS
<1>1. Dispatch!Typed
  <2>1. 0 \in 0 .. Dispatch!Claude
    BY DispatchAssumption DEF Dispatch!Claude
  <2> QED
    BY <2>1 DEF Dispatch!Init, Dispatch!Typed, Dispatch!States
<1>2. Dispatch!Clean /\ Dispatch!Placed /\ Dispatch!Launched /\ Dispatch!Refusals /\ Dispatch!GateIsNew
  BY DispatchAssumption DEF Dispatch!Init, Dispatch!Clean, Dispatch!Between, Dispatch!Placed,
     Dispatch!Launched, Dispatch!Refusals, Dispatch!GateIsNew, Dispatch!Live
<1>3. Dispatch!DispatchSound
  BY DispatchAssumption DEF Dispatch!Init, Dispatch!DispatchSound, Dispatch!TypeOK,
     Dispatch!NothingRepeated, Dispatch!DownTheChain, Dispatch!HeardOnce, Dispatch!Claude
<1> QED
  BY <1>1, <1>2, <1>3 DEF Dispatch!IInv

\* No step breaks the invariant.
LEMMA DispatchNextSafe == Dispatch!IInv /\ [Dispatch!Next]_(Dispatch!vars) => Dispatch!IInv'
BY DispatchRouteSafe, DispatchRouteExplicitSafe, DispatchAbortedSafe, DispatchLaunchSafe,
   DispatchJudgeSafe,
   DispatchConcludeSafe, DispatchOutsideSafe, DispatchWorkerSafe DEF Dispatch!Next

LEMMA DispatchImplies == Dispatch!IInv => Dispatch!DispatchSound
BY DEF Dispatch!IInv

\* A dispatch repeats no work, goes down its chain, and is heard of once.
THEOREM DispatchIsSound == Dispatch!Spec => []DispatchSound
<1>1. Dispatch!Init => Dispatch!IInv
  BY DispatchInit
<1>2. Dispatch!IInv /\ [Dispatch!Next]_(Dispatch!vars) => Dispatch!IInv'
  BY DispatchNextSafe
<1>3. Dispatch!IInv => DispatchSound
  BY DispatchImplies DEF DispatchSound
<1> QED
  BY <1>1, <1>2, <1>3, PTL DEF Dispatch!Spec

-----------------------------------------------------------------------------
(* Sessions and their runtimes, HostSession, as the instance Host of MCRuns. *)

\* What the invariant says of one runtime.
LEMMA HostRuntimes ==
  ASSUME Host!IInv, NEW r \in 1 .. sMade
  PROVE  /\ r \in Host!Runtime /\ r # 0 /\ r # Host!Foreign /\ sRt[r].owner \in Sessions
         /\ sRt[r].closed \in BOOLEAN /\ sRt[r].store \in BOOLEAN /\ sRt[r].degraded \in BOOLEAN
         /\ sRt[r].store <=> sLease[sRt[r].owner] = r
         /\ sRt[r].degraded => ~sRt[r].store
<1>1. r \in Host!Runtime /\ r # 0 /\ r # Host!Foreign
  BY SessionAssumption DEF Host!IInv, Host!Typed, Host!Runtime, Host!Foreign
<1> QED
  BY <1>1 DEF Host!IInv, Host!Typed, Host!Owned, Host!SessionSound, Host!StoreIsLeased

\* The runtimes that somebody keeps in a set are made ones.
LEMMA HostMade ==
  ASSUME Host!IInv
  PROVE  /\ sLive \subseteq 1 .. sMade /\ sPending \subseteq 1 .. sMade /\ sRetained \subseteq 1 .. sMade
         /\ sCur # 0 => sCur \in 1 .. sMade
         /\ 1 .. sMade \subseteq Host!Runtime /\ 0 \notin Host!Runtime /\ Host!Foreign \notin Host!Runtime
         /\ sMade \in Nat
BY SessionAssumption DEF Host!IInv, Host!Typed, Host!SessionSound, Host!TypeOK, Host!Runtime, Host!Foreign

\* A runtime is created for a session that none in use serves.
LEMMA HostCreateSafe ==
  ASSUME Host!IInv, NEW s \in Sessions, Host!Create(s), sCur = 0 \/ sRt[sCur].closed,
         UNCHANGED <<sShut, sLive, sPending, sTeardowns, sRetained, sWarning, sForeign>>, sStarting' \subseteq Sessions
  PROVE  Host!IInv'
<1> DEFINE n == sMade + 1
<1>1. /\ sMade < MaxRuntimes /\ sLease[s] # Host!Foreign /\ sMade' = n /\ sCur' = n
      /\ sRt' = [sRt EXCEPT ![n] = [owner |-> s, closed |-> FALSE, store |-> sLease[s] = 0, degraded |-> sLease[s] # 0]]
      /\ sLease' = IF sLease[s] = 0 THEN [sLease EXCEPT ![s] = n] ELSE sLease
  BY DEF Host!Create
<1>2. n \in Host!Runtime /\ n \notin 1 .. sMade /\ n # 0 /\ n \in 0 .. Host!Foreign /\ sMade \in Nat
  BY <1>1, HostMade, SessionAssumption DEF Host!Runtime, Host!Foreign
<1>3. /\ \A r \in Host!Runtime : r # n => sRt'[r] = sRt[r]
      /\ sRt'[n].owner = s /\ sRt'[n].closed = FALSE
      /\ sRt'[n].store = (sLease[s] = 0) /\ sRt'[n].degraded = (sLease[s] # 0)
      /\ \A x \in Sessions : sLease'[x] = IF x = s /\ sLease[s] = 0 THEN n ELSE sLease[x]
  BY <1>1, <1>2 DEF Host!IInv, Host!Typed
<1>4. Host!Typed'
  <2>1. sLease' \in [Sessions -> 0 .. Host!Foreign]
    BY <1>1, <1>2 DEF Host!IInv, Host!Typed
  <2>2. sRt' \in [Host!Runtime -> [owner : Sessions \cup {"none"}, closed : BOOLEAN, store : BOOLEAN, degraded : BOOLEAN]]
    BY <1>1, <1>2 DEF Host!IInv, Host!Typed
  <2>3. sMade' \in 0 .. MaxRuntimes
    BY <1>1, <1>2, SessionAssumption
  <2> QED
    BY <2>1, <2>2, <2>3 DEF Host!IInv, Host!Typed, Host!Runtime, Host!Foreign
<1>5. ASSUME NEW x \in Sessions, sLease[x] \in Host!Runtime PROVE sLease[x] \in 1 .. sMade /\ sLease[x] # n /\ sRt[sLease[x]].owner = x
  BY <1>2, <1>5, HostMade DEF Host!IInv, Host!Owned, Host!Runtime
<1>6. 1 .. sMade' = (1 .. sMade) \cup {n}
  BY <1>1, <1>2
<1> HIDE DEF n
<1>7. Host!Owned'
  <2>1. \A r \in 1 .. sMade' : sRt'[r].owner \in Sessions
    BY <1>2, <1>3, <1>6, HostMade DEF Host!IInv, Host!Owned
  <2>2. ASSUME NEW x \in Sessions, sLease'[x] \in Host!Runtime PROVE sLease'[x] \in 1 .. sMade' /\ sRt'[sLease'[x]].owner = x
    <3>1. CASE x = s /\ sLease[s] = 0
      BY <1>3, <1>6, <3>1
    <3>2. CASE ~(x = s /\ sLease[s] = 0)
      BY <1>3, <1>5, <1>6, <2>2, <3>2, HostMade
    <3> QED
      BY <3>1, <3>2
  <2>3. \A k \in 1 .. sMade' : k <= sMade'
    OBVIOUS
  <2> QED
    BY <2>1, <2>2, <2>3 DEF Host!Owned, Host!Runtime
<1>8. Host!Over' /\ Host!InUse'
  BY <1>1, <1>2, <1>3 DEF Host!IInv, Host!Over, Host!InUse
<1>9. Host!TypeOK'
  <2>1. sCur' \in 0 .. sMade' /\ sLive' \cup sPending' \cup sRetained' \subseteq 1 .. sMade'
    BY <1>1, <1>2, <1>6, HostMade DEF n
  <2> QED
    BY <1>4, <2>1 DEF Host!TypeOK, Host!Typed, Host!Foreign
<1>10. Host!LeaseCoversWorkers'
  <2>1. SUFFICES ASSUME NEW r \in sLive PROVE sLease'[sRt[r].owner] = r /\ sRt'[r] = sRt[r]
    BY DEF Host!LeaseCoversWorkers
  <2>2. r \in 1 .. sMade /\ sLease[sRt[r].owner] = r /\ sRt[r].owner \in Sessions /\ r # 0
    BY HostMade, HostRuntimes DEF Host!IInv, Host!SessionSound, Host!LeaseCoversWorkers
  <2> QED
    BY <1>2, <1>3, <2>2, HostMade
<1>11. Host!StoreIsLeased'
  <2>1. SUFFICES ASSUME NEW r \in 1 .. sMade' PROVE /\ sRt'[r].store <=> sLease'[sRt'[r].owner] = r
                                                    /\ sRt'[r].degraded => ~sRt'[r].store
    BY DEF Host!StoreIsLeased
  <2>2. CASE r = n
    <3>1. sLease[s] # 0 => sLease[s] # n
      <4>1. sLease[s] \in 0 .. Host!Foreign
        BY DEF Host!IInv, Host!Typed
      <4>2. sLease[s] # 0 => sLease[s] \in Host!Runtime
        BY <1>1, <4>1, SessionAssumption DEF Host!Runtime, Host!Foreign
      <4> QED
        BY <1>5, <4>2
    <3> QED
      BY <1>3, <2>2, <3>1
  <2>3. CASE r \in 1 .. sMade
    <3>1. r # n /\ sRt'[r] = sRt[r] /\ r # 0
      BY <1>2, <1>3, <2>3, HostMade, HostRuntimes
    <3>2. sRt[r].owner \in Sessions /\ (sRt[r].store <=> sLease[sRt[r].owner] = r) /\ (sRt[r].degraded => ~sRt[r].store)
      BY <2>3, HostRuntimes
    <3> QED
      BY <1>3, <3>1, <3>2
  <2> QED
    BY <1>6, <2>2, <2>3
<1>12. Host!NoLeaseForgotten'
  <2>1. \A r \in sRetained : sRt'[r] = sRt[r]
    BY <1>2, <1>3, HostMade
  <2>2. sWarning # "none" => \E r \in sRetained : sRt[r].owner = sWarning
    BY DEF Host!IInv, Host!SessionSound, Host!NoLeaseForgotten
  <2>3. ASSUME NEW x \in Sessions, sLease'[x] \in Host!Runtime
        PROVE  sLease'[x] = n \/ sTeardowns[sLease'[x]] > 0 \/ sLease'[x] \in sRetained
    <3>1. CASE x = s /\ sLease[s] = 0
      BY <1>3, <3>1
    <3>2. CASE ~(x = s /\ sLease[s] = 0)
      <4>1. sLease'[x] = sLease[x] /\ sLease[x] \in Host!Runtime /\ sLease[x] # 0
        BY <1>3, <2>3, <3>2, HostMade
      <4>2. sLease[x] = sCur \/ sTeardowns[sLease[x]] > 0 \/ sLease[x] \in sRetained
        BY <4>1 DEF Host!IInv, Host!SessionSound, Host!NoLeaseForgotten
      <4>3. sLease[x] = sCur => sTeardowns[sLease[x]] > 0
        BY <4>1 DEF Host!IInv, Host!InUse
      <4> QED
        BY <4>1, <4>2, <4>3
    <3> QED
      BY <3>1, <3>2
  <2> QED
    BY <1>1, <2>1, <2>2, <2>3 DEF Host!NoLeaseForgotten
<1> QED
  BY <1>4, <1>7, <1>8, <1>9, <1>10, <1>11, <1>12 DEF Host!IInv, Host!SessionSound

LEMMA HostEnsureSafe == ASSUME Host!IInv, NEW s \in Sessions, Host!Ensure(s) PROVE Host!IInv'
<1>1. sCur = 0 \/ sRt[sCur].closed
  BY DEF Host!Ensure, Host!Open
<1>2. sStarting' \subseteq Sessions
  BY DEF Host!Ensure, Host!IInv, Host!Typed
<1> QED
  BY <1>1, <1>2, HostCreateSafe DEF Host!Ensure

LEMMA HostReclaimSafe == ASSUME Host!IInv, Host!Reclaim PROVE Host!IInv'
<1> DEFINE o == sRt[sCur].owner
<1>1. /\ sCur # 0 /\ ~sRt[sCur].closed /\ sRt[sCur].degraded /\ sLease[o] = 0
      /\ sRt' = [sRt EXCEPT ![sCur].store = TRUE, ![sCur].degraded = FALSE]
      /\ sLease' = [sLease EXCEPT ![o] = sCur]
      /\ UNCHANGED <<sMade, sCur, sShut, sLive, sPending, sTeardowns, sRetained, sStarting, sWarning, sForeign>>
  BY DEF Host!Reclaim, Host!Open
<1>2. sCur \in 1 .. sMade /\ sCur \in Host!Runtime /\ o \in Sessions /\ sCur \in 0 .. Host!Foreign /\ sCur <= sMade
  BY <1>1, HostMade, HostRuntimes, SessionAssumption DEF Host!Runtime, Host!Foreign
<1>3. /\ \A r \in Host!Runtime : /\ sRt'[r].owner = sRt[r].owner /\ sRt'[r].closed = sRt[r].closed
                                 /\ sRt'[r].store = IF r = sCur THEN TRUE ELSE sRt[r].store
                                 /\ sRt'[r].degraded = IF r = sCur THEN FALSE ELSE sRt[r].degraded
      /\ \A x \in Sessions : sLease'[x] = IF x = o THEN sCur ELSE sLease[x]
  BY <1>1, <1>2 DEF Host!IInv, Host!Typed
<1>4. Host!Typed' /\ Host!TypeOK'
  BY <1>1, <1>2 DEF Host!IInv, Host!Typed, Host!SessionSound, Host!TypeOK
<1> HIDE DEF o
<1>5. Host!Owned'
  <2>1. \A r \in 1 .. sMade : sRt'[r].owner \in Sessions
    BY <1>3, HostMade DEF Host!IInv, Host!Owned
  <2>2. ASSUME NEW x \in Sessions, sLease'[x] \in Host!Runtime PROVE sLease'[x] <= sMade /\ sRt'[sLease'[x]].owner = x
    <3>1. CASE x = o
      <4>1. sLease'[x] = sCur /\ sRt'[sCur].owner = sRt[sCur].owner
        BY <1>2, <1>3, <3>1
      <4> QED
        BY <1>2, <3>1, <4>1 DEF o
    <3>2. CASE x # o
      <4>1. sLease'[x] = sLease[x] /\ sRt'[sLease[x]].owner = sRt[sLease[x]].owner
        BY <1>3, <2>2, <3>2
      <4> QED
        BY <2>2, <4>1 DEF Host!IInv, Host!Owned
    <3> QED
      BY <3>1, <3>2
  <2> QED
    BY <1>1, <2>1, <2>2 DEF Host!Owned
<1>6. Host!Over' /\ Host!InUse'
  BY <1>1, <1>2, <1>3 DEF Host!IInv, Host!Over, Host!InUse
<1>7. ASSUME NEW r \in 1 .. sMade
      PROVE  /\ sRt'[r].owner = sRt[r].owner
             /\ sLease'[sRt[r].owner] = r <=> r = sCur \/ sLease[sRt[r].owner] = r
  <2>1. r \in Host!Runtime /\ r # 0 /\ sRt[r].owner \in Sessions
    BY HostRuntimes
  <2>2. CASE r = sCur
    BY <1>3, <2>1, <2>2 DEF o
  <2>3. CASE r # sCur
    BY <1>1, <1>3, <2>1, <2>3
  <2> QED
    BY <2>2, <2>3
<1>8. Host!LeaseCoversWorkers'
  BY <1>1, <1>7, HostMade, ZenonT(60) DEF Host!IInv, Host!SessionSound, Host!LeaseCoversWorkers
<1>9. Host!StoreIsLeased'
  <2>1. SUFFICES ASSUME NEW r \in 1 .. sMade PROVE /\ sRt'[r].store <=> sLease'[sRt'[r].owner] = r
                                                   /\ sRt'[r].degraded => ~sRt'[r].store
    BY <1>1 DEF Host!StoreIsLeased
  <2>2. r \in Host!Runtime /\ sRt[r].owner \in Sessions /\ (sRt[r].store <=> sLease[sRt[r].owner] = r) /\ (sRt[r].degraded => ~sRt[r].store)
    BY HostRuntimes
  <2>3. sLease'[sRt'[r].owner] = r <=> r = sCur \/ sLease[sRt[r].owner] = r
    BY <1>7
  <2>4. CASE r = sCur
    BY <1>3, <2>2, <2>3, <2>4
  <2>5. CASE r # sCur
    BY <1>3, <2>2, <2>3, <2>5
  <2> QED
    BY <2>4, <2>5
<1>10. Host!NoLeaseForgotten'
  <2>1. sWarning # "none" => \E r \in sRetained : sRt'[r].owner = sWarning
    BY <1>3, HostMade DEF Host!IInv, Host!SessionSound, Host!NoLeaseForgotten
  <2>2. ASSUME NEW x \in Sessions, sLease'[x] \in Host!Runtime
        PROVE  sLease'[x] = sCur \/ sTeardowns[sLease'[x]] > 0 \/ sLease'[x] \in sRetained
    BY <1>3, <2>2 DEF Host!IInv, Host!SessionSound, Host!NoLeaseForgotten
  <2> QED
    BY <1>1, <2>1, <2>2 DEF Host!NoLeaseForgotten
<1> QED
  BY <1>4, <1>5, <1>6, <1>8, <1>9, <1>10 DEF Host!IInv, Host!SessionSound

\* Work is admitted, started and over.
LEMMA HostWorkSafe ==
  ASSUME Host!IInv, Host!Admit \/ \E r \in Host!Runtime : Host!Start(r) \/ Host!WorkersEnd(r)
  PROVE  Host!IInv'
<1>1. /\ UNCHANGED <<sMade, sCur, sRt, sShut, sTeardowns, sRetained, sLease, sStarting, sWarning, sForeign>>
      /\ sPending' \subseteq 1 .. sMade
  BY HostMade DEF Host!Admit, Host!Open, Host!Start, Host!WorkersEnd
<1>2. ASSUME NEW r \in sLive' PROVE r \in sLive \/ (r \in sPending /\ sShut[r] = "no" /\ sRt[r].store)
  BY <1>2 DEF Host!Admit, Host!Start, Host!WorkersEnd
<1>3. ASSUME NEW r \in sLive' PROVE r \in 1 .. sMade /\ sLease[sRt[r].owner] = r /\ sShut[r] # "settled"
  BY <1>2, HostMade, HostRuntimes DEF Host!IInv, Host!SessionSound, Host!LeaseCoversWorkers, Host!Over
<1>4. Host!Typed' /\ Host!Owned' /\ Host!InUse' /\ Host!Over'
  BY <1>1, <1>3 DEF Host!IInv, Host!Typed, Host!Owned, Host!InUse, Host!Over
<1>5. Host!TypeOK' /\ Host!LeaseCoversWorkers' /\ Host!StoreIsLeased' /\ Host!NoLeaseForgotten'
  BY <1>1, <1>3, HostMade DEF Host!IInv, Host!SessionSound, Host!TypeOK, Host!LeaseCoversWorkers,
     Host!StoreIsLeased, Host!NoLeaseForgotten
<1> QED
  BY <1>4, <1>5 DEF Host!IInv, Host!SessionSound

\* The runtime is closed and its teardown begins.
LEMMA HostDestroySafe == ASSUME Host!IInv, Host!Leave \/ \E s \in Sessions : Host!SwitchTo(s) PROVE Host!IInv'
<1>1. /\ sCur # 0 /\ sTeardowns' = [sTeardowns EXCEPT ![sCur] = @ + 1] /\ sRt' = [sRt EXCEPT ![sCur].closed = TRUE]
      /\ UNCHANGED <<sMade, sCur, sShut, sLive, sPending, sRetained, sLease, sWarning, sForeign>>
      /\ sStarting' \subseteq Sessions
  BY DEF Host!Leave, Host!SwitchTo, Host!Destroy, Host!IInv, Host!Typed
<1>2. sCur \in Host!Runtime
  BY <1>1, HostMade
<1>3. \A r \in Host!Runtime : /\ sRt'[r].owner = sRt[r].owner /\ sRt'[r].store = sRt[r].store
                              /\ sRt'[r].degraded = sRt[r].degraded
                              /\ sTeardowns'[r] = IF r = sCur THEN sTeardowns[r] + 1 ELSE sTeardowns[r]
                              /\ sTeardowns[r] \in Nat
  BY <1>1, <1>2 DEF Host!IInv, Host!Typed
<1>4. Host!Typed' /\ Host!TypeOK'
  <2>1. sTeardowns' \in [Host!Runtime -> Nat]
    <3>1. sTeardowns[sCur] + 1 \in Nat /\ sTeardowns \in [Host!Runtime -> Nat]
      BY <1>2 DEF Host!IInv, Host!Typed
    <3> QED
      BY <1>1, <3>1
  <2>2. sRt' \in [Host!Runtime -> [owner : Sessions \cup {"none"}, closed : BOOLEAN, store : BOOLEAN, degraded : BOOLEAN]]
    BY <1>1, <1>2 DEF Host!IInv, Host!Typed
  <2> QED
    BY <1>1, <2>1, <2>2 DEF Host!IInv, Host!Typed, Host!SessionSound, Host!TypeOK
<1>5. Host!Owned' /\ Host!Over' /\ Host!InUse'
  BY <1>1, <1>2, <1>3, HostMade DEF Host!IInv, Host!Owned, Host!Over, Host!InUse
<1>6. Host!LeaseCoversWorkers' /\ Host!StoreIsLeased' /\ Host!NoLeaseForgotten'
  BY <1>1, <1>2, <1>3, HostMade DEF Host!IInv, Host!SessionSound, Host!LeaseCoversWorkers,
     Host!StoreIsLeased, Host!NoLeaseForgotten
<1> QED
  BY <1>4, <1>5, <1>6 DEF Host!IInv, Host!SessionSound

LEMMA HostShutdownSafe == ASSUME Host!IInv, NEW r \in Host!Runtime, Host!Shutdown(r) \/ Host!ShutdownEnds(r) PROVE Host!IInv'
<1>1. UNCHANGED <<sMade, sCur, sRt, sLive, sPending, sTeardowns, sRetained, sLease, sStarting, sWarning, sForeign>>
  BY DEF Host!Shutdown, Host!ShutdownEnds
<1>2. PICK to \in {"begun", "settled", "rejected"} :
        sShut' = [sShut EXCEPT ![r] = to] /\ (to = "settled" => r \notin sLive)
  BY DEF Host!Shutdown, Host!ShutdownEnds
<1>3. Host!Typed' /\ Host!Over'
  BY <1>1, <1>2, HostMade DEF Host!IInv, Host!Typed, Host!Over
<1>4. Host!Owned' /\ Host!InUse' /\ Host!SessionSound'
  BY <1>1 DEF Host!IInv, Host!Owned, Host!InUse, Host!SessionSound, Host!TypeOK,
     Host!LeaseCoversWorkers, Host!StoreIsLeased, Host!NoLeaseForgotten
<1> QED
  BY <1>3, <1>4 DEF Host!IInv

\* The lease of a runtime whose workers have ended is given back.
LEMMA HostLetGo ==
  ASSUME Host!IInv, NEW r \in Host!Runtime, sShut[r] = "settled",
         sLease' = Host!Closed(r), sRt' = [sRt EXCEPT ![r].store = FALSE],
         UNCHANGED <<sMade, sShut, sLive, sPending, sStarting, sForeign>>,
         sCur' \in {0, sCur}, sRetained' \subseteq sRetained,
         sTeardowns' \in [Host!Runtime -> Nat], Host!InUse'
  PROVE  /\ Host!Typed' /\ Host!Owned' /\ Host!Over' /\ Host!TypeOK' /\ Host!LeaseCoversWorkers' /\ Host!StoreIsLeased'
         /\ \A x \in Host!Runtime : sRt'[x].owner = sRt[x].owner
         /\ \A s \in Sessions : sLease'[s] = IF sLease[s] = r THEN 0 ELSE sLease[s]
<1>1. /\ \A x \in Host!Runtime : /\ sRt'[x].owner = sRt[x].owner /\ sRt'[x].closed = sRt[x].closed
                                 /\ sRt'[x].store = IF x = r THEN FALSE ELSE sRt[x].store
                                 /\ sRt'[x].degraded = sRt[x].degraded
      /\ \A s \in Sessions : sLease'[s] = IF sLease[s] = r THEN 0 ELSE sLease[s]
  BY DEF Host!IInv, Host!Typed, Host!Closed
<1>2. sLease' \in [Sessions -> 0 .. Host!Foreign]
  <2>1. 0 \in 0 .. Host!Foreign
    BY SessionAssumption DEF Host!Foreign
  <2> QED
    BY <2>1 DEF Host!IInv, Host!Typed, Host!Closed
<1>3. Host!Typed' /\ Host!TypeOK'
  <2>1. sRt' \in [Host!Runtime -> [owner : Sessions \cup {"none"}, closed : BOOLEAN, store : BOOLEAN, degraded : BOOLEAN]]
    BY ZenonT(60) DEF Host!IInv, Host!Typed
  <2>2. Host!Typed'
    BY <1>2, <2>1 DEF Host!IInv, Host!Typed
  <2>3. sCur' \in 0 .. sMade' /\ sLive' \cup sPending' \cup sRetained' \subseteq 1 .. sMade'
    BY HostMade DEF Host!IInv, Host!SessionSound, Host!TypeOK
  <2> QED
    BY <1>2, <2>2, <2>3 DEF Host!TypeOK
<1>4. Host!Owned' /\ Host!Over'
  BY <1>1, HostMade DEF Host!IInv, Host!Owned, Host!Over
<1>5. r \notin sLive /\ r # 0
  BY HostMade DEF Host!IInv, Host!Over
<1>6. Host!LeaseCoversWorkers'
  BY <1>1, <1>5, HostMade, HostRuntimes DEF Host!IInv, Host!SessionSound, Host!LeaseCoversWorkers
<1>7. Host!StoreIsLeased'
  <2>1. SUFFICES ASSUME NEW x \in 1 .. sMade PROVE /\ sRt'[x].store <=> sLease'[sRt'[x].owner] = x
                                                   /\ sRt'[x].degraded => ~sRt'[x].store
    BY DEF Host!StoreIsLeased
  <2>2. /\ x \in Host!Runtime /\ x # 0 /\ sRt[x].owner \in Sessions
        /\ (sRt[x].store <=> sLease[sRt[x].owner] = x) /\ (sRt[x].degraded => ~sRt[x].store)
    BY HostRuntimes
  <2>3. sLease'[sRt'[x].owner] = IF sLease[sRt[x].owner] = r THEN 0 ELSE sLease[sRt[x].owner]
    BY <1>1, <2>2
  <2>4. CASE x = r
    <3>1. sRt'[x].store = FALSE
      BY <1>1, <2>2, <2>4
    <3>2. sLease'[sRt'[x].owner] # x
      BY <2>2, <2>3, <2>4
    <3> QED
      BY <3>1, <3>2
  <2>5. CASE x # r
    BY <1>1, <2>2, <2>3, <2>5
  <2> QED
    BY <2>4, <2>5
<1> QED
  BY <1>1, <1>3, <1>4, <1>6, <1>7

LEMMA HostDisposedSafe == ASSUME Host!IInv, NEW r \in Host!Runtime, Host!Disposed(r) PROVE Host!IInv'
<1>1. /\ sTeardowns[r] > 0 /\ sShut[r] = "settled"
      /\ sTeardowns' = [sTeardowns EXCEPT ![r] = @ - 1]
      /\ sLease' = Host!Closed(r) /\ sRt' = [sRt EXCEPT ![r].store = FALSE]
      /\ sCur' = (IF sCur = r THEN 0 ELSE sCur)
      /\ UNCHANGED <<sMade, sShut, sLive, sPending, sRetained, sStarting, sWarning, sForeign>>
  BY DEF Host!Disposed, Host!Released
<1>2. /\ sTeardowns' \in [Host!Runtime -> Nat]
      /\ \A x \in Host!Runtime : x # r => sTeardowns'[x] = sTeardowns[x]
  BY <1>1 DEF Host!IInv, Host!Typed
<1>3. Host!InUse'
  BY <1>1, <1>2, HostMade DEF Host!IInv, Host!Typed, Host!InUse
<1>4. /\ Host!Typed' /\ Host!Owned' /\ Host!Over' /\ Host!TypeOK' /\ Host!LeaseCoversWorkers' /\ Host!StoreIsLeased'
      /\ \A x \in Host!Runtime : sRt'[x].owner = sRt[x].owner
      /\ \A s \in Sessions : sLease'[s] = IF sLease[s] = r THEN 0 ELSE sLease[s]
  BY <1>1, <1>2, <1>3, HostLetGo
<1>5. Host!NoLeaseForgotten'
  <2>1. sWarning' # "none" => \E q \in sRetained' : sRt'[q].owner = sWarning'
    BY <1>1, <1>4, HostMade DEF Host!IInv, Host!SessionSound, Host!NoLeaseForgotten
  <2>2. ASSUME NEW s \in Sessions, sLease'[s] \in Host!Runtime
        PROVE  sLease'[s] = sCur' \/ sTeardowns'[sLease'[s]] > 0 \/ sLease'[s] \in sRetained'
    BY <1>1, <1>2, <1>4, <2>2, HostMade DEF Host!IInv, Host!SessionSound, Host!NoLeaseForgotten
  <2> QED
    BY <2>1, <2>2 DEF Host!NoLeaseForgotten
<1> QED
  BY <1>3, <1>4, <1>5 DEF Host!IInv, Host!SessionSound

LEMMA HostRetainSafe == ASSUME Host!IInv, NEW r \in Host!Runtime, Host!Retain(r) PROVE Host!IInv'
<1>1. /\ sTeardowns[r] > 0 /\ sTeardowns' = [sTeardowns EXCEPT ![r] = @ - 1]
      /\ sRetained' = sRetained \cup {r} /\ sWarning' = sRt[r].owner
      /\ sCur' = (IF sCur = r THEN 0 ELSE sCur)
      /\ UNCHANGED <<sLease, sMade, sRt, sShut, sLive, sPending, sStarting, sForeign>>
  BY DEF Host!Retain, Host!Released, Host!Kept
<1>2. /\ sTeardowns' \in [Host!Runtime -> Nat]
      /\ \A x \in Host!Runtime : x # r => sTeardowns'[x] = sTeardowns[x]
  BY <1>1 DEF Host!IInv, Host!Typed
<1>3. r \in 1 .. sMade
  BY <1>1 DEF Host!IInv, Host!InUse, Host!Runtime
<1>4. Host!Typed' /\ Host!TypeOK'
  BY <1>1, <1>2, <1>3, HostMade DEF Host!IInv, Host!Typed, Host!SessionSound, Host!TypeOK
<1>5. Host!InUse'
  BY <1>1, <1>2, HostMade DEF Host!IInv, Host!InUse
<1>6. Host!Owned' /\ Host!Over' /\ Host!LeaseCoversWorkers' /\ Host!StoreIsLeased'
  BY <1>1, <1>2 DEF Host!IInv, Host!Owned, Host!Over, Host!SessionSound, Host!LeaseCoversWorkers,
     Host!StoreIsLeased
<1>7. Host!NoLeaseForgotten'
  BY <1>1, <1>2, HostMade DEF Host!IInv, Host!SessionSound, Host!NoLeaseForgotten
<1> QED
  BY <1>4, <1>5, <1>6, <1>7 DEF Host!IInv, Host!SessionSound

LEMMA HostSettleSafe == ASSUME Host!IInv, NEW r \in Host!Runtime, Host!SettleRetained(r) PROVE Host!IInv'
<1>1. /\ r \in sRetained /\ sShut[r] = "settled"
      /\ sLease' = Host!Closed(r) /\ sRt' = [sRt EXCEPT ![r].store = FALSE] /\ sRetained' = sRetained \ {r}
      /\ sWarning' = (IF /\ sWarning = sRt[r].owner
                         /\ \A q \in sRetained \ {r} : sRt[q].owner # sRt[r].owner THEN "none" ELSE sWarning)
      /\ UNCHANGED <<sMade, sCur, sShut, sLive, sPending, sTeardowns, sStarting, sForeign>>
  BY DEF Host!SettleRetained, Host!ReallySettled
<1>2. sTeardowns' \in [Host!Runtime -> Nat]
  BY <1>1 DEF Host!IInv, Host!Typed
<1>3. Host!InUse'
  BY <1>1, HostMade DEF Host!IInv, Host!Typed, Host!InUse
<1>4. /\ Host!Typed' /\ Host!Owned' /\ Host!Over' /\ Host!TypeOK' /\ Host!LeaseCoversWorkers' /\ Host!StoreIsLeased'
      /\ \A x \in Host!Runtime : sRt'[x].owner = sRt[x].owner
      /\ \A s \in Sessions : sLease'[s] = IF sLease[s] = r THEN 0 ELSE sLease[s]
  BY <1>1, <1>2, <1>3, HostLetGo
<1>5. Host!NoLeaseForgotten'
  <2>1. ASSUME sWarning' # "none" PROVE \E q \in sRetained' : sRt'[q].owner = sWarning'
    <3>1. sWarning' = sWarning /\ sWarning # "none"
      BY <1>1, <2>1
    <3>2. PICK q \in sRetained : sRt[q].owner = sWarning
      BY <3>1 DEF Host!IInv, Host!SessionSound, Host!NoLeaseForgotten
    <3>3. CASE q # r
      BY <1>1, <1>4, <3>1, <3>2, <3>3, HostMade
    <3>4. CASE q = r
      <4>1. PICK p \in sRetained \ {r} : sRt[p].owner = sRt[r].owner
        BY <1>1, <2>1, <3>1, <3>2, <3>4
      <4> QED
        BY <1>1, <1>4, <3>1, <3>2, <3>4, <4>1, HostMade
    <3> QED
      BY <3>3, <3>4
  <2>2. ASSUME NEW s \in Sessions, sLease'[s] \in Host!Runtime
        PROVE  sLease'[s] = sCur' \/ sTeardowns'[sLease'[s]] > 0 \/ sLease'[s] \in sRetained'
    BY <1>1, <1>4, <2>2, HostMade DEF Host!IInv, Host!SessionSound, Host!NoLeaseForgotten
  <2> QED
    BY <2>1, <2>2 DEF Host!NoLeaseForgotten
<1> QED
  BY <1>3, <1>4, <1>5 DEF Host!IInv, Host!SessionSound

LEMMA HostStartedSafe == ASSUME Host!IInv, NEW s \in Sessions, Host!Started(s) PROVE Host!IInv'
<1>1. /\ UNCHANGED <<sShut, sLive, sPending, sTeardowns, sRetained, sWarning, sForeign>>
      /\ sStarting' \subseteq Sessions
  BY DEF Host!Started, Host!IInv, Host!Typed
<1>2. CASE Host!Create(s) /\ ~Host!Open(sCur)
  BY <1>1, <1>2, HostCreateSafe DEF Host!Open
<1>3. CASE UNCHANGED <<sMade, sCur, sRt, sLease>>
  BY <1>1, <1>3 DEF Host!IInv, Host!Typed, Host!Owned, Host!Over, Host!InUse, Host!SessionSound,
     Host!TypeOK, Host!LeaseCoversWorkers,
     Host!StoreIsLeased, Host!NoLeaseForgotten
<1> QED
  BY <1>2, <1>3 DEF Host!Started

\* Another host's lease is none of ours.
LEMMA HostForeignSafe == ASSUME Host!IInv, NEW s \in Sessions, Host!ForeignTakes(s) \/ Host!ForeignLeaves(s) PROVE Host!IInv'
<1>1. /\ sLease[s] \in {0, Host!Foreign}
      /\ UNCHANGED <<sMade, sCur, sRt, sShut, sLive, sPending, sTeardowns, sRetained, sStarting, sWarning>>
      /\ sForeign' \in Nat
  BY DEF Host!ForeignTakes, Host!ForeignLeaves, Host!IInv, Host!Typed
<1>2. PICK f \in {0, Host!Foreign} : sLease' = [sLease EXCEPT ![s] = f]
  BY DEF Host!ForeignTakes, Host!ForeignLeaves
<1>3. f \in 0 .. Host!Foreign /\ f \notin Host!Runtime /\ sLease[s] \notin Host!Runtime
  BY <1>1, HostMade, SessionAssumption DEF Host!Foreign
<1>4. \A x \in Sessions : sLease'[x] = IF x = s THEN f ELSE sLease[x]
  BY <1>2 DEF Host!IInv, Host!Typed
<1>5. Host!Typed' /\ Host!TypeOK'
  BY <1>1, <1>2, <1>3 DEF Host!IInv, Host!Typed, Host!SessionSound, Host!TypeOK
<1>6. Host!Owned' /\ Host!Over' /\ Host!InUse'
  BY <1>1, <1>3, <1>4 DEF Host!IInv, Host!Owned, Host!Over, Host!InUse
<1>7. ASSUME NEW r \in 1 .. sMade PROVE sLease'[sRt[r].owner] = r <=> sLease[sRt[r].owner] = r
  BY <1>3, <1>4, HostMade, HostRuntimes
<1>8. Host!LeaseCoversWorkers' /\ Host!StoreIsLeased'
  BY <1>1, <1>7, HostMade DEF Host!IInv, Host!SessionSound, Host!LeaseCoversWorkers, Host!StoreIsLeased
<1>9. Host!NoLeaseForgotten'
  BY <1>1, <1>3, <1>4 DEF Host!IInv, Host!SessionSound, Host!NoLeaseForgotten
<1> QED
  BY <1>5, <1>6, <1>8, <1>9 DEF Host!IInv, Host!SessionSound

LEMMA HostInit == Host!Init => Host!IInv
<1> SUFFICES ASSUME Host!Init PROVE Host!IInv
  OBVIOUS
<1>1. Host!Typed
  BY SessionAssumption DEF Host!Init, Host!Typed, Host!Blank, Host!Foreign
<1>2. Host!Owned /\ Host!Over /\ Host!InUse
  BY SessionAssumption DEF Host!Init, Host!Owned, Host!Over, Host!InUse, Host!Runtime
<1>3. Host!SessionSound
  BY SessionAssumption DEF Host!Init, Host!SessionSound, Host!TypeOK, Host!LeaseCoversWorkers,
     Host!StoreIsLeased, Host!NoLeaseForgotten, Host!Runtime, Host!Foreign
<1> QED
  BY <1>1, <1>2, <1>3 DEF Host!IInv

\* No step breaks the invariant.
LEMMA HostNextSafe == Host!IInv /\ [Host!Next]_(Host!vars) => Host!IInv'
<1>1. Host!IInv /\ UNCHANGED Host!vars => Host!IInv'
  BY DEF Host!vars, Host!IInv, Host!Typed, Host!Owned, Host!Over, Host!InUse, Host!SessionSound,
     Host!TypeOK, Host!LeaseCoversWorkers,
     Host!StoreIsLeased, Host!NoLeaseForgotten
<1> QED
  BY <1>1, HostEnsureSafe, HostReclaimSafe, HostWorkSafe, HostDestroySafe, HostShutdownSafe,
     HostDisposedSafe,
     HostRetainSafe, HostSettleSafe, HostStartedSafe, HostForeignSafe DEF Host!Next

LEMMA HostImplies == Host!IInv => Host!SessionSound
BY DEF Host!IInv

\* The lease of a session covers its workers, whoever comes and goes.
THEOREM SessionsAreSound == Host!Spec => []Host!SessionSound
<1>1. Host!Init => Host!IInv
  BY HostInit
<1>2. Host!IInv /\ [Host!Next]_(Host!vars) => Host!IInv'
  BY HostNextSafe
<1>3. Host!IInv => Host!SessionSound
  BY HostImplies
<1> QED
  BY <1>1, <1>2, <1>3, PTL DEF Host!Spec

-----------------------------------------------------------------------------
(* Calls of the hub, HubCalls, as the instance Hub of MCRuns.              *)

\* HubCalls counts with the same operator.
LEMMA HubSize == \A S : Hub!Cardinality(S) = Cardinality(S)
BY DEF Hub!Cardinality, Cardinality

\* A step of one call leaves the others where they are.
LEMMA HubCallMoves ==
  ASSUME Hub!IInv, NEW c \in Calls, NEW place \in {"routing", "waiting", "over"}, Hub!To(c, place)
  PROVE  /\ hCall' \in [Calls -> [kind : Hub!Kinds, at : {"new", "routing", "waiting", "over"}]]
         /\ \A d \in Calls : hCall'[d].at = IF d = c THEN place ELSE hCall[d].at
BY DEF Hub!IInv, Hub!HubSound, Hub!TypeOK, Hub!To

\* What is claimed was claimed by a call.
LEMMA HubCallsAreSome == ASSUME NEW c \in Calls PROVE Cardinality(Calls) \in Nat /\ 1 \in 0 .. Cardinality(Calls)
<1>1. Cardinality(Calls) \in Nat
  BY HubAssumption, FS_CardinalityType
<1>2. Cardinality(Calls) # 0
  BY HubAssumption, FS_EmptySet
<1> QED
  BY <1>1, <1>2

LEMMA HubAskResumeSafe == ASSUME Hub!IInv, NEW c \in Calls, Hub!AskResume(c) PROVE Hub!IInv'
<1>1. PICK repaired \in BOOLEAN :
        /\ hBlocked' = (hBlocked /\ ~repaired)
        /\ Hub!To(c, IF Hub!Fit /\ hRun = "partial" /\ ~hBlocked' THEN "routing" ELSE "over")
  BY DEF Hub!AskResume
<1>2. UNCHANGED <<hHost, hFull, hRun, hResume, hNext, hClaimed, hGiven, hSeen, hFaults>>
  BY DEF Hub!AskResume
<1>3. PICK place \in {"routing", "over"} : Hub!To(c, place) /\ (place = "routing" => hRun = "partial")
  BY <1>1
<1>4. /\ hCall' \in [Calls -> [kind : Hub!Kinds, at : {"new", "routing", "waiting", "over"}]]
      /\ \A d \in Calls : hCall'[d].at = IF d = c THEN place ELSE hCall[d].at
  BY <1>3, HubCallMoves
<1>5. hBlocked' \in BOOLEAN
  BY <1>1 DEF Hub!IInv, Hub!HubSound, Hub!TypeOK
<1> QED
  BY <1>2, <1>3, <1>4, <1>5 DEF Hub!IInv, Hub!HubSound, Hub!TypeOK, Hub!NeverTwoWorkers, Hub!UsageOnce,
     Hub!Routed, Hub!Counted

LEMMA HubReserveSafe == ASSUME Hub!IInv, NEW c \in Calls, Hub!Reserve(c) PROVE Hub!IInv'
<1>1. PICK r \in Hub!Reserved :
        /\ hResume' = CASE r = "refused" -> hResume
                       [] r = "unsaved" -> "spent"
                       [] OTHER         -> r
        /\ hBlocked' = (hBlocked \/ r # "spent")
        /\ hFaults' = IF r \in Hub!Failing /\ hHost # "closed" THEN hFaults + 1 ELSE hFaults
        /\ hNext' = CASE r = "unsaved" -> "lost"
                     [] r = "spent" -> IF hNext # "none" THEN "second"
                                       ELSE IF hHost = "open" /\ ~hFull THEN "running"
                                       ELSE "lost"
                     [] OTHER -> hNext
  BY DEF Hub!Reserve
<1>2. hCall[c].at = "routing" /\ Hub!To(c, "over") /\ UNCHANGED <<hHost, hFull, hRun, hClaimed, hGiven, hSeen>>
  BY DEF Hub!Reserve
<1>3. /\ hCall' \in [Calls -> [kind : Hub!Kinds, at : {"new", "routing", "waiting", "over"}]]
      /\ \A d \in Calls : hCall'[d].at = IF d = c THEN "over" ELSE hCall[d].at
  BY <1>2, HubCallMoves
<1>4. hRun = "partial" /\ r \in {"refused", "pending", "unsaved", "spent"}
  BY <1>1, <1>2 DEF Hub!IInv, Hub!Routed, Hub!Reserved, Hub!Failing
<1>5. r # "refused" => hResume = "free" /\ hNext = "none"
  BY <1>1, <1>4 DEF Hub!IInv, Hub!HubSound, Hub!NeverTwoWorkers, Hub!Reserved, Hub!Failing
<1>6. hFaults' \in 0 .. HubFaults
  BY <1>1, HubAssumption DEF Hub!IInv, Hub!HubSound, Hub!TypeOK, Hub!Reserved, Hub!Failing
<1>7. /\ hResume' \in {"free", "pending", "spent"} /\ hNext' \in {"none", "running", "ended", "lost"}
      /\ hNext' # "none" => hResume' = "spent"
  <2>1. CASE r = "refused"
    BY <1>1, <2>1 DEF Hub!IInv, Hub!HubSound, Hub!TypeOK, Hub!NeverTwoWorkers
  <2>2. CASE r = "pending"
    BY <1>1, <1>5, <2>2
  <2>3. CASE r = "unsaved"
    BY <1>1, <2>3
  <2>4. CASE r = "spent"
    BY <1>1, <1>5, <2>4
  <2> QED
    BY <1>4, <2>1, <2>2, <2>3, <2>4
<1>8. hBlocked' \in BOOLEAN
  BY <1>1 DEF Hub!IInv, Hub!HubSound, Hub!TypeOK
<1> QED
  BY <1>2, <1>3, <1>4, <1>6, <1>7, <1>8
  DEF Hub!IInv, Hub!HubSound, Hub!TypeOK, Hub!NeverTwoWorkers, Hub!UsageOnce, Hub!Routed, Hub!Counted

\* Calls that end, or wait, and at most show the run.
LEMMA HubLookSafe ==
  ASSUME Hub!IInv, NEW c \in Calls, Hub!RouteChanged(c) \/ Hub!Status(c) \/ Hub!Wait(c) \/ Hub!WaitTimesOut(c)
  PROVE  Hub!IInv'
<1>1. PICK place \in {"waiting", "over"} : Hub!To(c, place)
  BY DEF Hub!RouteChanged, Hub!Status, Hub!Wait, Hub!WaitTimesOut
<1>2. UNCHANGED <<hHost, hFull, hRun, hResume, hNext, hBlocked, hClaimed, hGiven, hFaults>>
  BY DEF Hub!RouteChanged, Hub!Status, Hub!Wait, Hub!WaitTimesOut
<1>3. hSeen' \in BOOLEAN /\ (hSeen => hSeen')
  BY DEF Hub!RouteChanged, Hub!Status, Hub!Wait, Hub!WaitTimesOut, Hub!IInv, Hub!HubSound, Hub!TypeOK
<1>4. /\ hCall' \in [Calls -> [kind : Hub!Kinds, at : {"new", "routing", "waiting", "over"}]]
      /\ \A d \in Calls : hCall'[d].at = IF d = c THEN place ELSE hCall[d].at
  BY <1>1, HubCallMoves
<1> QED
  BY <1>1, <1>2, <1>3, <1>4 DEF Hub!IInv, Hub!HubSound, Hub!TypeOK, Hub!NeverTwoWorkers, Hub!UsageOnce,
     Hub!Routed, Hub!Counted

LEMMA HubCancelSafe == ASSUME Hub!IInv, NEW c \in Calls, Hub!Cancel(c) PROVE Hub!IInv'
<1>1. /\ Hub!To(c, "over") /\ hRun' = (IF hRun = "running" THEN "partial" ELSE hRun)
      /\ UNCHANGED <<hHost, hFull, hResume, hNext, hBlocked, hClaimed, hGiven, hSeen, hFaults>>
  BY DEF Hub!Cancel
<1>2. /\ hCall' \in [Calls -> [kind : Hub!Kinds, at : {"new", "routing", "waiting", "over"}]]
      /\ \A d \in Calls : hCall'[d].at = IF d = c THEN "over" ELSE hCall[d].at
  BY <1>1, HubCallMoves
<1> QED
  BY <1>1, <1>2 DEF Hub!IInv, Hub!HubSound, Hub!TypeOK, Hub!NeverTwoWorkers, Hub!UsageOnce, Hub!Routed,
     Hub!Counted

LEMMA HubWaitSettlesSafe == ASSUME Hub!IInv, NEW c \in Calls, Hub!WaitSettles(c) PROVE Hub!IInv'
<1>1. /\ Hub!To(c, "over") /\ hRun # "running"
      /\ UNCHANGED <<hHost, hFull, hRun, hResume, hNext, hBlocked, hFaults>>
  BY DEF Hub!WaitSettles
<1>2. /\ hCall' \in [Calls -> [kind : Hub!Kinds, at : {"new", "routing", "waiting", "over"}]]
      /\ \A d \in Calls : hCall'[d].at = IF d = c THEN "over" ELSE hCall[d].at
  BY <1>1, HubCallMoves
<1>3. /\ hGiven' \in {0, 1} /\ hClaimed' \in BOOLEAN /\ hSeen' \in BOOLEAN
      /\ hGiven' = (IF hClaimed' THEN 1 ELSE 0) /\ (hClaimed' => hSeen')
  <2>1. CASE hHost = "open"
    <3>1. hSeen' = TRUE /\ hClaimed' = TRUE /\ hGiven' = IF ~hClaimed THEN hGiven + 1 ELSE hGiven
      BY <2>1 DEF Hub!WaitSettles, Hub!First
    <3>2. hGiven' = 1
      BY <3>1 DEF Hub!IInv, Hub!Counted
    <3> QED
      BY <3>1, <3>2
  <2>2. CASE hHost # "open"
    <3>1. UNCHANGED <<hClaimed, hGiven, hSeen>>
      BY <2>2 DEF Hub!WaitSettles
    <3>2. hClaimed \in BOOLEAN /\ hSeen \in BOOLEAN /\ hGiven = (IF hClaimed THEN 1 ELSE 0) /\ (hGiven = 1 => hSeen)
      BY DEF Hub!IInv, Hub!HubSound, Hub!TypeOK, Hub!UsageOnce, Hub!Counted
    <3> QED
      BY <3>1, <3>2
  <2> QED
    BY <2>1, <2>2
<1>4. hGiven' \in 0 .. Cardinality(Calls)
  BY <1>3, HubCallsAreSome
<1> QED
  BY HubSize, <1>1, <1>2, <1>3, <1>4 DEF Hub!IInv, Hub!HubSound, Hub!TypeOK, Hub!NeverTwoWorkers,
     Hub!UsageOnce, Hub!Routed, Hub!Counted

\* The run and its successor end, other runs come and go, the session ends.
LEMMA HubOutsideSafe ==
  ASSUME Hub!IInv, Hub!Settles \/ Hub!Others \/ Hub!Closing \/ Hub!Closes \/ UNCHANGED Hub!vars
  PROVE  Hub!IInv'
<1>1. UNCHANGED <<hResume, hBlocked, hCall, hClaimed, hGiven, hSeen, hFaults>>
  BY DEF Hub!Settles, Hub!Others, Hub!Closing, Hub!Closes, Hub!vars
<1>2. /\ hRun' \in {"running", "done", "partial"} /\ (hRun # "running" => hRun' = hRun)
      /\ hNext' \in {"none", "running", "ended", "lost"} /\ (hNext = "none" => hNext' = "none")
  BY DEF Hub!Settles, Hub!Others, Hub!Closing, Hub!Closes, Hub!vars, Hub!IInv, Hub!HubSound, Hub!TypeOK,
     Hub!NeverTwoWorkers
<1>3. hHost' \in {"open", "closing", "closed"} /\ hFull' \in BOOLEAN
  BY DEF Hub!Settles, Hub!Others, Hub!Closing, Hub!Closes, Hub!vars, Hub!IInv, Hub!HubSound, Hub!TypeOK
<1> QED
  BY <1>1, <1>2, <1>3 DEF Hub!IInv, Hub!HubSound, Hub!TypeOK, Hub!NeverTwoWorkers, Hub!UsageOnce,
     Hub!Routed, Hub!Counted

LEMMA HubInit == Hub!Init => Hub!IInv
<1>1. 0 \in 0 .. Cardinality(Calls) /\ 0 \in 0 .. HubFaults
  BY HubAssumption, FS_CardinalityType
<1>2. Hub!Init => /\ hCall \in [Calls -> [kind : Hub!Kinds, at : {"new", "routing", "waiting", "over"}]]
                  /\ \A c \in Calls : hCall[c].at = "new"
  BY DEF Hub!Init
<1>3. Hub!Init => Hub!TypeOK
  BY HubSize, <1>1, <1>2 DEF Hub!Init, Hub!TypeOK
<1>4. Hub!Init => Hub!NeverTwoWorkers /\ Hub!UsageOnce /\ Hub!Routed /\ Hub!Counted
  BY <1>2 DEF Hub!Init, Hub!NeverTwoWorkers, Hub!UsageOnce, Hub!Routed, Hub!Counted
<1> QED
  BY <1>3, <1>4 DEF Hub!IInv, Hub!HubSound

\* No step breaks the invariant.
LEMMA HubNextSafe == Hub!IInv /\ [Hub!Next]_(Hub!vars) => Hub!IInv'
BY HubAskResumeSafe, HubReserveSafe, HubLookSafe, HubCancelSafe, HubWaitSettlesSafe, HubOutsideSafe
DEF Hub!Next, Hub!Own

LEMMA HubImplies == Hub!IInv => Hub!HubSound
BY DEF Hub!IInv

\* A run is resumed once at most and its usage counted once, whoever asks.
THEOREM HubCallsAreSound == Hub!Spec => []Hub!HubSound
<1>1. Hub!Init => Hub!IInv
  BY HubInit
<1>2. Hub!IInv /\ [Hub!Next]_(Hub!vars) => Hub!IInv'
  BY HubNextSafe
<1>3. Hub!IInv => Hub!HubSound
  BY HubImplies
<1> QED
  BY <1>1, <1>2, <1>3, PTL DEF Hub!Spec

-----------------------------------------------------------------------------
(* Sessions and hub together, as a run of the model checker sees them.     *)

\* A step is one of its part, and none of the others.
LEMMA RunsSteps ==
  ASSUME [MCNext]_allVars
  PROVE  [Host!Next]_(Host!vars) /\ [Hub!Next]_(Hub!vars)
BY DEF MCNext, Still, allVars, hostVars, hubVars,
   Host!vars, Hub!vars

\* Whatever sessions come and go and whoever calls the hub: the lease of a session
\* covers its workers, a run is resumed once and its usage counted once.
THEOREM HostIsSound == MCSpec => []HostSound
<1> DEFINE I == Host!IInv /\ Hub!IInv
<1>1. MCInit => I
  BY HostInit, HubInit DEF MCInit
<1>2. I /\ [MCNext]_allVars => I'
  <2> SUFFICES ASSUME I, [MCNext]_allVars PROVE I'
    OBVIOUS
  <2>1. Host!IInv'
    BY RunsSteps, HostNextSafe
  <2>2. Hub!IInv'
    BY RunsSteps, HubNextSafe
  <2> QED
    BY <2>1, <2>2
<1>3. I => HostSound
  BY HostImplies, HubImplies DEF HostSound
<1> QED
  BY <1>1, <1>2, <1>3, PTL DEF MCSpec
=============================================================================
