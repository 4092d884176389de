---------------------------- MODULE Coordinator ----------------------------
(***************************************************************************)
(* One run of the subagent coordinator (src/src/subagents/coordinator.ts): *)
(* the width of the run, the launch of each task through the session and   *)
(* machine tiers, the attempts of its worker, stops by the user or by a    *)
(* deadline, settlement, accounting and waits.                             *)
(*                                                                         *)
(* The process is single-threaded: an action is what runs from one await,  *)
(* timer or callback to the next.  The observers are called synchronously  *)
(* and may call back into the coordinator; where execute looks again after *)
(* observe, the action ends at the observe, so that any step may come in   *)
(* between.                                                                *)
(*                                                                         *)
(* The launch tiers are those of SessionScheduler and MachineAcquire: a    *)
(* request is granted at some time, or refused once its signal is aborted  *)
(* or, by the machine tier, at its deadline or when the storage fails.     *)
(***************************************************************************)
EXTENDS Naturals, FiniteSets

CONSTANTS Task,         \* the tasks of the run, 1 .. n, in their order
          Reviewer,     \* tasks with a launch deadline of their own
          Concurrency,  \* the width of the run
          MaxTurns,     \* turn budget of a task
          Result,       \* the kinds of results a worker may return
          Alternates,   \* number of alternate routes; replies are retried when
          Classed,      \* ... the run is classed
          Waiter,       \* calls of wait
          ModeOf(_)     \* "all" or "next"

ASSUME RunAssumption ==
  /\ IsFiniteSet(Task) /\ Task = 1 .. Cardinality(Task) /\ Task # {}
  /\ Reviewer \subseteq Task
  /\ Concurrency \in Nat \ {0} /\ MaxTurns \in Nat \ {0} /\ Alternates \in Nat
  /\ Classed \in BOOLEAN
  /\ \A w \in Waiter : ModeOf(w) \in {"all", "next"}

MaxResumes == 2   \* MAX_AUTO_RESUMES

Terminal == {"done", "failed", "aborted", "timed_out"}

\* What a worker answers: a report, an empty reply, or an error, which is a
\* refusal of the route (quota), one that may also pass (http-5xx), a
\* transient fault, or none of these.
Kind == {"report", "empty", "quota", "overloaded", "transient", "other"}
ASSUME ResultAssumption == Result \subseteq [state : Terminal, kind : Kind]

VARIABLES
  pc,         \* task -> where execute is; "undispatched" before pump takes it
  state,      \* task -> its recorded state
  stop,       \* task -> stopState, set exactly when its signal is aborted
  turns,      \* task -> recorded turns (usage is carried in the same way)
  prior,      \* task -> turns of its earlier attempts
  attempts,   \* task -> calls of the runner so far
  retried,    \* tasks whose empty reply was retried on the same route
  alternate,  \* task -> alternate routes taken
  leases,     \* tasks that hold a lease of the session scheduler
  slots,      \* tasks that hold machine launch slots
  run,        \* the run: [state, accepting, inFlight, completions, turns]
  passed,     \* points of time that have passed: "review", "late", "over"
  armed,      \* timers: [run: the deadline's, launch: those of reviewers]
  waiter,     \* wait call -> [status, baseline]
  history     \* [halted: task -> attempts when first stopped, cancelled: tasks]

attemptVars == <<prior, attempts, retried, alternate>>
tiers == <<leases, slots>>
vars == <<pc, state, stop, turns, attemptVars, tiers, run, passed, armed, waiter, history>>

Launching == {"queued", "granted", "announced", "acquiring", "acquired"}
Working == {"started", "working", "retrying", "resuming", "backoff"}
Labels == {"undispatched", "lingering", "leaving", "gone"} \cup Launching \cup Working

Never == MaxTurns + MaxResumes + Alternates + 10   \* more attempts than there are

-----------------------------------------------------------------------------
(* Settlement.                                                             *)

Aggregate(st) ==
  CASE \E t \in Task : st[t] \in {"failed", "timed_out"} -> "failed"
    [] (\A t \in Task : st[t] \notin {"failed", "timed_out"}) /\ (\E t \in Task : st[t] = "aborted") -> "aborted"
    [] OTHER -> "done"

\* The predicate of wait, for the run r.
Ready(w, r) == \/ r.state # "running"
               \/ ModeOf(w) = "next" /\ r.completions > waiter[w].baseline

\* Seeded bug: the listeners are told of the end of the run only.
BugNotifyAtEnd(r) == waiter' = [w \in Waiter |-> IF waiter[w].status = "waiting" /\ r.state # "running"
                                                 THEN [waiter[w] EXCEPT !.status = "resolved"]
                                                 ELSE waiter[w]]

\* notify: the listeners look at the run again.
Notify(r) == waiter' = [w \in Waiter |-> IF waiter[w].status = "waiting" /\ Ready(w, r)
                                         THEN [waiter[w] EXCEPT !.status = "resolved"]
                                         ELSE waiter[w]]

\* The tasks the pump dispatches: the first of those not yet dispatched, as
\* many as the width leaves room for.
Fresh(st) == {t \in Task : pc[t] = "undispatched" /\ st[t] = "queued"}

Pumped(st, r) == IF r.accepting /\ r.state = "running"
                 THEN {t \in Fresh(st) : r.inFlight + Cardinality({u \in Fresh(st) : u < t}) < Concurrency}
                 ELSE {}

\* Seeded bug: a task that was stopped counts as ended before its worker is.
BugStoppedCounts(st) == \A t \in Task : st[t] \in Terminal \/ stop[t] # "none"

\* finishRunIfSettled: the run settles with its last task.
AllEnded(st) == \A t \in Task : st[t] \in Terminal

\* addUsage: the turns of the tasks S, one by one, when f tells how many each took.
TurnsOf(S, f) == {x \in S \X (1 .. MaxTurns) : x[2] <= f[x[1]]}

\* finishTask for the tasks in the domain of ending, in any order; a task that
\* is terminal already stays as it is.  r is the run as the handler leaves it
\* otherwise, pumping whether it ends with a pump, and where the label of the
\* task that the handler is about.
Finish(ending, r, pumping, where) ==
  LET ended == {t \in DOMAIN ending : state[t] \notin Terminal}
      st == [t \in Task |-> IF t \in ended THEN ending[t] ELSE state[t]]
      over == r.state = "running" /\ AllEnded(st)
      settled == [r EXCEPT !.completions = @ + Cardinality(ended),
                           !.turns = @ + Cardinality(TurnsOf(ended, turns')),
                           !.state = IF over THEN Aggregate(st) ELSE @,
                           !.accepting = @ /\ ~over]
      new == IF pumping THEN Pumped(st, settled) ELSE {}
  IN /\ state' = st
     /\ run' = [settled EXCEPT !.inFlight = @ + Cardinality(new)]
     /\ pc' = [t \in Task |-> IF t \in new THEN "queued"
                              ELSE IF t \in DOMAIN where THEN where[t] ELSE pc[t]]
     /\ Notify(settled)

\* The timers left of a: those of live tasks and of a live run.
Timers(a) == armed' = [run |-> a.run /\ run'.state = "running",
                       launch |-> {t \in a.launch : state'[t] \notin Terminal}]

Nobody == [t \in {} |-> "none"]
Only(t, x) == [u \in {t} |-> x]

\* stopTask for the tasks S that are not terminal: those never dispatched end at once.
Stop(S, how, r, pumping) ==
  LET stopped == {t \in S : state[t] \notin Terminal} IN
  /\ stop' = [t \in Task |-> IF t \in stopped THEN how ELSE stop[t]]
  /\ history' = [history EXCEPT
       !.halted = [t \in Task |-> IF t \in stopped /\ stop[t] = "none" THEN attempts[t] ELSE @[t]],
       !.cancelled = @ \cup {t \in stopped : stop[t] = "none" /\ how = "aborted"}]
  /\ UNCHANGED turns
  /\ Finish([t \in {u \in stopped : pc[u] = "undispatched"} |-> how], r, pumping, Nobody)

-----------------------------------------------------------------------------
(* Start: the state in which start() returns.                              *)

Init ==
  /\ pc = [t \in Task |-> IF t <= Concurrency THEN "queued" ELSE "undispatched"]
  /\ state = [t \in Task |-> "queued"]
  /\ stop = [t \in Task |-> "none"]
  /\ turns = [t \in Task |-> 0]
  /\ prior = [t \in Task |-> 0]
  /\ attempts = [t \in Task |-> 0]
  /\ retried = {}
  /\ alternate = [t \in Task |-> 0]
  /\ leases = {} /\ slots = {}
  /\ run = [state |-> "running", accepting |-> TRUE, completions |-> 0, turns |-> 0,
            inFlight |-> Cardinality({t \in Task : t <= Concurrency})]
  /\ passed = {}
  /\ armed = [run |-> TRUE, launch |-> Reviewer]
  /\ waiter = [w \in Waiter |-> [status |-> "idle", baseline |-> 0]]
  /\ history = [halted |-> [t \in Task |-> Never], cancelled |-> {}]

\* The continuation of t is a microtask: it runs before any timer fires.
Pending(t) == \/ pc[t] \in {"granted", "announced", "acquired", "started", "retrying", "resuming", "leaving"}
              \/ pc[t] \in {"queued", "acquiring", "backoff"} /\ stop[t] # "none"
TimerTurn == \A t \in Task : ~Pending(t)

-----------------------------------------------------------------------------
(* The launch of a task.                                                   *)

Quiet == UNCHANGED <<turns, attemptVars, passed>>

\* catch: an error in or before the launch, or in the worker, ends the task.
\* The finally blocks have given back what the launch held.
Why(t) ==
  CASE stop[t] # "none" -> stop[t]
    [] stop[t] = "none" /\ pc[t] \in Launching
         /\ ("over" \in passed \/ (t \in Reviewer /\ "review" \in passed)) -> "timed_out"
    [] OTHER -> "none"

Throw(t) ==
  /\ stop' = [stop EXCEPT ![t] = Why(t)]
  /\ history' = IF stop[t] = "none" /\ Why(t) # "none"
                THEN [history EXCEPT !.halted[t] = attempts[t]] ELSE history
  /\ leases' = leases \ {t} /\ slots' = slots \ {t}
  /\ Quiet
  /\ Finish(Only(t, IF Why(t) = "none" THEN "failed" ELSE Why(t)), run, FALSE, Only(t, "leaving"))
  /\ Timers(armed)

\* Moves on without an end of any task.
Goto(t, label) == /\ pc' = [pc EXCEPT ![t] = label]
                  /\ UNCHANGED <<stop, run, waiter, history>>

\* Seeded bug: no abort listener; an aborted request stays in the queue.
BugNoListener(t) == /\ pc[t] = "queued"
                    /\ stop[t] = "none"
                    /\ leases' = leases \cup {t}
                    /\ Goto(t, "granted")
                    /\ Quiet
                    /\ UNCHANGED <<state, slots, armed>>

\* The session tier grants a lease; an aborted request is taken out of its queue.
SessionGrant(t) == /\ pc[t] = "queued"
                   /\ \/ /\ stop[t] = "none"
                         /\ leases' = leases \cup {t}
                         /\ Goto(t, "granted")
                         /\ Quiet
                         /\ UNCHANGED <<state, slots, armed>>
                      \/ stop[t] # "none" /\ Throw(t)

\* "starting", up to the observe.
Announce(t) == /\ pc[t] = "granted"
               /\ \/ stop[t] # "none" /\ Throw(t)
                  \/ /\ stop[t] = "none"
                     /\ state' = [state EXCEPT ![t] = "starting"]
                     /\ Goto(t, "announced")
                     /\ Quiet
                     /\ UNCHANGED <<tiers, armed>>

\* From there to the wait for machine slots.
Acquire(t) == /\ pc[t] = "announced"
              /\ \/ (stop[t] # "none" \/ "over" \in passed) /\ Throw(t)
                 \/ /\ stop[t] = "none" /\ "over" \notin passed
                    /\ Goto(t, "acquiring")
                    /\ Quiet
                    /\ UNCHANGED <<state, tiers, armed>>

MachineGrant(t) == /\ pc[t] = "acquiring" /\ stop[t] = "none"
                   /\ slots' = slots \cup {t}
                   /\ Goto(t, "acquired")
                   /\ Quiet
                   /\ UNCHANGED <<state, leases, armed>>

\* Aborted, or at the end of the smaller of both budgets.
Expired(t) == stop[t] # "none" \/ "over" \in passed \/ (t \in Reviewer /\ "review" \in passed)
MachineRefuse(t) == pc[t] = "acquiring" /\ Expired(t) /\ Throw(t)
MachineError(t) == pc[t] = "acquiring" /\ ~Expired(t) /\ Throw(t)

\* With both: look again, then "running", up to the observe.
Launch(t) == /\ pc[t] = "acquired"
             /\ \/ Expired(t) /\ Throw(t)
                \/ /\ ~Expired(t)
                   /\ state' = [state EXCEPT ![t] = "running"]
                   /\ armed' = [armed EXCEPT !.launch = @ \ {t}]
                   /\ Goto(t, "started")
                   /\ Quiet
                   /\ UNCHANGED tiers

-----------------------------------------------------------------------------
(* The attempts of the worker.                                             *)

\* The call of the runner.
Attempt(t) == /\ attempts' = [attempts EXCEPT ![t] = @ + 1]
              /\ Goto(t, "working")
              /\ UNCHANGED <<state, tiers, armed, prior, retried, alternate, passed>>

\* Seeded bug: the signal is not looked at again after the observe.
BugNoSecondLook(t) == pc[t] = "started" /\ Attempt(t) /\ UNCHANGED turns

FirstAttempt(t) == /\ pc[t] = "started"
                   /\ \/ stop[t] # "none" /\ Throw(t)
                      \/ stop[t] = "none" /\ Attempt(t) /\ UNCHANGED turns

\* Seeded bug: the progress of a later attempt does not count the earlier ones.
BugAttemptLocal(t) ==
  /\ pc[t] \in {"working", "lingering", "leaving", "gone"} /\ attempts[t] > 0
  /\ state[t] \notin Terminal
  /\ \E s \in {"running", "waiting"}, k \in 0 .. MaxTurns - prior[t] :
       /\ prior[t] + k >= turns[t]
       /\ state' = [state EXCEPT ![t] = s]
       /\ turns' = [turns EXCEPT ![t] = k]
  /\ UNCHANGED <<pc, stop, attemptVars, tiers, run, passed, armed, waiter, history>>

\* applyProgress: from a worker at work, or late, when its task has ended.
Progress(t) ==
  /\ pc[t] \in {"working", "lingering", "leaving", "gone"} /\ attempts[t] > 0
  /\ state[t] \notin Terminal
  /\ \E s \in {"running", "waiting"}, k \in 0 .. MaxTurns - prior[t] :
       /\ prior[t] + k >= turns[t]
       /\ state' = [state EXCEPT ![t] = s]
       /\ turns' = [turns EXCEPT ![t] = prior[t] + k]
  /\ UNCHANGED <<pc, stop, attemptVars, tiers, run, passed, armed, waiter, history>>

EmptyReply(r) == r.kind = "empty" /\ r.state \in {"done", "failed"}
HardRefusal(r) == r.state = "failed" /\ r.kind \in {"quota", "overloaded"}
\* Seeded bug: resumes without end.
BugEndlessResume(t, r) == r.state = "failed" /\ r.kind \in {"transient", "overloaded"}

Transient(t, r) == r.state = "failed" /\ r.kind \in {"transient", "overloaded"} /\ attempts[t] <= MaxResumes

\* What both kinds of another attempt need.
Affordable(t, total) == stop[t] = "none" /\ total < MaxTurns /\ "late" \notin passed

SameRoute(t, r) == EmptyReply(r) /\ t \notin retried
OtherRoute(t, r) == ~SameRoute(t, r) /\ alternate[t] < Alternates
Retries(t, r, total) == /\ Classed /\ Affordable(t, total)
                        /\ EmptyReply(r) \/ HardRefusal(r)
                        /\ SameRoute(t, r) \/ OtherRoute(t, r)

\* A result comes in.  A worker tells of an abort only after one.
Results(t) == {r \in Result : r.state \in {"aborted", "timed_out"} => stop[t] # "none"}

\* The worker's turns so far, and not fewer than it had reported.
Totals(t) == {n \in prior[t] .. MaxTurns : n >= turns[t]}

\* An empty or refused reply of a classed run: once more on the same route, then
\* on the next.  The variables local to the loop are set before its await.
ReturnRetry(t) ==
  /\ pc[t] = "working"
  /\ \E r \in Results(t), n \in Totals(t) :
       /\ Retries(t, r, n)
       /\ prior' = [prior EXCEPT ![t] = n]
       /\ retried' = IF SameRoute(t, r) THEN retried \cup {t} ELSE retried
       /\ alternate' = [alternate EXCEPT ![t] = IF SameRoute(t, r) THEN @ ELSE @ + 1]
  /\ Goto(t, "retrying")
  /\ UNCHANGED <<state, turns, attempts, tiers, passed, armed>>

\* After the await: the turns so far are recorded, and the next attempt is made
\* without another look at the signal.
Retry(t) == /\ pc[t] = "retrying"
            /\ turns' = [turns EXCEPT ![t] = prior[t]]
            /\ Attempt(t)

\* A transient fault of a worker whose session is known.
ReturnResume(t) ==
  /\ pc[t] = "working"
  /\ \E r \in Results(t), n \in Totals(t) :
       /\ ~Retries(t, r, n) /\ Transient(t, r) /\ Affordable(t, n)
       /\ prior' = [prior EXCEPT ![t] = n]
  /\ Goto(t, "resuming")
  /\ UNCHANGED <<state, turns, attempts, retried, alternate, tiers, passed, armed>>

Resume(t) == /\ pc[t] = "resuming"
             /\ turns' = [turns EXCEPT ![t] = prior[t]]
             /\ Goto(t, "backoff")
             /\ UNCHANGED <<state, attemptVars, tiers, passed, armed>>

\* Seeded bug: the worker's result is reported, whatever stopped it.
BugResultWins(t, r) == IF r.state = "done" /\ r.kind = "empty" THEN "failed" ELSE r.state

\* The result ends the task; a stop takes precedence, and a report must have a
\* body.  A worker that could not be disposed of in time leaves its cleanup
\* pending, and the task its lease and slots with it.
EndOf(t, r) == CASE stop[t] # "none" -> stop[t]
                 [] stop[t] = "none" /\ r.state = "done" /\ r.kind = "empty" -> "failed"
                 [] OTHER -> r.state

\* Seeded bug: the lease and the slots go back without a wait for the disposal.
BugNoDisposalWait(t) ==
  /\ pc[t] = "working"
  /\ \E r \in Results(t), n \in Totals(t) :
       /\ ~Retries(t, r, n)
       /\ turns' = [turns EXCEPT ![t] = n]
       /\ \E where \in {"leaving"} \cup {x \in {"lingering"} : stop[t] # "none" \/ r.kind = "other"} :
            Finish(Only(t, EndOf(t, r)), run, FALSE, Only(t, where))
  /\ leases' = leases \ {t} /\ slots' = slots \ {t}
  /\ Timers(armed)
  /\ UNCHANGED <<stop, attemptVars, passed, history>>

ReturnEnd(t) ==
  /\ pc[t] = "working"
  /\ \E r \in Results(t), n \in Totals(t) :
       /\ ~Retries(t, r, n)
       /\ turns' = [turns EXCEPT ![t] = n]
       /\ \E where \in {"leaving"} \cup {x \in {"lingering"} : stop[t] # "none" \/ r.kind = "other"} :
            Finish(Only(t, EndOf(t, r)), run, FALSE, Only(t, where))
  /\ Timers(armed)
  /\ UNCHANGED <<stop, attemptVars, tiers, passed, history>>

WorkerThrows(t) == pc[t] = "working" /\ Throw(t)

\* abortableDelay: the next attempt, or the end when it is cut short.
Backoff(t) ==
  /\ pc[t] = "backoff"
  /\ \/ stop[t] = "none" /\ TimerTurn /\ Attempt(t) /\ UNCHANGED turns
     \/ /\ stop[t] # "none"
        /\ UNCHANGED turns
        /\ Finish(Only(t, stop[t]), run, FALSE, Only(t, "leaving"))
        /\ Timers(armed)
        /\ UNCHANGED <<stop, attemptVars, tiers, passed, history>>

\* The late disposal is done.
Disposed(t) == /\ pc[t] = "lingering"
               /\ Goto(t, "leaving")
               /\ Quiet
               /\ UNCHANGED <<state, tiers, armed>>

\* The finally blocks: slots, lease, and the place in the run; then the pump.
Leave(t) == /\ pc[t] = "leaving"
            /\ leases' = leases \ {t} /\ slots' = slots \ {t}
            /\ Quiet
            /\ Finish(Nobody, [run EXCEPT !.inFlight = @ - 1], TRUE, Only(t, "gone"))
            /\ Timers(armed)
            /\ UNCHANGED <<stop, history>>

-----------------------------------------------------------------------------
(* Stops, time and waits.                                                  *)

\* cancel(run, task): also for a task stopped before, while its worker is ending.
Cancel(t) == /\ state[t] \notin Terminal
             /\ Stop({t}, "aborted", run, TRUE)
             /\ Timers(armed)
             /\ UNCHANGED <<attemptVars, tiers, passed>>

\* cancel(run) and shutdown.
CancelRun == /\ run.state = "running"
             /\ Stop(Task, "aborted", [run EXCEPT !.accepting = FALSE], FALSE)
             /\ Timers(armed)
             /\ UNCHANGED <<attemptVars, tiers, passed>>

\* The clock: the reviewers' launch deadline, the point from which no further
\* attempt is worth its while, and the deadline of the run.
Clock(x) == /\ x \in {"review", "late", "over"} \ passed
            /\ x = "over" => {"review", "late"} \subseteq passed
            /\ passed' = passed \cup {x}
            /\ UNCHANGED <<pc, state, stop, turns, attemptVars, tiers, run, armed, waiter, history>>

\* The run's timer fires, at its deadline or later.
Expire == /\ armed.run /\ "over" \in passed /\ TimerTurn
          /\ Stop(Task, "timed_out", [run EXCEPT !.accepting = FALSE], FALSE)
          /\ Timers([armed EXCEPT !.run = FALSE])
          /\ UNCHANGED <<attemptVars, tiers, passed>>

\* The launch timer of a reviewer.
LaunchTimeout(t) == /\ t \in armed.launch /\ "review" \in passed /\ TimerTurn
                    /\ Stop({t}, "timed_out", run, TRUE)
                    /\ Timers([armed EXCEPT !.launch = @ \ {t}])
                    /\ UNCHANGED <<attemptVars, tiers, passed>>

Wait(w) == /\ waiter[w].status = "idle"
           /\ waiter' = [waiter EXCEPT ![w] = [status |-> IF run.state = "running" THEN "waiting" ELSE "resolved",
                                               baseline |-> run.completions]]
           /\ UNCHANGED <<pc, state, stop, turns, attemptVars, tiers, run, passed, armed, history>>

\* The caller's bound or signal ends the wait, and nothing else.
WaitEnds(w) == /\ waiter[w].status = "waiting"
               /\ waiter' = [waiter EXCEPT ![w].status = "rejected"]
               /\ UNCHANGED <<pc, state, stop, turns, attemptVars, tiers, run, passed, armed, history>>

Execute(t) == \/ Announce(t) \/ Acquire(t) \/ MachineRefuse(t) \/ Launch(t) \/ FirstAttempt(t)
              \/ Retry(t) \/ Resume(t) \/ Backoff(t) \/ Leave(t)

Worker(t) == ReturnEnd(t) \/ WorkerThrows(t)

Next == \/ \E t \in Task : \/ Execute(t) \/ SessionGrant(t) \/ MachineGrant(t) \/ MachineError(t)
                           \/ Progress(t) \/ ReturnRetry(t) \/ ReturnResume(t) \/ Worker(t)
                           \/ Disposed(t) \/ Cancel(t)
        \/ \E t \in Reviewer : LaunchTimeout(t)
        \/ \E x \in {"review", "late", "over"} : Clock(x)
        \/ CancelRun \/ Expire
        \/ \E w \in Waiter : Wait(w) \/ WaitEnds(w)

Spec == Init /\ [][Next]_vars

\* Code runs on, time passes and the run's timer fires.  Of the tiers nothing is
\* assumed but that they let an aborted request go, of a worker only that it ends
\* once its signal is aborted, and of its late disposal nothing at all.
Fairness == /\ \A t \in Task : /\ WF_vars(Execute(t))
                               /\ WF_vars(stop[t] # "none" /\ (SessionGrant(t) \/ Worker(t)))
            /\ \A x \in {"review", "late", "over"} : WF_vars(Clock(x))
            /\ WF_vars(Expire)
FairSpec == Spec /\ Fairness

-----------------------------------------------------------------------------
(* Properties.                                                             *)

TypeOK == /\ pc \in [Task -> Labels]
          /\ state \in [Task -> Terminal \cup {"queued", "starting", "running", "waiting"}]
          /\ stop \in [Task -> {"none", "aborted", "timed_out"}]
          /\ turns \in [Task -> 0 .. MaxTurns] /\ prior \in [Task -> 0 .. MaxTurns]
          /\ attempts \in [Task -> Nat] /\ alternate \in [Task -> 0 .. Alternates]
          /\ retried \subseteq Task /\ leases \subseteq Task /\ slots \subseteq Task
          /\ run \in [state : {"running", "done", "failed", "aborted"}, accepting : BOOLEAN,
                     inFlight : Nat, completions : Nat, turns : Nat]
          /\ passed \subseteq {"review", "late", "over"} /\ armed \in [run : BOOLEAN, launch : SUBSET Reviewer]
          /\ waiter \in [Waiter -> [status : {"idle", "waiting", "resolved", "rejected"}, baseline : Nat]]
          /\ history \in [halted : [Task -> Nat], cancelled : SUBSET Task]

\* The width: no more tasks than the run's concurrency are between dispatch and
\* the last of their cleanup, those included that have ended for everybody else
\* but whose worker is still being disposed of; and the counter tells their number.
Underway == {t \in Task : pc[t] \notin {"undispatched", "gone"}}
WidthKept == run.inFlight = Cardinality(Underway) /\ run.inFlight <= Concurrency

\* Launch capacity follows the worker: it is held while a worker may exist, its
\* late disposal included, and it is given back on every way out of a launch.
CapacityFollowsWorker ==
  \A t \in Task : /\ pc[t] \in Working \cup {"lingering"} => t \in leases \cap slots
                  /\ pc[t] \in {"undispatched", "gone"} => t \notin leases \cup slots

\* Both: what a run occupies, in its width and in the tiers, is what its workers use.
CapacityExact == WidthKept /\ CapacityFollowsWorker

\* The run ends exactly with its last task; what it reports adds up: completions
\* and turns of every ended task are counted once, through stops and retries.
RunAddsUp ==
  LET ended == {t \in Task : state[t] \in Terminal} IN
  /\ TypeOK
  /\ run.state # "running" <=> ended = Task
  /\ run.state # "running" => run.state = Aggregate(state)
  /\ run.completions = Cardinality(ended)
  /\ run.turns = Cardinality(TurnsOf(ended, turns))

\* A stop that came before the worker's result decides how the task ends: work
\* that was cancelled or ran out of time never counts as done, or as failed.
StopDecides == \A t \in Task : state[t] \in Terminal /\ stop[t] # "none" => state[t] = stop[t]

\* A task stopped before its worker was called is never launched, wherever in the
\* two tiers the stop caught it.  One stopped later is attempted at most once
\* more: a retry of its reply does not look at the signal again.
NoLateLaunch ==
  \A t \in Task : history.halted[t] # Never =>
    attempts[t] <= IF history.halted[t] = 0 THEN 0 ELSE history.halted[t] + 1

\* The attempts of a task are finite: the two budgets, of resumes and of alternate
\* routes, and the one retry of an empty reply do not renew each other.
AttemptsBounded == \A t \in Task : attempts[t] <= 2 + Alternates + MaxResumes

\* All three: a run accounts for its workers and its results, and its attempts end.
RunAccounted == CapacityExact /\ RunAddsUp /\ AttemptsBounded

\* Both: from the moment of a stop, neither a result nor a launch passes it by.
StopHolds == StopDecides /\ NoLateLaunch

\* Nobody waits for what has happened: whichever handler ends a task or settles the
\* run, those who wait for it are told.
NobodyWaitsInVain == \A w \in Waiter : waiter[w].status = "waiting" => ~Ready(w, run)

\* The inductive invariant.  A task has ended exactly when its worker is on its
\* way out, or when it was never dispatched.
Ended(t) == /\ pc[t] \in Launching \cup Working => state[t] \notin Terminal
            /\ pc[t] \in {"lingering", "leaving", "gone"} => state[t] \in Terminal

\* What a launch holds on its way through the tiers.
Held(t) == /\ pc[t] \in {"granted", "announced", "acquiring", "acquired"} => t \in leases
           /\ pc[t] = "acquired" => t \in slots
           /\ pc[t] = "queued" => t \notin leases \cup slots

\* Attempts follow the launch, a resume follows one of the first attempts, and
\* every other attempt is paid for by a retry.
Tried(t) == alternate[t] + IF t \in retried THEN 1 ELSE 0
Budgeted(t) == /\ attempts[t] <= MaxResumes + 1 + Tried(t)
               /\ pc[t] \in Launching \cup {"undispatched", "started"} => attempts[t] = 0
               /\ pc[t] \in Working \ {"started"} => attempts[t] > 0
               /\ pc[t] = "retrying" => attempts[t] <= MaxResumes + Tried(t)
               /\ pc[t] \in {"resuming", "backoff"} => attempts[t] <= MaxResumes

\* From the first stop on, there is at most the attempt that was on its way.
Halted(t) == /\ stop[t] = "none" <=> history.halted[t] = Never
             /\ stop[t] # "none" => /\ attempts[t] <= history.halted[t] + 1
                                    /\ history.halted[t] = 0 => attempts[t] = 0
                                    /\ pc[t] = "retrying" => attempts[t] = history.halted[t]

\* The turns that the next attempt counts on from are no fewer than recorded.
Carried(t) == pc[t] \in {"retrying", "resuming"} => turns[t] <= prior[t]

TaskSound(t) == Ended(t) /\ Held(t) /\ Budgeted(t) /\ Halted(t) /\ Carried(t)

IInv == /\ CapacityExact /\ RunAddsUp /\ StopDecides /\ NobodyWaitsInVain
        /\ \A t \in Task : TaskSound(t)

\* What is recorded of a task only advances: an ended task never comes back to
\* life, whatever its worker still reports, and no turns are lost, as a later
\* attempt counts on from the earlier ones.
RecordsAdvance == [][\A t \in Task : /\ state[t] \in Terminal => state'[t] = state[t]
                                     /\ turns'[t] >= turns[t]]_vars

\* Every run settles, at the latest some time after its deadline: neither a tier
\* that never grants nor a worker that cannot be disposed of keeps it running.
RunSettles == <>(run.state # "running")

\* Settlement is a proof: a run that has settled has no worker left that could
\* still write (the host closes the checkpoint store on the strength of it).
SettledMeansNoWorker == run.state # "running" =>
                          \A t \in Task : pc[t] \notin Working \cup {"lingering"}

\* A task that was cancelled while it ran ends as aborted.
CancelEndsAborted == \A t \in history.cancelled : state[t] \in Terminal => state[t] = "aborted"
=============================================================================
