----------------------------- MODULE HostDispatch -----------------------------
(***************************************************************************)
(* The tool ultraterm_subagents of the host (execute, dispatchWave and     *)
(* resolveImplicitWorkerRoute in extensions/ultraterm-subagents.ts): one   *)
(* dispatch, from the choice of a route to its outcome.  A wave of workers *)
(* is launched on a tier of the configured chain; one that is refused      *)
(* before any output may be launched again on the next tier, in the same   *)
(* call.  The workers are as the coordinator reports them, see             *)
(* Coordinator.                                                            *)
(***************************************************************************)
EXTENDS Naturals

CONSTANTS Worker,    \* tasks of the dispatch
          Tiers,     \* steps of the chain, in order; Tiers + 1 is the Claude tier
          Gated,     \* the steps that are in a quota tier
          MaxFalls   \* MAX_QUOTA_FALL_THROUGHS

VARIABLES
  kind,       \* the route: "implicit", "explicit", "api"
  background, \* the dispatch asked for a background run
  at,         \* "route", "gate", "window", "judge", "settling", "waiting", "over"
  wave,       \* waves launched
  route,      \* the tier of each wave, 0 for none
  work,       \* the state of each worker of the last wave
  out,        \* those that produced output
  left,       \* workers of earlier waves that were left live, or that had begun
  snap,       \* the states at the end of the startup window
  why,        \* what each wave was refused for: "none", "quota", "ensure"
  aborted,    \* the signal of the call
  cancelled,  \* the cancellation of the last wave was requested
  loud,       \* its completion is for the parent
  told,       \* completion messages that were queued
  outcome     \* "none", "error", "cancelled", "started", "result"

vars == <<kind, background, at, wave, route, work, out, left, snap, why, aborted, cancelled, loud, told,
          outcome>>

Wave     == 1 .. MaxFalls + 1
Claude   == Tiers + 1
Failures == {"quota", "ensure", "other"}
Live     == {"queued", "starting", "output"}
Settled == \A w \in Worker : work[w] \notin Live

Init ==
  /\ kind \in {"implicit", "explicit", "api"} /\ background \in BOOLEAN
  /\ at = "route" /\ wave = 0 /\ route = [i \in Wave |-> 0]
  /\ work = [w \in Worker |-> "none"] /\ out = {} /\ left = {}
  /\ snap = [w \in Worker |-> "none"] /\ why = [i \in Wave |-> "none"]
  /\ aborted = FALSE /\ cancelled = FALSE /\ loud = FALSE /\ told = 0 /\ outcome = "none"

Ends(o) == at' = "over" /\ outcome' = o
-----------------------------------------------------------------------------
\* spentProviders: the gated tiers down to the furthest that ran out, and
\* heldRoutes: the steps whose ensure hook refused.
Spent == {t \in Gated : \E i \in 1 .. wave : why[i] = "quota" /\ t <= route[i]}
Held  == {route[i] : i \in {j \in 1 .. wave : why[j] = "ensure"}}

\* Seeded bug: only the last refusal is remembered.
BugOut == IF wave = 0 THEN {} ELSE {route[wave]}
Out == Spent \cup Held

\* The first step that can launch and is not out; shut is what the router proves
\* exhausted in this wave's one reading, or what is not launchable at all.
FirstOpen(shut) ==
  LET open == (1 .. Tiers) \ (Out \cup shut)
  IN  IF open = {} THEN Claude ELSE CHOOSE t \in open : \A u \in open : t <= u

\* resolveImplicitWorkerRoute.
Route ==
  /\ at = "route" /\ kind = "implicit" /\ ~(wave > 0 /\ aborted)
  /\ \E shut \in SUBSET (1 .. Tiers) :
       /\ route' = [route EXCEPT ![wave + 1] = FirstOpen(shut)]
       /\ \/ at' = "gate" /\ UNCHANGED outcome
          \/ FirstOpen(shut) = Claude /\ Ends("error")  \* none, not eligible
  /\ UNCHANGED <<kind, background, wave, work, out, left, snap, why, aborted, cancelled, loud, told>>

\* An explicit route stays exact: kept, or refused.
RouteExplicit ==
  /\ at = "route" /\ kind # "implicit"
  /\ \E t \in 1 .. Claude : route' = [route EXCEPT ![1] = t]
  /\ \/ at' = "gate" /\ UNCHANGED outcome
     \/ Ends("error")
  /\ UNCHANGED <<kind, background, wave, work, out, left, snap, why, aborted, cancelled, loud, told>>

\* execute, before the next wave.
RouteAborted ==
  /\ at = "route" /\ wave > 0 /\ aborted /\ Ends("cancelled")
  /\ UNCHANGED <<kind, background, wave, route, work, out, left, snap, why, aborted, cancelled, loud, told>>

\* The rest of dispatchWave up to coordinator.start.  It may fail: no durable
\* store, an account that the router refuses now, a bad task, the checkpoint.
Launch ==
  /\ at = "gate" /\ ~aborted
  /\ \/ /\ at' = "window" /\ wave' = wave + 1
        /\ work' = [w \in Worker |-> "queued"] /\ out' = {} /\ cancelled' = FALSE
        /\ left' = left \cup {w \in Worker : w \in out \/ work[w] \in Live \cup {"done"}}
        /\ UNCHANGED outcome
     \/ Ends("error") /\ UNCHANGED <<wave, work, out, cancelled, left>>
  /\ UNCHANGED <<kind, background, route, snap, why, aborted, loud, told>>

LaunchAborted ==
  /\ at = "gate" /\ aborted /\ Ends("cancelled")
  /\ UNCHANGED <<kind, background, wave, route, work, out, left, snap, why, aborted, cancelled, loud, told>>

\* awaitWorkerStartup: a failure, output of every launched worker, the signal or
\* the timer, whichever comes first.  The dispatch goes on with this snapshot.
Look ==
  /\ at = "window" /\ at' = "judge" /\ snap' = work
  /\ UNCHANGED <<kind, background, wave, route, work, out, left, why, aborted, cancelled, loud, told, outcome>>

\* preFirstTurnFailures.  The paid API route has a settled result instead.
Refused == IF kind = "api" THEN {} ELSE {w \in Worker : snap[w] \in Failures}

Cancel == /\ cancelled' = TRUE
          /\ work' = [w \in Worker |-> IF work[w] = "queued" THEN "aborted" ELSE work[w]]

\* A failed start is no background run any more: it is marked delivered, and its
\* siblings are cancelled.
Judge ==
  /\ at = "judge"
  /\ IF Refused # {}
     THEN at' = "settling" /\ Cancel /\ UNCHANGED <<loud, outcome>>
     ELSE IF background
     THEN loud' = TRUE /\ Ends("started") /\ UNCHANGED <<work, cancelled>>
     ELSE /\ at' = "waiting" /\ UNCHANGED <<loud, outcome>>
          /\ IF aborted THEN Cancel ELSE UNCHANGED <<work, cancelled>>
  /\ UNCHANGED <<kind, background, wave, route, out, left, snap, why, aborted, told>>

\* Seeded bug: the snapshot of the window is asked, not the settled one.
BugUnused == \A w \in Worker : snap[w] \notin {"output", "done"}

\* No worker of the run produced output or finished.
Unused == out = {} /\ \A w \in Worker : work[w] # "done"

Every(cause) == \A w \in Refused : snap[w] = cause

\* Why the wave may move on.
Cause == {c \in {"quota", "ensure"} : Every(c) /\ (c = "quota" => route[wave] \in Gated)}

\* The cancelled siblings have settled, or did not in time.
Conclude ==
  /\ at = "settling"
  /\ snap' = [w \in Worker |-> "none"]
  /\ IF /\ kind = "implicit" /\ route[wave] # Claude /\ Settled /\ ~aborted
        /\ wave <= MaxFalls /\ Unused /\ Cause # {}
     THEN /\ at' = "route" /\ UNCHANGED outcome
          /\ \E c \in Cause : why' = [why EXCEPT ![wave] = c]
     ELSE Ends("error") /\ UNCHANGED why
  /\ UNCHANGED <<kind, background, wave, route, work, out, left, aborted, cancelled, loud, told>>

\* A foreground dispatch waits for its run.
Result ==
  /\ at = "waiting" /\ Settled /\ Ends("result")
  /\ UNCHANGED <<kind, background, wave, route, work, out, left, snap, why, aborted, cancelled, loud, told>>

\* The operator's Esc; a waiting dispatch cancels its run.
Abort ==
  /\ ~aborted /\ at # "over" /\ aborted' = TRUE
  /\ IF at = "waiting" THEN Cancel ELSE UNCHANGED <<work, cancelled>>
  /\ UNCHANGED <<kind, background, at, wave, route, out, left, snap, why, loud, told, outcome>>

\* attachCompletion: what a loud run leaves in the completion buffer.
Tell ==
  /\ loud /\ Settled /\ loud' = FALSE /\ told' = told + 1
  /\ UNCHANGED <<kind, background, at, wave, route, work, out, left, snap, why, aborted, cancelled, outcome>>
-----------------------------------------------------------------------------
(* The workers.  After a cancellation the coordinator records no other end. *)

Becomes(w, s) == /\ work' = [work EXCEPT ![w] = s]
                 /\ UNCHANGED <<kind, background, at, wave, route, left, snap, why, aborted, cancelled,
                                loud, told, outcome>>

Starts(w)   == work[w] = "queued" /\ Becomes(w, "starting") /\ UNCHANGED out
Speaks(w)   == work[w] = "starting" /\ Becomes(w, "output") /\ out' = out \cup {w}
Fails(w)    == /\ work[w] = "starting" /\ ~cancelled /\ UNCHANGED out
               /\ \E f \in Failures : Becomes(w, f)
Finishes(w) == /\ work[w] = "output" /\ ~cancelled /\ UNCHANGED out
               /\ \E s \in {"done", "failed"} : Becomes(w, s)
Stops(w)    == /\ work[w] \in Live /\ cancelled /\ Becomes(w, "aborted") /\ UNCHANGED out

Next ==
  \/ Route \/ RouteExplicit \/ RouteAborted \/ Launch \/ LaunchAborted \/ Look \/ Judge \/ Conclude
  \/ Result \/ Abort \/ Tell \/ \E w \in Worker : Starts(w) \/ Speaks(w) \/ Fails(w) \/ Finishes(w) \/ Stops(w)

\* The host's own steps, and workers that were told to stop.
Own == \/ Route \/ RouteExplicit \/ RouteAborted \/ Launch \/ LaunchAborted \/ Look \/ Judge \/ Conclude
       \/ Result \/ Tell \/ \E w \in Worker : Stops(w)

Fairness == WF_vars(Own)

Spec == Init /\ [][Next]_vars /\ Fairness
-----------------------------------------------------------------------------
TypeOK == /\ wave \in 0 .. MaxFalls + 1
          /\ \A i \in Wave : route[i] \in 0 .. Claude /\ why[i] \in {"none", "quota", "ensure"}

\* Work is never done twice: when a wave is launched, every worker of the ones
\* before has ended, for good, and none of them had begun its task.
NothingRepeated == left = {}

\* Only an implicit wave moves on, never to a tier it was on, and never back up
\* the chain from a quota refusal, whatever the router says by then.
DownTheChain ==
  \A i, j \in 1 .. wave : i < j =>
    /\ kind = "implicit" /\ route[i] # route[j]
    /\ why[i] = "quota" => (route[j] \in Gated \cup {Claude} => route[j] > route[i])

\* The parent hears of a run once: by the error that the dispatch threw, by its
\* result, or, when it was told Started, by one completion.
HeardOnce ==
  /\ told + (IF loud THEN 1 ELSE 0) = (IF outcome = "started" THEN 1 ELSE 0)
  /\ outcome \in {"error", "cancelled"} => cancelled \/ Settled

DispatchSound == TypeOK /\ NothingRepeated /\ DownTheChain /\ HeardOnce

States == Live \cup Failures \cup {"none", "done", "failed", "aborted"}

Typed == /\ kind \in {"implicit", "explicit", "api"} /\ background \in BOOLEAN
         /\ at \in {"route", "gate", "window", "judge", "settling", "waiting", "over"}
         /\ route \in [Wave -> 0 .. Claude] /\ why \in [Wave -> {"none", "quota", "ensure"}]
         /\ work \in [Worker -> States] /\ snap \in [Worker -> States] /\ out \subseteq Worker
         /\ cancelled \in BOOLEAN /\ loud \in BOOLEAN /\ told \in Nat
         /\ outcome \in {"none", "error", "cancelled", "started", "result"}

\* Before a launch there is room for a wave, and nothing of the last one is left.
Between == at \in {"route", "gate"}
Clean   == Between => /\ wave <= MaxFalls /\ out = {}
                      /\ \A w \in Worker : work[w] \notin Live \cup {"done"}

\* The outcome is there at the end only; what settles was cancelled.
Placed == (at = "over" <=> outcome # "none") /\ (at = "settling" => cancelled)

\* A wave that another one follows was refused on a step of the chain, for a cause
\* that moves on, and the route at the gate is none of those before it.
Moved(i)  == /\ kind = "implicit" /\ route[i] \in 1 .. Tiers
             /\ why[i] = "ensure" \/ (why[i] = "quota" /\ route[i] \in Gated)
Refusals  == \A i \in 1 .. wave : i < wave \/ Between => Moved(i)
Further(i, t) == route[i] # t /\ (why[i] = "quota" /\ t \in Gated \cup {Claude} => t > route[i])
Launched  == \A i \in 1 .. wave : route[i] # 0
GateIsNew == at = "gate" => route[wave + 1] # 0 /\ \A i \in 1 .. wave : Further(i, route[wave + 1])

IInv == Typed /\ Clean /\ Placed /\ Launched /\ Refusals /\ GateIsNew /\ DispatchSound

\* The dispatch returns, unless it waits for workers that nobody stopped, and
\* no worker runs on after a failed dispatch.
Ended == /\ at = "over" \/ (at = "waiting" /\ ~cancelled)
         /\ outcome \in {"error", "cancelled"} => Settled

DispatchEnds == []<>Ended

\* A wave in which a worker failed for another reason does not move on: not so of
\* one that fails after the window, whose cause is not looked at any more.
MixStays == [][at = "settling" /\ at' = "route" => \A w \in Worker : work[w] # "other"]_vars
=============================================================================
