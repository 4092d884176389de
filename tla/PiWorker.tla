------------------------------ MODULE PiWorker ------------------------------
(***************************************************************************)
(* One attempt of a native worker (src/src/subagents/pi-worker.ts          *)
(* createPiWorkerRunner) with the keeper of its account lease              *)
(* (provider-accounts.ts createGoAccountLeaseKeeper).                      *)
(*                                                                         *)
(* The runner initialises in stages that a cancellation may abandon,       *)
(* prompts a session of the SDK, waits for the prompt or for a reason to   *)
(* stop, and cleans up in its finally block.  The SDK, the model and the   *)
(* account router are external: they answer late, wrongly or never.        *)
(* A message of the model is known by its turn and its kind.               *)
(***************************************************************************)
EXTENDS Naturals, Sequences

CONSTANTS Budget,        \* workerTurnBudget of the run
          MaxAnswers,    \* bound: final answers of an attempt
          MaxTools,      \* bound: tool calls
          MaxEnvelopes,  \* bound: relay envelopes that arrive
          MaxRenewals    \* bound: renewals of the lease

VARIABLES
  routed,    \* whether the account of the route comes from the router
  pc,        \* where the runner stands, see Stages and Cleanup
  signal,    \* "live", "abort", "timeout"
  late,      \* the stage whose promise was abandoned, "none", or "settled"
  error,     \* promptError, by kind
  session,   \* "none", "live", "disposed"
  streaming, \* session.isStreaming
  asked,     \* session.abort has been called
  turn,      \* the open turn: "none", "model", "tools", "spoken"
  turns, limit, answered, stalled,
  final,     \* kind of finalAssistant
  report,    \* finalReport: the turns whose answers it holds
  answers,   \* history: the turns that ended in a final answer
  tool,      \* a tool runs
  bad, good, \* tool calls that failed, that did not
  steering,  \* relay envelopes handed to session.steer and not settled
  envelopes, \* envelopes that arrived so far
  lease,     \* the router's reservation: "none", "held", "lost", "free"
  keeper,    \* [on |-> timer, renewing |-> call in flight, failed, calls]
  result     \* what the runner returned

life    == <<routed, pc, signal, late, error>>
stream  == <<turn, turns, limit, answered, final, report, answers>>
model   == <<session, streaming, asked, stalled, stream, tool, bad, good>>
relayed == <<steering, envelopes>>
account == <<lease, keeper>>
vars == <<routed, pc, signal, late, error, session, streaming, asked, stalled, turn, turns, limit,
          answered, final, report, answers, tool, bad, good, steering, envelopes, lease,
          keeper, result>>

Abandonable == {"load", "sdk", "runtime", "factory"}
Router      == {"reserve", "bind"}                     \* calls that a cancellation does not cut
Stages      == Abandonable \cup Router
Cleanup     == {"stopping", "closing", "reporting", "releasing"}
After(s)    == CASE s = "load" -> IF routed THEN "reserve" ELSE "sdk"
                 [] s = "reserve" -> "bind"  [] s = "bind" -> "sdk"
                 [] s = "sdk" -> "runtime"   [] s = "runtime" -> "factory"
Kinds       == {"answer", "tools", "cut", "error", "quota", "aborted", "empty"}
NoResult    == [state |-> "none", report |-> <<>>, cleanup |-> FALSE]

Init ==
  /\ routed \in BOOLEAN
  /\ pc = "load" /\ signal = "live" /\ late = "none" /\ error = "none"
  /\ session = "none" /\ streaming = FALSE /\ asked = FALSE
  /\ turn = "none" /\ turns = 0 /\ limit = FALSE /\ answered = FALSE /\ stalled = FALSE
  /\ final = "none" /\ report = <<>> /\ answers = <<>>
  /\ tool = FALSE /\ bad = 0 /\ good = 0
  /\ steering = 0 /\ envelopes = 0
  /\ lease = "none" /\ keeper = [on |-> FALSE, renewing |-> FALSE, failed |-> FALSE, calls |-> 0]
  /\ result = NoResult
-----------------------------------------------------------------------------
(* Initialisation.                                                         *)

\* A stage's promise is answered.  The keeper renews from the reservation on.
StageDone ==
  /\ pc \in Stages \ {"factory"}
  /\ IF pc = "bind" /\ signal # "live"    \* signal.throwIfAborted
     THEN pc' = "closing" /\ error' = "stopped"
     ELSE pc' = After(pc) /\ UNCHANGED error
  /\ IF pc = "reserve"
     THEN lease' = "held" /\ keeper' = [keeper EXCEPT !.on = TRUE]
     ELSE UNCHANGED account
  /\ UNCHANGED <<routed, signal, late, model, relayed, result>>

\* The session exists: it is prompted unless the lease has failed meanwhile.
FactoryDone ==
  /\ pc = "factory"
  /\ session' = "live"
  /\ IF keeper.failed
     THEN pc' = "closing" /\ error' = "lease" /\ UNCHANGED streaming
     ELSE pc' = "prompt" /\ streaming' = TRUE /\ UNCHANGED error
  /\ UNCHANGED <<routed, signal, late, asked, stalled, stream, tool, bad, good, relayed, account, result>>

\* It fails: dependencies, route, account, checkpoint file, credentials.
StageFails ==
  /\ pc \in Stages
  /\ pc' = "closing" /\ error' = "init"
  /\ UNCHANGED <<routed, signal, late, model, relayed, account, result>>

\* The run is cancelled or out of time.  A stage is abandoned at once; what it
\* yields later is for LateSettles.  A session is asked to stop.
Abort(why) ==
  /\ signal = "live" /\ pc # "done"
  /\ signal' = why
  /\ IF pc \in Abandonable
     THEN late' = pc /\ pc' = "closing" /\ error' = "stopped"
     ELSE UNCHANGED <<late, pc, error>>
  /\ asked' = (asked \/ pc = "prompt")
  /\ UNCHANGED <<routed, session, streaming, stalled, stream, tool, bad, good, relayed, account, result>>

-----------------------------------------------------------------------------
(* Events of the session, up to its disposal.                              *)

Live == session = "live" /\ streaming

TurnStart ==
  /\ Live /\ turn = "none"
  /\ turn' = "model" /\ answered' = FALSE
  /\ IF limit THEN UNCHANGED <<turns, limit, asked>>
     ELSE IF turns >= Budget THEN limit' = TRUE /\ asked' = TRUE /\ UNCHANGED turns
     ELSE turns' = turns + 1 /\ UNCHANGED <<limit, asked>>
  /\ UNCHANGED <<life, session, streaming, stalled, final, report, answers, tool, bad, good,
                 relayed, account, result>>

\* Seeded bug: the latest answer is the report.
BugMerge(t) == report' = <<t>>

\* The first final answer stays; a later one is appended unless it is contained
\* or does not fit.
MergeReport(t) == \/ report' = Append(report, t)
                  \/ report # <<>> /\ UNCHANGED report

MessageEnd(kind) ==
  /\ Live /\ turn = "model" /\ (kind = "answer" => Len(answers) < MaxAnswers)
  /\ turn' = IF kind = "tools" THEN "tools" ELSE "spoken"
  /\ final' = IF ~limit \/ kind \in {"answer", "tools", "cut"} THEN kind ELSE final
  /\ IF kind = "answer"
     THEN answered' = TRUE /\ answers' = Append(answers, turns) /\ MergeReport(turns)
     ELSE UNCHANGED <<answered, answers, report>>
  /\ UNCHANGED <<life, session, streaming, asked, stalled, turns, limit, tool, bad, good,
                 relayed, account, result>>

\* A tool call of the open turn, its path already checked against the policy.
ToolStart ==
  /\ Live /\ turn = "tools" /\ ~tool /\ bad + good < MaxTools
  /\ tool' = TRUE
  /\ UNCHANGED <<life, session, streaming, asked, stalled, stream, bad, good, relayed, account, result>>

ToolEnd ==
  /\ session = "live" /\ tool
  /\ tool' = FALSE
  /\ \/ bad' = bad + 1 /\ UNCHANGED good    \* refused or failed
     \/ good' = good + 1 /\ UNCHANGED bad
  /\ UNCHANGED <<life, session, streaming, asked, stalled, stream, relayed, account, result>>

TurnEnd ==
  /\ Live /\ turn \in {"tools", "spoken"} /\ ~tool
  /\ turn' = "none"
  /\ UNCHANGED <<life, session, streaming, asked, stalled, turns, limit, answered, final, report,
                 answers, tool, bad, good, relayed, account, result>>

\* The SDK ends its run, of its own accord or because it was asked to.
SessionEnds ==
  /\ Live /\ ((turn = "none" /\ turns > 0) \/ asked)
  /\ streaming' = FALSE
  /\ UNCHANGED <<life, session, asked, stalled, stream, tool, bad, good, relayed, account, result>>

\* The callback bound to the relay: a session that streams and has not answered
\* is steered; otherwise the envelope stays in the mailbox.
Steer ==
  /\ pc = "prompt" /\ streaming /\ ~answered /\ envelopes < MaxEnvelopes
  /\ steering' = steering + 1 /\ envelopes' = envelopes + 1
  /\ UNCHANGED <<life, model, account, result>>

SteerSettles ==
  /\ session = "live" /\ steering > 0
  /\ steering' = steering - 1
  /\ UNCHANGED <<life, model, envelopes, account, result>>

\* The watchdog: no event for stallMs while no tool runs.
Stall ==
  /\ pc = "prompt" /\ ~stalled /\ ~tool
  /\ stalled' = TRUE /\ asked' = TRUE
  /\ UNCHANGED <<life, session, streaming, stream, tool, bad, good, relayed, account, result>>

-----------------------------------------------------------------------------
(* The lease keeper.                                                       *)

Tick ==
  /\ keeper.on /\ ~keeper.renewing /\ keeper.calls < MaxRenewals
  /\ keeper' = [keeper EXCEPT !.renewing = TRUE, !.calls = @ + 1]
  /\ UNCHANGED <<life, model, relayed, lease, result>>

\* The first failure stops the keeper for good and the worker with it.
Renewed ==
  /\ keeper.renewing
  /\ \/ keeper' = [keeper EXCEPT !.renewing = FALSE] /\ UNCHANGED <<lease, asked>>
     \/ /\ keeper' = [keeper EXCEPT !.renewing = FALSE, !.on = FALSE, !.failed = TRUE]
        /\ lease' \in {lease, "lost"}
        /\ asked' = (asked \/ session = "live")
  /\ UNCHANGED <<life, session, streaming, stalled, stream, tool, bad, good, relayed, result>>

-----------------------------------------------------------------------------
(* The end.                                                                *)

\* Seeded bug: the stall and the signal abort the session, and wait for it.
BugStopped == limit \/ keeper.failed

\* Promise.race of the prompt and the reasons to stop waiting for it.
Stopped == signal # "live" \/ limit \/ stalled \/ keeper.failed

PromptOver ==
  /\ pc = "prompt" /\ (Stopped \/ ~streaming)
  /\ \/ UNCHANGED error
     \/ ~streaming /\ error' = "prompt"
  /\ pc' = IF signal # "live" \/ limit \/ stalled \/ streaming THEN "stopping" ELSE "closing"
  /\ asked' = (asked \/ pc' = "stopping")
  /\ UNCHANGED <<routed, signal, late, session, streaming, stalled, stream, tool, bad, good, relayed,
                 account, result>>

\* settleWithin(abortSession(), abortGraceMs); events still land meanwhile.
GraceOver ==
  /\ pc = "stopping" /\ pc' = "closing"
  /\ UNCHANGED <<routed, signal, late, error, model, relayed, account, result>>

Verdict(err) ==
  CASE signal = "timeout" -> "timed_out"
    [] signal = "abort" -> "aborted"
    [] stalled \/ limit \/ err # "none" \/ final \in {"none", "error", "quota", "empty", "tools"} -> "failed"
    [] final = "aborted" -> "aborted"
    [] bad > 0 /\ good = 0 -> "failed"
    [] OTHER -> "done"

Return(err) ==
  /\ pc' = "done" /\ error' = err
  /\ result' = [state |-> Verdict(err), report |-> report, cleanup |-> late # "none"]

\* Steering is closed and given a bounded time, then the session is disposed of.
\* What is still in flight stays behind.
Close ==
  /\ pc = "closing"
  /\ session' = IF session = "live" THEN "disposed" ELSE session
  /\ streaming' = FALSE
  /\ IF lease = "none" THEN Return(error) ELSE pc' = "reporting" /\ UNCHANGED <<error, result>>
  /\ UNCHANGED <<routed, signal, late, asked, stalled, stream, tool, bad, good, relayed, account>>

\* A spent plan is reported to the router; then the timer stops, unless an
\* abandoned stage keeps the lease.
Report ==
  /\ pc = "reporting"
  /\ \E failed \in BOOLEAN :
       /\ failed => final = "quota" /\ signal = "live"
       /\ LET err == CASE failed -> "cooldown"
                       [] keeper.failed /\ error = "none" -> "lease"
                       [] OTHER -> error
          IN IF late # "none" THEN Return(err) /\ UNCHANGED keeper
             ELSE /\ pc' = "releasing" /\ error' = err /\ UNCHANGED result
                  /\ keeper' = [keeper EXCEPT !.on = FALSE]
  /\ UNCHANGED <<routed, signal, late, model, relayed, lease>>

\* keeper.release: after the renewal in flight.
Release ==
  /\ pc = "releasing" /\ ~keeper.renewing
  /\ \/ Return(error) /\ lease' = "free"
     \/ Return("release") /\ lease' \in {lease, "free"}
  /\ UNCHANGED <<routed, signal, late, model, relayed, keeper>>

\* An abandoned stage settles; a session that it created is disposed of at once.
LateSettles ==
  /\ late \in Abandonable
  /\ late' = "settled"
  /\ UNCHANGED <<routed, pc, signal, error, model, relayed, account, result>>

\* Seeded bug: the lease is given back without waiting for the abandoned stage.
BugLateRelease ==
  /\ late # "none" /\ pc = "done" /\ lease \in {"held", "lost"} /\ ~keeper.renewing
  /\ keeper' = [keeper EXCEPT !.on = FALSE]
  /\ lease' = "free"
  /\ UNCHANGED <<life, model, relayed, result>>

\* Only then, and after the runner has returned, the lease is released.
LateRelease ==
  /\ late = "settled" /\ pc = "done" /\ lease \in {"held", "lost"} /\ ~keeper.renewing
  /\ keeper' = [keeper EXCEPT !.on = FALSE]
  /\ lease' = "free"
  /\ UNCHANGED <<life, model, relayed, result>>

-----------------------------------------------------------------------------
Runner == StageDone \/ PromptOver \/ GraceOver \/ Close \/ Report \/ Release \/ LateRelease
SessionSteps == \/ TurnStart \/ (\E k \in Kinds : MessageEnd(k))
                \/ ToolStart \/ ToolEnd \/ TurnEnd \/ SessionEnds

Next == \/ Runner \/ SessionSteps
        \/ FactoryDone \/ StageFails \/ (\E why \in {"abort", "timeout"} : Abort(why))
        \/ Steer \/ SteerSettles \/ Stall \/ Tick \/ Renewed \/ LateSettles

Spec == Init /\ [][Next]_vars

\* The runner's own steps and timers are taken, and the router is bounded by a
\* timeout of its own; what an abandoned stage waits for is local work that
\* ends.  Nothing is assumed of the session, the model and the tools.
Own == \/ PromptOver \/ GraceOver \/ Close \/ Report \/ Release \/ LateRelease
       \/ pc \in Router /\ (StageDone \/ StageFails)
       \/ Renewed \/ LateSettles \/ Stall

Fairness == WF_vars(Own)
-----------------------------------------------------------------------------
(* Properties.                                                             *)

TypeOK ==
  /\ pc \in Stages \cup Cleanup \cup {"prompt", "done"}
  /\ signal \in {"live", "abort", "timeout"}
  /\ late \in Abandonable \cup {"none", "settled"}
  /\ session \in {"none", "live", "disposed"}
  /\ turns \in 0 .. Budget /\ steering \in 0 .. MaxEnvelopes
  /\ final \in Kinds \cup {"none"}
  /\ lease \in {"none", "held", "lost", "free"}

\* A session that can still spend has its reservation: the lease is not given
\* back while a session lives or an abandoned stage may still create one, nor
\* while a renewal is in flight that would take it again.
LeaseOutlivesSession ==
  lease = "free" => /\ session # "live" /\ late # "factory"
                    /\ ~keeper.renewing /\ ~keeper.on

\* The report keeps the first final answer, whatever the child says when it is
\* woken again, and an attempt that was stopped, overspent or failed
\* never counts as done.  (A last message cut off by its length does.)
ReportHonest ==
  /\ answers # <<>> => report # <<>> /\ Head(report) = Head(answers)
  /\ result.state = "done" => /\ final \in {"answer", "cut"} /\ result.report = report
                              /\ final = "answer" => report # <<>>
                              /\ signal = "live" /\ ~stalled /\ ~limit /\ error = "none"
                              /\ session = "disposed" /\ late = "none"

PiWorkerSound == TypeOK /\ LeaseOutlivesSession /\ ReportHonest

(* The inductive invariant that PiWorkerSound rests on.                    *)

Typed ==
  /\ turn \in {"none", "model", "tools", "spoken"}
  /\ {routed, streaming, asked, limit, answered, stalled, tool} \subseteq BOOLEAN
  /\ error \in {"none", "stopped", "lease", "init", "prompt", "cooldown", "release"}
  /\ report \in Seq(Nat) /\ answers \in Seq(Nat)
  /\ envelopes \in 0 .. MaxEnvelopes /\ steering <= envelopes
  /\ keeper \in [on : BOOLEAN, renewing : BOOLEAN, failed : BOOLEAN, calls : Nat]
  /\ result \in [state : {"none", "timed_out", "aborted", "failed", "done"}, report : Seq(Nat),
                 cleanup : BOOLEAN]

\* The session lives from the factory to the close, and only a live one speaks.
Placed == /\ session = "live" => pc \in {"prompt", "stopping", "closing"}
          /\ final # "none" => session # "none"

\* The report is begun with the answers.
Spoken == /\ answers = <<>> <=> report = <<>>
          /\ final = "answer" => answers # <<>>

\* Whoever renews has something to renew; what is given back is given back at the
\* end; only a stage that was stopped is abandoned.
Keeping == /\ keeper.on \/ keeper.renewing => lease \in {"held", "lost"}
           /\ pc = "releasing" => ~keeper.on /\ late = "none"
           /\ lease = "free" => pc = "done"
           /\ late # "none" => signal # "live"

Returned == pc = "done" <=> result.state # "none"

IInv == PiWorkerSound /\ Typed /\ Placed /\ Spoken /\ Keeping /\ Returned

\* A worker that is stopped returns, whatever its session does; a prompt ends
\* unless a tool runs for ever; and the account goes back to the router, or its
\* reservation runs out there.
Ended == /\ signal # "live" => pc = "done"
         /\ pc = "prompt" => tool
         /\ pc = "done" /\ late # "none" => lease # "held"

PiWorkerEnds == []<>Ended

\* An answer that is cut off by its length is no result: not so in this code, which
\* asks isFinalAnswer for the report only, and not for the outcome.
CutIsNotDone == result.state = "done" => final # "cut"
=============================================================================
