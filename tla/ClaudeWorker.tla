---------------------------- MODULE ClaudeWorker ----------------------------
(***************************************************************************)
(* One attempt of a Claude Code worker (src/src/subagents/claude-worker.ts *)
(* createClaudeWorkerRunner) with the relay input that it writes to the    *)
(* child's stdin (claude-relay.ts).                                        *)
(*                                                                         *)
(* The child is the official CLI in a process of its own: it emits frames  *)
(* in any order, ignores signals, exits at any time or never.  Frames are  *)
(* known by what the handler tells apart.  An envelope of the relay is     *)
(* written, replayed by the child, and consumed by the next result.        *)
(***************************************************************************)
EXTENDS Naturals

CONSTANTS MaxTurns,   \* run.maxTurns
          MaxInputs   \* bound: relay envelopes that arrive

VARIABLES
  api,       \* the route: API (TRUE) or subscription
  at,        \* "admit", "account", "preflight", "running", "cleaning", "settling", "returned"
  cancel,    \* the signal: "live", "abort", "timeout"
  child,     \* "none", "alive", "gone"
  owned,     \* the handle still names the launched process
  killed,    \* killOnce ran, so its deadline runs
  expired,   \* stopPromise is resolved
  closed,    \* the exit was seen
  exit,      \* "none", "zero", "other", or "cut": zero, within a frame
  failed,    \* state.failure or a spawn error is set
  over,      \* turnLimitReached
  used, completed,  \* turns, and those of the finished queries
  output, verified, attested,   \* sawModelOutput, modelVerified, the init frame
  last,      \* the latest result: "none", "empty", "report", "error"
  terminal,  \* terminalResult
  reason,    \* reviewFallbackReason is set
  relayed,   \* "unbound", "open", "closed"
  input,     \* per envelope: "none", "written", "replayed", "consumed"
  asking,    \* an owner-reserve check is in flight
  verdict    \* [state, cleanup, fallback], state "none" until it returns

process == <<child, owned, killed, expired, closed, exit>>
frames  == <<failed, over, used, completed, output, verified, attested, last,
             terminal, reason>>
vars == <<api, at, cancel, child, owned, killed, expired, closed, exit, failed,
          over, used, completed, output, verified, attested, last, terminal, reason, relayed, input,
          asking, verdict>>

Inputs  == 1 .. MaxInputs
Running == at \in {"running", "cleaning", "settling"}
Pending == {i \in Inputs : input[i] \in {"written", "replayed"}}

Init ==
  /\ api \in BOOLEAN /\ at = "admit" /\ cancel = "live"
  /\ child = "none" /\ owned = TRUE /\ killed = FALSE /\ expired = FALSE
  /\ closed = FALSE /\ exit = "none"
  /\ failed = FALSE /\ over = FALSE /\ used = 0 /\ completed = 0
  /\ output = FALSE /\ verified = FALSE /\ attested = FALSE /\ last = "none" /\ terminal = FALSE
  /\ reason = FALSE /\ relayed = "unbound" /\ input = [i \in Inputs |-> "none"] /\ asking = FALSE
  /\ verdict = [state |-> "none", cleanup |-> FALSE, fallback |-> FALSE]
-----------------------------------------------------------------------------
(* Before the child is spawned.                                            *)

Stopped == IF cancel = "timeout" THEN "timed_out" ELSE "aborted"

Refuse(state, fallback) ==
  /\ at' = "returned"
  /\ verdict' = [state |-> state, cleanup |-> FALSE, fallback |-> fallback]
  /\ UNCHANGED <<api, cancel, process, frames, relayed, input, asking>>

\* Harness, model, effort, session and, on the API route, the approval record.
Admit ==
  /\ at = "admit"
  /\ \/ Refuse("failed", FALSE)
     \/ cancel # "live" /\ Refuse(Stopped, FALSE)
     \/ cancel = "live" /\ at' = "account"
        /\ UNCHANGED <<api, cancel, process, frames, relayed, input, asking, verdict>>

\* The account is resolved and its namespace and owner reserve are checked.
Account ==
  /\ at = "account"
  /\ \/ Refuse("failed", FALSE)
     \/ at' = "preflight" /\ UNCHANGED <<api, cancel, process, frames, relayed, input, asking, verdict>>

\* The CLI's auth status.  A missing first-party login lets a reviewer go elsewhere.
Preflight ==
  /\ at = "preflight"
  /\ \/ Refuse(IF cancel = "live" THEN "failed" ELSE Stopped, FALSE)
     \/ cancel = "live" /\ ~api /\ Refuse("failed", TRUE)
     \/ /\ cancel = "live"
        /\ at' = "running" /\ child' = "alive"
        \* the prompt is written and the relay bound, or the relay is absent
        /\ relayed' \in {"unbound", "open"}
        /\ UNCHANGED <<api, cancel, owned, killed, expired, closed, exit, frames, input,
                       asking, verdict>>

-----------------------------------------------------------------------------
(* Stopping the child.                                                     *)

\* killOnce, with the failure that the caller sets.  Whether it asks by SIGTERM
\* first and escalates later makes no difference to a child of which nothing is
\* assumed.
Kill(why) ==
  /\ relayed' = IF relayed = "open" THEN "closed" ELSE relayed
  /\ killed' = (killed \/ owned)
  /\ expired' = (expired \/ (~killed /\ ~owned))
  /\ failed' = (why \/ failed \/ (~killed /\ ~owned))
  /\ UNCHANGED <<child, owned, closed, exit>>

Cancel(why) ==
  /\ cancel = "live" /\ at # "returned"
  /\ cancel' = why
  /\ IF at = "running"
     THEN Kill(FALSE)
     ELSE UNCHANGED <<process, relayed, failed>>
  /\ UNCHANGED <<api, at, over, used, completed, output, verified, attested, last,
                 terminal, reason, input, asking, verdict>>

\* stopDeadline: it bounds the wait for a child that does not die.
Deadline ==
  /\ killed /\ ~expired /\ at = "running"
  /\ expired' = TRUE
  /\ UNCHANGED <<api, at, cancel, child, owned, killed, closed, exit, frames, relayed, input, asking,
                 verdict>>

\* External: the handle comes to stand for another process.
LoseIdentity ==
  /\ Running /\ owned /\ ~closed
  /\ owned' = FALSE
  /\ UNCHANGED <<api, at, cancel, child, killed, expired, closed, exit, frames, relayed, input,
                 asking, verdict>>

\* External: the child exits.  The handler looks at what was left over.
ChildExits(code) ==
  /\ child = "alive"
  /\ child' = "gone"
  /\ IF ~owned THEN UNCHANGED <<closed, exit, relayed, failed>>
     ELSE /\ closed' = TRUE /\ exit' = code
          /\ relayed' = IF relayed = "open" THEN "closed" ELSE relayed
          /\ failed' = (failed \/ (Pending # {} /\ cancel = "live" /\ ~killed))
  /\ UNCHANGED <<api, at, cancel, owned, killed, expired, over, used, completed, output,
                 verified, attested, last, terminal, reason, input, asking, verdict>>

\* A spawn or stdin error; without a pid there is no child to wait for.
ChildError ==
  /\ at = "running" /\ ~closed
  /\ Kill(TRUE)
  /\ UNCHANGED <<api, at, cancel, over, used, completed, output, verified, attested, last,
                 terminal, reason, input, asking, verdict>>

-----------------------------------------------------------------------------
(* Frames on stdout.  They may still arrive while the child is stopped.    *)

Heard == Running /\ child = "alive" /\ ~failed /\ ~over

\* Frames and bounds that end the attempt at once: malformed, too long, too
\* much, stderr, a model or key source that is not the pinned one, no message id,
\* or model output after the final result.
BadFrame ==
  /\ Heard /\ Kill(TRUE)
  /\ output' \in {output, TRUE} /\ reason' = (reason /\ ~output')
  /\ UNCHANGED <<api, at, cancel, over, used, completed, verified, attested, last,
                 terminal, input, asking, verdict>>

\* A synthetic error frame is no turn and no model evidence.
Synthetic ==
  /\ Heard /\ ~terminal
  /\ Kill(TRUE)
  /\ reason' \in (IF ~output /\ ~api THEN BOOLEAN ELSE {reason})
  /\ UNCHANGED <<api, at, cancel, over, used, completed, output, verified, attested, last,
                 terminal, input, asking, verdict>>

Identity ==
  /\ Heard /\ attested' = TRUE
  /\ UNCHANGED <<api, at, cancel, process, failed, over, used, completed, output, verified,
                 last, terminal, reason, relayed, input, asking, verdict>>

\* A frame of the pinned model; the first of a response is a turn.
Assistant(fresh) ==
  /\ Heard /\ ~terminal
  /\ output' = TRUE /\ reason' = FALSE /\ verified' = TRUE
  /\ used' = IF fresh THEN used + 1 ELSE used
  /\ over' = (used' > MaxTurns)
  /\ IF over' THEN Kill(FALSE) ELSE UNCHANGED <<process, relayed, failed>>
  /\ UNCHANGED <<api, at, cancel, completed, attested, last, terminal, input, asking,
                 verdict>>

\* The child echoes an envelope that it has taken in.
Replay(i) ==
  /\ Heard /\ input[i] = "written"
  /\ input' = [input EXCEPT ![i] = "replayed"]
  /\ UNCHANGED <<api, at, cancel, process, frames, relayed, asking, verdict>>

\* Each usage reading starts a check of the owner reserve.
RateLimit ==
  /\ Heard /\ ~api /\ ~asking
  /\ asking' = TRUE
  /\ UNCHANGED <<api, at, cancel, process, frames, relayed, input, verdict>>

ReserveKept ==
  /\ asking /\ Running /\ asking' = FALSE
  /\ UNCHANGED <<api, at, cancel, process, frames, relayed, input, verdict>>

\* It may answer at any later time, after the final result too.  (After the
\* return it finds a child that is gone, or kills it.)
ReserveReached ==
  /\ asking /\ Running /\ asking' = FALSE
  /\ IF failed THEN UNCHANGED <<process, relayed, failed>> ELSE Kill(TRUE)
  /\ UNCHANGED <<api, at, cancel, over, used, completed, output, verified, attested, last,
                 terminal, reason, input, verdict>>

\* ClaudeRelay.result: what the child has replayed is consumed.
Consume == [i \in Inputs |-> IF input[i] = "replayed" THEN "consumed" ELSE input[i]]

\* Seeded bug: what was written counts as consumed.
BugConsumed(in) == \A i \in Inputs : in[i] \in {"none", "written", "consumed"}

\* Nothing is left to consume.
Consumed(in) == \A i \in Inputs : in[i] \in {"none", "consumed"}

\* A result.  num_turns counts the turns of the query; with nothing left to
\* consume the result is final: steering is revoked, stdin is closed.
Result(kind, turns, proves) ==
  /\ Heard /\ ~terminal
  /\ last' = kind /\ verified' = (verified \/ proves)
  /\ used' = IF completed + turns > used THEN completed + turns ELSE used
  /\ completed' = used'
  /\ over' \in (IF used' > MaxTurns THEN {TRUE} ELSE IF kind = "error" THEN BOOLEAN ELSE {FALSE})
  /\ IF kind = "error" /\ ~over'
     THEN Kill(TRUE) /\ reason' \in (IF ~output /\ ~api THEN BOOLEAN ELSE {reason})
          /\ UNCHANGED <<input, terminal>>
     ELSE IF over' THEN Kill(FALSE) /\ UNCHANGED <<input, terminal, reason>>
     ELSE /\ input' = Consume
          /\ terminal' = Consumed(input')
          /\ relayed' = IF terminal' /\ relayed = "open" THEN "closed" ELSE relayed
          /\ UNCHANGED <<process, failed, reason>>
  /\ UNCHANGED <<api, at, cancel, output, attested, asking, verdict>>

\* The broker hands an envelope to the relay: registered first, then written.
Deliver(i) ==
  /\ at = "running" /\ relayed = "open" /\ input[i] = "none"
  /\ \/ input' = [input EXCEPT ![i] = "written"] /\ UNCHANGED <<process, relayed, failed>>
     \/ Kill(TRUE) /\ UNCHANGED input
  /\ UNCHANGED <<api, at, cancel, over, used, completed, output, verified, attested, last,
                 terminal, reason, asking, verdict>>

-----------------------------------------------------------------------------
(* The end.                                                                *)

\* Promise.race of the exit and the stop deadline, then the finally block: a
\* child that has not been seen to exit gets SIGKILL and a bounded wait.
Wind ==
  /\ at = "running" /\ (closed \/ expired)
  /\ at' = IF closed THEN "settling" ELSE "cleaning"
  /\ relayed' = IF relayed = "open" THEN "closed" ELSE relayed
  /\ UNCHANGED <<api, cancel, child, owned, killed, expired, closed, exit, frames, input, asking, verdict>>

GraceOver ==
  /\ at = "cleaning" /\ at' = "settling"
  /\ UNCHANGED <<api, cancel, process, frames, relayed, input, asking, verdict>>

Classify(failure) ==
  IF failure THEN "failed"
  ELSE IF cancel # "live" THEN Stopped
  ELSE IF ~over /\ exit = "zero" /\ last = "report" /\ verified /\ (api => attested)
       THEN "done" ELSE "failed"

Return ==
  /\ at = "settling"
  /\ at' = "returned"
  /\ failed' = (failed \/ ~closed \/ (~api /\ ~attested))
  /\ LET state == Classify(failed')
     IN verdict' = [state |-> state, cleanup |-> ~closed,
                    fallback |-> closed /\ ~output /\ ~verified /\ cancel = "live"
                                 /\ state = "failed" /\ reason /\ ~api]
  /\ UNCHANGED <<api, cancel, process, over, used, completed, output, verified, attested,
                 last, terminal, reason, relayed, input, asking>>

-----------------------------------------------------------------------------
Frame == \/ Synthetic \/ Identity \/ RateLimit
         \/ BadFrame \/ (\E b \in BOOLEAN : Assistant(b))
         \/ (\E i \in Inputs : Replay(i))
         \/ (\E kind \in {"report", "empty", "error"}, n \in 0 .. 1, b \in BOOLEAN : Result(kind, n, b))

Next == \/ Admit \/ Account \/ Preflight \/ (\E why \in {"abort", "timeout"} : Cancel(why))
        \/ Deadline \/ LoseIdentity \/ ChildError
        \/ (\E code \in {"zero", "other", "cut"} : ChildExits(code))
        \/ Frame \/ (\E i \in Inputs : Deliver(i)) \/ ReserveKept \/ ReserveReached
        \/ Wind \/ GraceOver \/ Return

Spec == Init /\ [][Next]_vars

\* The runner's own steps and timers, and the bounded calls before the launch.
\* Nothing is assumed of the child: it may ignore even SIGKILL.
Own == Admit \/ Account \/ Preflight \/ Deadline \/ Wind \/ GraceOver \/ Return

Fairness == WF_vars(Own)
-----------------------------------------------------------------------------
(* Properties.                                                             *)

TypeOK ==
  /\ at \in {"admit", "account", "preflight", "running", "cleaning", "settling", "returned"}
  /\ used \in 0 .. MaxTurns + 2
  /\ input \in [Inputs -> {"none", "written", "replayed", "consumed"}]

\* An attempt that counts as done has an attested init frame, the pinned model's
\* own report, a clean exit within the turn budget, and no steering that it
\* accepted and never answered.
DoneIsEarned ==
  verdict.state = "done" =>
    /\ attested /\ verified /\ last = "report" /\ used <= MaxTurns
    /\ closed /\ exit = "zero" /\ cancel = "live" /\ Pending = {}

\* The runner never returns silently while its child may live: it reports a
\* failure and hands over the exit as the cleanup that keeps the lease.
NoChildLeft ==
  at = "returned" /\ child = "alive" => verdict.cleanup /\ verdict.state = "failed"

\* A reviewer moves to another route only when the pinned model said nothing
\* and the child is gone.
FallbackIsSilent == verdict.fallback => ~output /\ child # "alive" /\ cancel = "live" /\ ~api

\* Steering ends with the final result: nothing is accepted after it.
FinalIsFinal == terminal => relayed # "open" /\ Pending = {}

ClaudeWorkerSound == TypeOK /\ DoneIsEarned /\ NoChildLeft /\ FallbackIsSilent /\ FinalIsFinal

(* The inductive invariant that ClaudeWorkerSound rests on.                *)

Typed ==
  /\ cancel \in {"live", "abort", "timeout"} /\ child \in {"none", "alive", "gone"}
  /\ last \in {"none", "empty", "report", "error"} /\ relayed \in {"unbound", "open", "closed"}
  /\ exit \in {"none", "zero", "other", "cut"}
  /\ verdict \in [state : {"none", "timed_out", "aborted", "failed", "done"}, cleanup : BOOLEAN,
                  fallback : BOOLEAN]

Flags == /\ api \in BOOLEAN /\ owned \in BOOLEAN /\ killed \in BOOLEAN /\ expired \in BOOLEAN
         /\ closed \in BOOLEAN /\ failed \in BOOLEAN /\ over \in BOOLEAN /\ output \in BOOLEAN
         /\ verified \in BOOLEAN /\ attested \in BOOLEAN /\ terminal \in BOOLEAN
         /\ reason \in BOOLEAN /\ asking \in BOOLEAN

\* A turn beyond the limit is the last one that is counted.
Counted == /\ used \in Nat /\ completed \in Nat /\ completed <= used /\ used <= MaxTurns + 1
           /\ ~over => used <= MaxTurns

\* Before the launch there is no child, and nothing was said.
Early == at \in {"admit", "account", "preflight"} =>
           child = "none" /\ ~output /\ ~terminal /\ ~closed /\ relayed = "unbound"

\* A child that was seen to exit is gone, and takes no envelope.
Exited == closed => child = "gone" /\ relayed # "open"

\* Who is stopped has a reason: a failure, the turn limit, or the signal.
Stopping == killed => failed \/ over \/ cancel # "live"

\* An exit without a reason leaves nothing unanswered.
Answered == closed /\ ~failed /\ ~over /\ cancel = "live" => Pending = {}

Decided == /\ at = "returned" <=> verdict.state # "none"
           /\ verdict.fallback => at = "returned"

IInv == ClaudeWorkerSound /\ Typed /\ Flags /\ Counted /\ Early /\ Exited /\ Stopping /\ Answered /\ Decided

\* A cancelled attempt returns, whatever the child does, and so does one whose
\* child was told to stop or has lost its handle.
Ended == cancel # "live" \/ killed => at = "returned"

ClaudeWorkerEnds == []<>Ended
=============================================================================
