------------------------------ MODULE ClaudeTurn ------------------------------
(***************************************************************************)
(* One turn of the Claude Code provider: ClaudeProcess.run                 *)
(* (extensions/claude-code/claude-cli.ts) and the loopback relay through   *)
(* which the child reaches the API (turn-relay.ts).  The host replays the  *)
(* history, then reads the child's events up to a result; meanwhile the    *)
(* relay forwards one request of the child, retries it while nothing was   *)
(* shown yet, and captures the answer.  An answer that is accepted is      *)
(* reported to the account's router before the turn is disarmed.  Nothing  *)
(* is assumed of the child or of the API.                                  *)
(***************************************************************************)
EXTENDS Naturals

CONSTANTS Attempts,  \* retry.attempts
          Replays,   \* history frames that are replayed before the last one
          MaxEvents  \* bound: what the child says, chunks and requests

VARIABLES
  at,       \* the host: "start", "replay", "reading", "settling", "reporting", "returned"
  acks,     \* zero-turn results to come
  aborted,  \* the caller's signal
  child,    \* "alive", "gone"
  said,     \* the last assistant event: a message kind, or "none"
  stopped,  \* a message_stop was delivered
  nativeError, result, overage,
  answer,   \* what was accepted: [by, kind], by "relay" or "child"; none before
  late,     \* ghost: the caller aborted after that
  handler,  \* of the relay: "none", "body", "asking", "first", "backoff", "streaming", "ended", "failed"
  used, denied, tries, status, \* "none", "ok", "busy" (retryable), "refused"
  shown,    \* the attempt whose bytes the child has, 0 for none
  captured, \* the captured message: a kind, or "none"; complete when whole
  whole,
  cancelled, waitFailed,
  outcome,  \* "none", "output", "failed", "wait", "aborted"
  events

host  == <<at, acks, said, stopped, nativeError, result, overage, answer, outcome>>
relay == <<handler, used, denied, tries, status, shown, captured, whole, waitFailed>>
vars  == <<at, acks, aborted, child, said, stopped, nativeError, result, overage, answer, late,
           handler, used, denied, tries, status, shown, captured, whole, cancelled, waitFailed,
           outcome, events>>

\* What a message has: plain text, known tool calls, a tool that Pi does not
\* have, no usage, or a refusal.
Kinds  == {"text", "tools", "alien", "unmetered", "refusal"}
Active == handler \in {"body", "asking", "first", "backoff", "streaming"}
Event  == events < MaxEvents /\ events' = events + 1

Init ==
  /\ at = "start" /\ acks \in {0, Replays} /\ aborted = FALSE /\ child = "alive"
  /\ said = "none" /\ stopped = FALSE /\ nativeError = FALSE /\ result = "none" /\ overage = FALSE
  /\ answer = [by |-> "none", kind |-> "none"] /\ late = FALSE
  /\ handler = "none" /\ used = FALSE /\ denied = FALSE /\ tries = 0 /\ status = "none" /\ shown = 0
  /\ captured = "none" /\ whole = FALSE /\ cancelled = TRUE /\ waitFailed = FALSE
  /\ outcome = "none" /\ events = 0
-----------------------------------------------------------------------------
(* The host.                                                               *)

\* The finally block of run: the relay is disarmed.  A failed wait of the relay
\* is the reason, unless the caller aborted.
Throw(why) ==
  /\ at' = "returned" /\ cancelled' = TRUE
  /\ outcome' = IF aborted' THEN "aborted" ELSE IF waitFailed THEN "wait" ELSE why

\* The process is alive and the account has its reserve; the relay is armed.
Begin ==
  /\ at = "start"
  /\ \/ at' = "replay" /\ cancelled' = FALSE /\ UNCHANGED outcome
     \/ at' = "returned" /\ outcome' = "failed" /\ UNCHANGED cancelled
  /\ UNCHANGED <<acks, aborted, late, child, said, stopped, nativeError, result, overage, answer,
                 relay, events>>

\* writeFrame: every history frame waits for its zero-turn result.
Ack ==
  /\ at = "replay" /\ acks > 0 /\ child = "alive" /\ acks' = acks - 1
  /\ UNCHANGED <<at, aborted, late, child, said, stopped, nativeError, result, overage, answer,
                 relay, cancelled,
                 outcome, events>>

Replayed ==
  /\ at = "replay" /\ acks = 0 /\ at' = "reading"
  /\ UNCHANGED <<acks, aborted, late, child, said, stopped, nativeError, result, overage, answer,
                 relay, cancelled,
                 outcome, events>>

\* A rejected replay, a closed stdin, a malformed line, an exit.
ChildFails ==
  /\ at \in {"replay", "reading"}
  /\ child' \in {child, "gone"} /\ UNCHANGED aborted
  /\ Throw("failed")
  /\ UNCHANGED <<acks, late, said, stopped, nativeError, result, overage, answer, relay, events>>

\* No byte and no event for as long as the limit.
Idle ==
  /\ at \in {"replay", "reading", "settling"} /\ (at = "settling" => Active)
  /\ UNCHANGED aborted /\ Throw("wait")
  /\ UNCHANGED <<acks, late, child, said, stopped, nativeError, result, overage, answer, relay,
                 events>>

\* The listener of the signal: the relay is aborted and the child killed.
Abort ==
  /\ at \notin {"start", "returned"} /\ ~aborted
  /\ aborted' = TRUE /\ cancelled' = TRUE /\ child' = "gone"
  /\ late' = (at = "reporting")
  /\ UNCHANGED <<host, relay, events>>

AbortSeen ==
  /\ aborted /\ at \in {"replay", "reading", "settling"} /\ UNCHANGED aborted
  /\ Throw("aborted")
  /\ UNCHANGED <<acks, late, child, said, stopped, nativeError, result, overage, answer, relay,
                 events>>

\* The child's events.  Stream events count only while the relay is unused.
Assistant(kind) ==
  /\ at = "reading" /\ child = "alive" /\ Event
  /\ said' = kind /\ stopped' \in (IF used THEN {stopped} ELSE {stopped, TRUE})
  /\ UNCHANGED <<at, acks, nativeError, result, overage, answer, outcome, aborted, late, child,
                 relay, cancelled>>

NativeError ==
  /\ at = "reading" /\ child = "alive" /\ Event /\ nativeError' = TRUE
  /\ UNCHANGED <<at, acks, said, stopped, result, overage, answer, outcome, aborted, late, child,
                 relay, cancelled>>

Result(kind) ==
  /\ at = "reading" /\ child = "alive"
  /\ result' = kind /\ overage' \in BOOLEAN /\ at' = "settling"
  /\ UNCHANGED <<acks, said, stopped, nativeError, answer, outcome, aborted, late, child, relay,
                 cancelled, events>>

\* Seeded bug: the first bytes of an answer are taken for the answer.
BugAnswered == status = "ok"

\* The captured answer is there to its end.
Answered == status = "ok" /\ whole

Message == IF used THEN captured ELSE said

\* A denied retry or a refusal explains a native error.
Handled == denied \/ Message = "refusal"

Good ==
  /\ IF used THEN Answered ELSE said # "none" /\ stopped
  /\ nativeError => Handled
  /\ \/ result = "success" \/ Handled
     \/ result = "max_turns" /\ Message \in {"tools", "alien"}
  /\ Message \notin {"alien", "unmetered"}

\* What the host makes of it, once every handler of the relay has ended.
Decide ==
  /\ at = "settling" /\ ~Active
  /\ UNCHANGED <<aborted, late, child, acks, said, stopped, nativeError, result, overage, relay,
                 events>>
  /\ IF ~aborted /\ ~waitFailed /\ Good
     THEN /\ at' = "reporting" /\ UNCHANGED <<outcome, cancelled>>
          /\ answer' = [by |-> IF used THEN "relay" ELSE "child", kind |-> Message]
     ELSE Throw("failed") /\ UNCHANGED answer

\* The account's router has taken the reading, or its time is up.  The relay is armed
\* until now; an abort in between ends the child, but takes no answer back.
Reported ==
  /\ at = "reporting"
  /\ UNCHANGED <<aborted, late, child, acks, said, stopped, nativeError, result, overage, answer,
                 relay, events>>
  /\ IF overage THEN Throw("failed")
                ELSE at' = "returned" /\ outcome' = "output" /\ cancelled' = TRUE
-----------------------------------------------------------------------------
(* The relay: handle.                                                      *)

Fails(wait) == /\ handler' = "failed" /\ waitFailed' = (waitFailed \/ wait)

\* One request of the turn is taken, the others are denied.
Post ==
  /\ child = "alive" /\ Event
  /\ IF cancelled \/ used
     THEN denied' = TRUE /\ UNCHANGED <<used, handler>>
     ELSE used' = TRUE /\ handler' = "body" /\ UNCHANGED denied
  /\ UNCHANGED <<host, aborted, late, child, tries, status, shown, captured, whole, cancelled,
                 waitFailed>>

\* A further attempt, unless the turn was disarmed meanwhile.
Ask ==
  /\ handler \in {"body", "backoff"} /\ ~cancelled
  /\ tries' = tries + 1 /\ handler' = "asking"
  /\ UNCHANGED <<host, aborted, late, child, used, denied, status, shown, captured, whole,
                 cancelled,
                 waitFailed, events>>

\* Seeded bug: a stream that breaks off is started again.
BugRetryable == handler \in {"asking", "first", "streaming"} /\ tries < Attempts

\* Socket failures, until the first byte.
Retryable == handler \in {"asking", "first"} /\ tries < Attempts

SocketFails ==
  /\ handler \in {"asking", "first", "streaming"} /\ ~cancelled
  /\ IF Retryable THEN handler' = "backoff" /\ UNCHANGED waitFailed ELSE Fails(FALSE)
  /\ UNCHANGED <<host, aborted, late, child, used, denied, tries, status, shown, captured, whole,
                 cancelled,
                 events>>

\* Everything else is final: no answer in time, a bad body, a malformed event, a
\* child that does not read.  So is the disarming of the turn.
HandlerFails(wait) ==
  /\ Active /\ Fails(wait)
  /\ UNCHANGED <<host, aborted, late, child, used, denied, tries, status, shown, captured, whole,
                 cancelled,
                 events>>

Headers(code) ==
  /\ handler = "asking" /\ ~cancelled /\ status' = code
  /\ handler' = IF code = "busy" /\ tries < Attempts THEN "backoff" ELSE "first"
  /\ UNCHANGED <<host, aborted, late, child, used, denied, tries, shown, captured, whole, cancelled,
                 waitFailed, events>>

\* A chunk goes to the capture and to the child.  An answer is whole at its
\* message_stop, with a stop reason and no open tool arguments.
Chunk(kind, last) ==
  /\ handler \in {"first", "streaming"} /\ ~cancelled /\ Event
  /\ handler' = "streaming" /\ shown' = tries
  /\ IF status = "ok"
     THEN captured' = kind /\ whole' = (whole \/ last) /\ stopped' = (stopped \/ last)
     ELSE UNCHANGED <<captured, whole, stopped>>
  /\ UNCHANGED <<at, acks, said, nativeError, result, overage, answer, outcome, aborted, late,
                 child, used, denied,
                 tries, status, cancelled, waitFailed>>

StreamEnds ==
  /\ handler \in {"first", "streaming"} /\ handler' = "ended"
  /\ UNCHANGED <<host, aborted, late, child, used, denied, tries, status, shown, captured, whole,
                 cancelled,
                 waitFailed, events>>
-----------------------------------------------------------------------------
Next ==
  \/ Begin \/ Ack \/ Replayed \/ ChildFails \/ Idle \/ Abort \/ AbortSeen \/ Decide \/ Reported
  \/ \E kind \in Kinds : Assistant(kind) \/ (\E last \in BOOLEAN : Chunk(kind, last))
  \/ NativeError \/ \E kind \in {"success", "max_turns", "error"} : Result(kind)
  \/ Post \/ Ask \/ SocketFails \/ \E wait \in BOOLEAN : HandlerFails(wait)
  \/ \E code \in {"ok", "busy", "refused"} : Headers(code)
  \/ StreamEnds

Spec == Init /\ [][Next]_vars

\* The timers of both sides, and the host's own steps.
Own == \/ Begin \/ Replayed \/ Idle \/ AbortSeen \/ Decide \/ Reported
       \/ \E wait \in BOOLEAN : HandlerFails(wait)

Fairness == WF_vars(Own)
-----------------------------------------------------------------------------
TypeOK == /\ tries \in 0 .. Attempts /\ shown \in 0 .. Attempts
          /\ captured \in Kinds \cup {"none"} /\ said \in Kinds \cup {"none"}

\* An answer that was accepted is one whole answer: the API's own, when the relay was
\* used, or the child's last; with known tools and its usage, and after the child's result.
AnswerIsWhole ==
  /\ result # "none" /\ stopped /\ answer.kind \in {"text", "tools", "refusal"}
  /\ IF answer.by = "relay"
     THEN /\ used /\ whole /\ shown = tries /\ captured = answer.kind
          /\ ~Active /\ ~waitFailed
     ELSE said = answer.kind

\* What Pi gets is a whole answer, whatever the child asks for while it is reported;
\* and it comes out of a turn that was given up only when that came after it.
OutputIsWhole ==
  outcome = "output" => AnswerIsWhole /\ ~overage /\ (aborted => late /\ child = "gone")

\* A turn that the child has seen a byte of is never asked again, and no turn is
\* asked more often than the policy says.
NothingAskedTwice == shown # 0 => tries = shown

\* Nothing more is taken for a turn that is over, and no handler outlives an answer of
\* the relay.
Disarmed == at = "returned" => cancelled /\ (outcome = "output" /\ answer.by = "relay" => ~Active)

TurnSound == TypeOK /\ OutputIsWhole /\ NothingAskedTwice /\ Disarmed

(* The inductive invariant that TurnSound rests on.                        *)

Typed ==
  /\ at \in {"start", "replay", "reading", "settling", "reporting", "returned"}
  /\ handler \in {"none", "body", "asking", "first", "backoff", "streaming", "ended", "failed"}
  /\ status \in {"none", "ok", "busy", "refused"}
  /\ outcome \in {"none", "output", "failed", "wait", "aborted"}
  /\ answer \in [by : {"none", "relay", "child"}, kind : Kinds \cup {"none"}]
  /\ {aborted, late, stopped, nativeError, overage, used, denied, whole, cancelled,
      waitFailed} \subseteq BOOLEAN

\* An attempt is made with tries left, and nothing is shown before it answers.
Attempted == /\ handler \in {"none", "body"} => tries = 0
             /\ handler = "backoff" => tries < Attempts
             /\ handler \in {"asking", "first", "streaming"} => tries > 0
             /\ handler \in {"none", "body", "asking", "first", "backoff"} => shown = 0

\* What is captured is of the one request of the turn, and whole at its stop.
Taken == /\ used <=> handler # "none"
         /\ whole => stopped /\ shown # 0 /\ captured # "none"

\* The relay is armed between the begin and the decision, which comes after a result.
Armed == /\ at \in {"start", "returned"} => cancelled
         /\ at \in {"settling", "reporting"} => result # "none"
         /\ at = "reporting" => AnswerIsWhole /\ (aborted => late /\ child = "gone")
         /\ outcome = "output" => at = "returned"

IInv == TurnSound /\ Typed /\ Attempted /\ Taken /\ Armed

\* The turn ends, and with it the request that it forwards.
Ended == at = "returned" /\ ~Active

TurnEnds == []<>Ended
=============================================================================
