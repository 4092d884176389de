------------------------- MODULE CompletionDelivery -------------------------
(***************************************************************************)
(* How the completions of background runs reach the parent                 *)
(* (src/extensions/ultraterm-subagents.ts): a buffer, messages submitted   *)
(* to the agent SDK, receipts read back from the transcript, one wake per  *)
(* coalesced flush, and bounded retries.                                   *)
(*                                                                         *)
(* The host is single-threaded.  flushCompletions takes several steps here *)
(* because each of its sends has an outcome of its own; no other handler   *)
(* runs in between.  The SDK is external: it appends a message at once,    *)
(* queues it, or throws, and queued messages may be lost.                  *)
(***************************************************************************)
EXTENDS Naturals, Sequences, SequencesExt, FiniteSets

CONSTANTS Run,
          WakeParent,   \* STEAK_USAP_WAKE_PARENT
          MaxRetries,   \* 20 in the code
          MaxFaults,    \* receipts whose write fails
          MaxPrompts,   \* agent runs that the operator starts
          MaxRestarts   \* restarts of the host

VARIABLES
  live,         \* run -> "none", "running", "settled" (its handler is due), "ended"
  background,   \* runs recorded as background
  attached,     \* runs whose binding is background
  buffer,       \* completionBuffer
  awaiting,     \* awaitingReceipt
  acked,        \* acknowledgedCompletions
  attempted,    \* wakeAttempted
  wakePending, agentIdle, timer, retries,
  shown,        \* the status "delivery unconfirmed" is on
  flush,        \* [at, used, batch]: where flushCompletions stands
  micro,        \* queued microtasks that flush
  delivered,    \* runs whose checkpoint says delivered
  receipts,     \* runs whose receipt is yet to be written
  phase,        \* of the agent, see Phases
  inbox,        \* messages that the SDK has queued, each a set of runs
  entries,      \* run -> number of transcript entries that name it
  told,         \* runs whose outcome the parent got from a tool call
  failing,      \* runs whose dispatch has failed and is about to say so
  silent,       \* runs marked delivered whose host went away before it said so
  woken,        \* run -> wakes requested in this life while it was the latest
  clash,        \* a wake was requested of an agent that was not idle
  budget        \* [faults, prompts, restarts] so far

store == <<delivered, receipts>>
agent == <<phase, inbox, entries>>
runs  == <<live, background, attached>>
wakes == <<attempted, wakePending, woken, clash>>
queue == <<buffer, awaiting, acked>>
retry == <<timer, retries, shown>>
heard == <<told, failing, silent>>
vars  == <<live, background, attached, buffer, awaiting, acked, attempted, wakePending,
           agentIdle, timer, retries, shown, flush, micro, delivered, receipts,
           phase, inbox, entries, told, failing, silent, woken, clash, budget>>

\* "begun": busy, agent_start is due.  "ending": agent_settled came, not idle
\* yet.  "finished": idle, agent_settled is due.  "waking": a wake was accepted.
Phases == {"idle", "waking", "begun", "running", "ending", "finished"}

\* What ctx.isIdle may answer.
IsIdle == CASE phase \in {"idle", "finished"} -> {TRUE}
            [] phase = "waking" -> BOOLEAN
            [] OTHER -> {FALSE}

Off == [at |-> "off", used |-> FALSE, batch |-> {}]
Quiet == flush.at = "off"

InBuffer(r) == r \in ToSet(buffer)
Observed == {r \in Run : entries[r] > 0}

\* s without the members of ids, in its order: the n-th of what is kept.
Kept(s, ids)    == {i \in DOMAIN s : s[i] \notin ids}
Rank(K, i)      == Cardinality({k \in K : k <= i})
Without(s, ids) == LET K == Kept(s, ids) IN
                   [n \in 1 .. Cardinality(K) |-> s[CHOOSE i \in K : Rank(K, i) = n]]

\* What may be put into one message: as much as fits, one at least.
Chunks(s) == {ToSet(SubSeq(s, 1, n)) : n \in 1 .. Len(s)}
\* Seeded bug: what was submitted before is submitted again.
BugBatches == Chunks(buffer)

\* The next message: from what is not awaiting a receipt.
Unsent == Without(buffer, awaiting)
Batches == Chunks(Unsent)

-----------------------------------------------------------------------------
\* markDeliveredDurably for each of ids; the writes of some may fail.
\* awaited and kept are the awaited receipts and the buffer before.
Mark(ids, kept, awaited) ==
  /\ acked' = acked \cup ids
  /\ buffer' = Without(kept, ids)
  /\ awaiting' = awaited \ ids
  /\ \E lost \in SUBSET ids :
       /\ Cardinality(lost) + budget.faults <= MaxFaults
       /\ delivered' = delivered \cup (ids \ lost)
       /\ receipts' = (receipts \ (ids \ lost)) \cup lost
       /\ budget' = [budget EXCEPT !.faults = @ + Cardinality(lost)]

\* retryDelivery with n retries made, idle for agentIdle and t for a timer set.
RetryDelivery(n, idle, t) ==
  /\ timer' = (t \/ n < MaxRetries)
  /\ retries' = IF t \/ n >= MaxRetries THEN n ELSE n + 1
  /\ shown' = (shown \/ (~t /\ n >= MaxRetries /\ idle))

\* The beginning of flushCompletions.
Flush(n, idle, t) ==
  \E isIdle \in IsIdle :
    IF idle /\ ~isIdle
    THEN /\ RetryDelivery(n, idle, t)
         /\ UNCHANGED <<queue, store, budget, flush>>
    ELSE /\ Mark(Observed \cap ToSet(buffer), Without(buffer, acked \cup delivered), awaiting)
         /\ flush' = [at |-> "loop", used |-> FALSE, batch |-> {}]
         /\ timer' = t /\ retries' = n /\ UNCHANGED shown

\* A wake is requested of an idle agent, unless one is pending, this flush
\* has used its own, or the batch holds nothing new.
Triggers(batch) == /\ agentIdle /\ WakeParent /\ ~wakePending /\ ~flush.used
                   /\ \E r \in batch : r \notin attempted

\* The SDK takes a message: it appends it at once or queues it.
Take(batch) == \/ /\ entries' = [r \in Run |-> entries[r] + (IF r \in batch THEN 1 ELSE 0)]
                  /\ UNCHANGED inbox
               \/ inbox' = Append(inbox, batch) /\ UNCHANGED entries

\* It throws, and may have appended before.
Throw(batch) == /\ entries' \in {entries, [r \in Run |-> entries[r] + (IF r \in batch THEN 1 ELSE 0)]}
                /\ UNCHANGED inbox
Appended == {r \in Run : entries'[r] > 0}

\* A message was accepted: its receipts are awaited, those that came are taken.
Accepted(batch) ==
  /\ Mark(Appended \cap ToSet(buffer), buffer, awaiting \cup (batch \ acked))
  /\ UNCHANGED retry

\* Seeded bug: a rejected wake is forgotten.
BugAttempt == UNCHANGED attempted

\* wakeAttempted takes the chunks that do not fit the message as well.
Attempt == attempted' = attempted \cup ToSet(buffer)

\* One message of the loop.
Send ==
  /\ flush.at = "loop" /\ Unsent # <<>>
  /\ \E batch \in Batches :
        IF Triggers(batch)
        THEN /\ Attempt
             /\ woken' = [woken EXCEPT ![Last(buffer)] = @ + 1]
             /\ clash' = (clash \/ phase # "idle")
             /\ \/ /\ Take(batch) /\ Accepted(batch)
                   /\ wakePending' = TRUE /\ phase' = "waking"
                   /\ flush' = [flush EXCEPT !.used = TRUE]
                \/ /\ Throw(batch)
                   /\ Mark(Appended \cap ToSet(buffer), buffer, awaiting)
                   /\ wakePending' = FALSE
                   /\ flush' = [at |-> "fallback", used |-> TRUE, batch |-> batch]
                   /\ UNCHANGED <<retry, phase>>
        ELSE /\ \/ Take(batch) /\ Accepted(batch) /\ UNCHANGED flush
                \/ /\ Throw(batch) /\ RetryDelivery(retries, agentIdle, timer)
                   /\ flush' = Off
                   /\ UNCHANGED <<queue, store, budget>>
             /\ UNCHANGED <<wakes, phase>>
  /\ UNCHANGED <<runs, agentIdle, micro, heard>>

\* After a rejected wake: the message again, passively, unless it was appended.
Fallback ==
  /\ flush.at = "fallback"
  /\ IF flush.batch \subseteq Observed
     THEN /\ awaiting' = awaiting \cup (flush.batch \ acked)
          /\ flush' = [flush EXCEPT !.at = "loop", !.batch = {}]
          /\ UNCHANGED <<buffer, acked, store, budget, retry, inbox, entries>>
     ELSE \/ /\ Take(flush.batch) /\ Accepted(flush.batch)
             /\ flush' = [flush EXCEPT !.at = "loop", !.batch = {}]
          \/ /\ Throw(flush.batch) /\ RetryDelivery(retries, agentIdle, timer)
             /\ flush' = Off
             /\ UNCHANGED <<queue, store, budget>>
  /\ UNCHANGED <<runs, wakes, agentIdle, micro, phase, heard>>

\* The end of the loop.
FlushEnd ==
  /\ flush.at = "loop" /\ Unsent = <<>>
  /\ flush' = Off
  /\ IF buffer # <<>> THEN RetryDelivery(retries, agentIdle, timer)
                      ELSE timer' = FALSE /\ retries' = 0 /\ shown' = FALSE
  /\ UNCHANGED <<runs, queue, wakes, agentIdle, micro, store, agent, heard, budget>>

-----------------------------------------------------------------------------
\* A dispatch; its worker outlives the startup window.
Dispatch(r) ==
  /\ Quiet /\ phase = "running" /\ live[r] = "none"
  /\ live' = [live EXCEPT ![r] = "running"]
  /\ \/ background' = background \cup {r} /\ attached' = attached \cup {r}
     \/ UNCHANGED <<background, attached>>
  /\ UNCHANGED <<queue, wakes, agentIdle, retry, flush, micro, store, agent, heard, budget>>

\* A dispatch of which a worker fails before its first output: it marks the run
\* delivered and cancels it, then waits for it to settle.
DispatchFails(r) ==
  /\ Quiet /\ phase = "running" /\ live[r] = "none"
  /\ live' = [live EXCEPT ![r] = "running"]
  /\ background' = background \cup {r} /\ UNCHANGED attached
  /\ failing' = failing \cup {r} /\ UNCHANGED <<told, silent>>
  /\ Mark({r}, buffer, awaiting)
  /\ UNCHANGED <<wakes, agentIdle, retry, flush, micro, agent>>

\* It throws its cause, the one notification, or falls through to the next
\* wave, of which its answer says so.
DispatchThrows(r) ==
  /\ Quiet /\ r \in failing
  /\ failing' = failing \ {r} /\ told' = told \cup {r} /\ UNCHANGED silent
  /\ UNCHANGED <<runs, queue, wakes, agentIdle, retry, flush, micro, store, agent, budget>>

\* The coordinator settles a run; the handler of attachCompletion is due.
Settle(r) ==
  /\ live[r] = "running" /\ Quiet
  /\ live' = [live EXCEPT ![r] = "settled"]
  /\ UNCHANGED <<background, attached, queue, wakes, agentIdle, retry, flush, micro, store, agent,
                 heard, budget>>

Complete(r) ==
  /\ live[r] = "settled" /\ Quiet
  /\ live' = [live EXCEPT ![r] = "ended"]
  /\ IF r \in attached /\ r \notin acked
     THEN buffer' = Append(buffer, r) /\ micro' = micro + 1
     ELSE UNCHANGED <<buffer, micro>>
  /\ UNCHANGED <<background, attached, awaiting, acked, wakes, agentIdle, retry, flush, store,
                 agent, heard, budget>>

Microtask ==
  /\ Quiet /\ micro > 0
  /\ micro' = micro - 1
  /\ Flush(retries, agentIdle, timer)
  /\ UNCHANGED <<runs, wakes, agentIdle, agent, heard>>

Timer ==
  /\ Quiet /\ micro = 0 /\ timer
  /\ Flush(retries, agentIdle, FALSE)
  /\ UNCHANGED <<runs, wakes, agentIdle, micro, agent, heard>>

\* The hub's status and wait acknowledge what they show.
Hub(r) ==
  /\ Quiet /\ phase = "running" /\ live[r] \in {"settled", "ended"}
  /\ told' = told \cup {r} /\ UNCHANGED <<failing, silent>>
  /\ Mark({r}, buffer, awaiting)
  /\ UNCHANGED <<runs, wakes, agentIdle, retry, flush, micro, agent>>

\* A failed receipt is written with a later save of the run.
SaveReceipt(r) ==
  /\ Quiet /\ r \in receipts
  /\ receipts' = receipts \ {r} /\ delivered' = delivered \cup {r}
  /\ UNCHANGED <<runs, queue, wakes, agentIdle, retry, flush, micro, agent, heard, budget>>

-----------------------------------------------------------------------------
\* The agent: the operator prompts it or a wake starts it.
Begin ==
  /\ Quiet /\ micro = 0
  /\ \/ phase = "waking" /\ UNCHANGED budget
     \/ /\ phase = "idle" /\ budget.prompts < MaxPrompts
        /\ budget' = [budget EXCEPT !.prompts = @ + 1]
  /\ phase' = "begun"
  /\ UNCHANGED <<runs, queue, wakes, agentIdle, retry, flush, micro, store, inbox, entries, heard>>

\* The run that a wake asked for does not start.
WakeFails ==
  /\ Quiet /\ phase = "waking" /\ phase' = "idle"
  /\ UNCHANGED <<runs, queue, wakes, agentIdle, retry, flush, micro, store, inbox, entries, heard,
                 budget>>

AgentStart ==
  /\ Quiet /\ phase = "begun" /\ phase' = "running"
  /\ agentIdle' = FALSE /\ wakePending' = FALSE
  /\ UNCHANGED <<runs, queue, attempted, woken, clash, retry, flush, micro, store, inbox, entries,
                 heard, budget>>

\* A turn of the agent ends after the tool calls that it has made.
CallsDone == phase = "running" /\ failing = {}

TurnEnd ==
  /\ Quiet /\ CallsDone /\ buffer # <<>>
  /\ Flush(0, agentIdle, timer)
  /\ UNCHANGED <<runs, wakes, agentIdle, micro, agent, heard>>

\* Seeded bug: the end of an agent run does not look at the buffer.
BugAgentSettled ==
  /\ Quiet /\ micro = 0
  /\ \/ CallsDone /\ phase' = "ending"
     \/ phase = "finished" /\ phase' = "idle"
  /\ agentIdle' = TRUE
  /\ UNCHANGED <<runs, queue, wakes, retry, flush, micro, store, inbox, entries, heard, budget>>

\* agent_settled comes before or after isIdle says so.
AgentSettled ==
  /\ Quiet /\ micro = 0
  /\ \/ CallsDone /\ phase' = "ending"
     \/ phase = "finished" /\ phase' = "idle"
  /\ agentIdle' = TRUE
  /\ Flush(0, TRUE, timer)
  /\ UNCHANGED <<runs, wakes, micro, inbox, entries, heard>>

TurnsIdle ==
  /\ Quiet
  /\ \/ CallsDone /\ phase' = "finished"
     \/ phase = "ending" /\ phase' = "idle"
  /\ UNCHANGED <<runs, queue, wakes, agentIdle, retry, flush, micro, store, inbox, entries, heard,
                 budget>>

\* A queued message reaches the transcript, or is dropped with the queue.
Land ==
  /\ Quiet /\ inbox # <<>>
  /\ inbox' = Tail(inbox)
  /\ entries' \in {entries, [r \in Run |-> entries[r] + (IF r \in Head(inbox) THEN 1 ELSE 0)]}
  /\ UNCHANGED <<runs, queue, wakes, agentIdle, retry, flush, micro, store, phase, heard, budget>>

\* A new host adopts the store: what was interrupted has ended, what the
\* transcript shows is delivered, the rest of the background runs is buffered.
Restart ==
  /\ budget.restarts < MaxRestarts
  /\ budget' = [budget EXCEPT !.restarts = @ + 1]
  /\ live' = [r \in Run |-> IF live[r] = "none" THEN "none" ELSE "ended"]
  /\ LET known == {r \in Run : live[r] # "none"}
         due == {r \in known \cap background : r \notin delivered \cup Observed}
     IN /\ delivered' = delivered \cup (known \cap Observed)
        /\ buffer' \in SetToSeqs(due)
  /\ attached' = {} /\ awaiting' = {} /\ acked' = {} /\ attempted' = {} /\ receipts' = {}
  /\ wakePending' = FALSE /\ agentIdle' = TRUE
  /\ timer' = FALSE /\ retries' = 0 /\ shown' = FALSE /\ flush' = Off
  /\ micro' = 1   \* the flush of session_start
  /\ phase' = "idle" /\ inbox' = <<>>
  /\ woken' = [r \in Run |-> 0] /\ clash' = FALSE
  /\ failing' = {} /\ silent' = silent \cup (failing \cap delivered)
  /\ UNCHANGED <<background, entries, told>>

-----------------------------------------------------------------------------
Init ==
  /\ live = [r \in Run |-> "none"] /\ background = {} /\ attached = {}
  /\ buffer = <<>> /\ awaiting = {} /\ acked = {} /\ attempted = {}
  /\ wakePending = FALSE /\ agentIdle = TRUE
  /\ timer = FALSE /\ retries = 0 /\ shown = FALSE /\ flush = Off /\ micro = 0
  /\ delivered = {} /\ receipts = {}
  /\ phase = "idle" /\ inbox = <<>> /\ entries = [r \in Run |-> 0]
  /\ told = {} /\ failing = {} /\ silent = {}
  /\ woken = [r \in Run |-> 0] /\ clash = FALSE
  /\ budget = [faults |-> 0, prompts |-> 0, restarts |-> 0]

HostSteps == Send \/ Fallback \/ FlushEnd \/ Microtask \/ Timer \/ \E r \in Run : Complete(r)
AgentSteps == Begin \/ AgentStart \/ AgentSettled \/ TurnsIdle

Next ==
  \/ HostSteps \/ AgentSteps \/ WakeFails \/ TurnEnd \/ Land \/ Restart
  \/ \E r \in Run : \/ Dispatch(r) \/ DispatchFails(r) \/ DispatchThrows(r)
                    \/ Settle(r) \/ Hub(r) \/ SaveReceipt(r)

Spec == Init /\ [][Next]_vars

\* The host's own steps are taken, and an agent run that has begun ends however
\* many turns it has (a flush at the end of a turn delays the end, hence SF);
\* the wait of a failing dispatch has a deadline (STARTUP_CANCEL_SETTLE_MS).
\* The SDK need not deliver anything.
Fairness == /\ WF_vars(HostSteps)
            /\ SF_vars(phase # "idle" /\ (AgentSteps \/ WakeFails))
            /\ WF_vars(\E r \in Run : DispatchThrows(r))

-----------------------------------------------------------------------------
TypeOK ==
  /\ live \in [Run -> {"none", "running", "settled", "ended"}]
  /\ background \subseteq Run /\ attached \subseteq background
  /\ buffer \in Seq(Run) /\ awaiting \subseteq Run /\ acked \subseteq Run /\ attempted \subseteq Run
  /\ {wakePending, agentIdle, timer, shown, clash} \subseteq BOOLEAN
  /\ retries \in 0 .. MaxRetries /\ micro \in 0 .. Cardinality(Run) + 1
  /\ flush.at \in {"off", "loop", "fallback"} /\ flush.batch \subseteq Run
  /\ delivered \subseteq Run /\ receipts \subseteq Run
  /\ told \subseteq Run /\ failing \subseteq Run /\ silent \subseteq Run
  /\ phase \in Phases /\ inbox \in Seq(SUBSET Run) /\ entries \in [Run -> Nat] /\ woken \in [Run -> Nat]

\* A completion is in the transcript once at most, whatever is queued,
\* rejected after it was appended, or recovered by a new host; and no receipt
\* is made up: what counts as delivered, in memory or on disk, has reached
\* the parent by the transcript or by the result of a tool call, or a failing
\* dispatch is about to tell it.  Only a host that goes away while that dispatch
\* waits for its cancelled workers leaves a run delivered that nobody told of.
DeliveredOnce ==
  /\ TypeOK
  /\ \A r \in Run : entries[r] <= 1
  /\ acked \cup delivered \cup receipts \subseteq Observed \cup told \cup failing \cup silent

\* A coalesced flush asks for one wake at most, and a rejected wake is not
\* asked for again until another completion has come: no completion is twice
\* the latest one when a wake is requested.  No wake is requested of an agent
\* that runs or is about to.
OneWakePerFlush == (\A r \in Run : woken[r] <= 1) /\ ~clash

\* Both: the parent is told of a completion once, and woken for it once.
ToldOnce == DeliveredOnce /\ OneWakePerFlush

-----------------------------------------------------------------------------
(* The inductive invariant that ToldOnce rests on.                         *)

Typed == flush \in [at : {"off", "loop", "fallback"}, used : BOOLEAN, batch : SUBSET Run]

\* Nothing is known of a run that has not ended.
Past == \A r \in Run : live[r] # "ended" =>
          /\ entries[r] = 0 /\ woken[r] = 0 /\ ~InBuffer(r)
          /\ \A k \in DOMAIN inbox : r \notin inbox[k]

\* A queued message names what has no entry yet, is not to be sent again, and is
\* in no other message.
Queued == \A k \in DOMAIN inbox : \A r \in inbox[k] :
            /\ entries[r] = 0 /\ r \in awaiting \cup acked
            /\ \A h \in DOMAIN inbox : r \in inbox[h] => h = k

\* What is in the buffer is not acknowledged; while it is flushed, nothing of it has
\* an entry, and what a rejected wake carried has been appended or is still to be sent.
Unsaid == /\ \A r \in acked : ~InBuffer(r)
          /\ ~Quiet => \A r \in Observed : ~InBuffer(r)
          /\ flush.at = "fallback" => \/ flush.batch \subseteq Observed
                                      \/ flush.batch \subseteq ToSet(buffer) \ awaiting

\* The wake that was requested with a completion for its latest was requested for
\* all before it.
Asked == \A j \in DOMAIN buffer :
           woken[buffer[j]] > 0 => \A i \in 1 .. j : buffer[i] \in attempted

\* What a flush takes for an idle agent has no wake pending or none to come.
Calm == /\ phase \in {"running", "finished"} => ~agentIdle
        /\ phase = "waking" => wakePending
        /\ ~Quiet /\ agentIdle => phase \in {"idle", "waking"}

\* A microtask is due to a run that has ended, or to the start of the host.
Due == micro + Cardinality({r \in Run : live[r] # "ended"}) <= Cardinality(Run) + 1

IInv == Typed /\ Past /\ Queued /\ Unsaid /\ Asked /\ Calm /\ Due /\ ToldOnce

-----------------------------------------------------------------------------
\* A buffered completion gets its receipt or is shown as unconfirmed, even if
\* the SDK drops every message.
CompletionsSurface == \A r \in Run : []<>(~InBuffer(r) \/ shown)

-----------------------------------------------------------------------------
(* What the repository says and the code does not keep.                    *)

\* "A rejected trigger is never attempted again for the same completion": a
\* wake that is accepted carries no completion that one was asked for before.
WakesNewOnly == [][wakePending' /\ ~wakePending => (awaiting' \ awaiting) \cap attempted = {}]_vars

\* "only an idle parent with no receipt is really unconfirmed": the warning
\* appears while a completion is buffered.
WarningIsReal == [][shown' /\ ~shown => buffer # <<>>]_vars

\* "Background completion is passively displayed ... without an added model
\* call": no wake is ever requested.
StaysPassive == \A r \in Run : woken[r] = 0
=============================================================================
