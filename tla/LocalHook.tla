------------------------------ MODULE LocalHook ------------------------------
(***************************************************************************)
(* How one Pi process keeps its local model server up: the extension hook  *)
(* of extensions/local/index.ts.  Every step that touches the process's    *)
(* lease goes through one queue; the events that append to it come from    *)
(* the host whenever it pleases, so a step runs in a world that may have   *)
(* moved on since it was queued.  ensure and release are those of          *)
(* LocalRuntime, which counts the leases of a process in a file.  A        *)
(* release may fail, on a busy lock or a file that cannot be written; the  *)
(* hook takes no notice of it.                                             *)
(***************************************************************************)
EXTENDS Integers, Sequences, FiniteSets

CONSTANTS
  Model,      \* the local models
  MaxEvents   \* bound: host events of one behaviour

VARIABLES
  model,      \* the model the session has selected
  held,       \* the model this process holds a lease on for a run
  warmed,     \* the selected model already warmed
  compacting, \* the lease was taken for a compaction alone
  queue,      \* the queued steps: [kind, model]
  step,       \* what the step at the head is doing: "idle", "ensuring"
  refs,       \* the leases of the process that the runtime's file counts
  left,       \* ghost: those of them that a failed release has left there
  cleared,    \* ghost: the lease of held, or of the ensure, was cleared by a stop
  run,        \* [at, model]: "none", "starting", "on", "off" (aborted)
  refusal,    \* the refusal a starting run met: the model it was made for
  compact,    \* a compaction of the host: "none", "asked", "on"
  switched,   \* ghost: a model was selected after the run began
  events      \* host events so far

vars == << model, held, warmed, compacting, queue, step, refs, left,
           cleared, run, refusal, compact, switched, events >>

\* The session's model is served elsewhere, or nothing is held.
None == "none"
Wanted == Model \cup {None}
leases == << refs, left, cleared >>
Kinds == {"select", "start", "settle", "compact", "compacted"}

TypeOK ==
  /\ {model, held, warmed, refusal} \subseteq Wanted
  /\ {compacting, switched, cleared} \subseteq BOOLEAN
  /\ refs \in Nat /\ left \in Nat
  /\ queue \in Seq([kind : Kinds, model : Wanted])
  /\ step \in {"idle", "ensuring"}
  /\ run \in [at : {"none", "starting", "on", "off"}, model : Wanted]
  /\ compact \in {"none", "asked", "on"}
  /\ events \in 0..MaxEvents

Init ==
  /\ model = None /\ held = None /\ warmed = None
  /\ refs = 0 /\ left = 0 /\ cleared = FALSE
  /\ compacting = FALSE /\ switched = FALSE
  /\ queue = <<>> /\ step = "idle"
  /\ run = [at |-> "none", model |-> None]
  /\ refusal = None /\ compact = "none" /\ events = 0

Event == events < MaxEvents /\ events' = events + 1
Queued(k, m) == queue' = Append(queue, [kind |-> k, model |-> m])

-----------------------------------------------------------------------------
(* Events of the host. *)

(* A model is selected: at the session's start, or by the operator, during *)
(* a run too.                                                              *)
Select(m) ==
  /\ Event
  /\ model' = m
  /\ switched' = (switched \/ run.at # "none")
  /\ IF m = warmed
     THEN UNCHANGED << warmed, queue >>
     ELSE warmed' = m /\ Queued("select", m)
  /\ UNCHANGED << held, compacting, step, leases, run, refusal, compact >>

RunStarts ==
  /\ Event /\ run.at = "none" /\ compact = "none"
  /\ run' = [at |-> "starting", model |-> model]
  /\ refusal' = None /\ switched' = FALSE
  /\ Queued("start", model)
  /\ UNCHANGED << model, held, warmed, compacting, step, leases, compact >>

(* The aborted reply is finalized as an error that names the refusal. *)
MessageEnds ==
  /\ run.at = "off" /\ refusal # None
  /\ refusal' = None
  /\ UNCHANGED << model, held, warmed, compacting, queue, step, leases, run,
                  compact, switched, events >>

RunSettles ==
  /\ run.at \in {"on", "off"}
  /\ run' = [at |-> "none", model |-> None]
  /\ compacting' = FALSE /\ refusal' = None
  /\ Queued("settle", None)
  /\ UNCHANGED << model, held, warmed, step, leases, compact, switched,
                  events >>

(* A compaction between two runs, and its end. *)
CompactionAsked ==
  /\ Event /\ run.at = "none" /\ compact = "none"
  /\ compact' = "asked"
  /\ Queued("compact", model)
  /\ UNCHANGED << model, held, warmed, compacting, step, leases, run, refusal,
                  switched >>

Compacted ==
  /\ compact = "on"
  /\ compact' = "none"
  /\ IF compacting
     THEN compacting' = FALSE /\ Queued("compacted", None)
     ELSE UNCHANGED << compacting, queue >>
  /\ UNCHANGED << model, held, warmed, step, leases, run, refusal, switched,
                  events >>

(* The operator stops the server, in another process: every lease is       *)
(* cleared, the one that an ensure under way may have taken by now too.    *)
OperatorStops ==
  /\ Event
  /\ refs' = 0 /\ left' = 0
  /\ IF step = "ensuring" THEN cleared' \in {cleared, TRUE}
                          ELSE cleared' = (held # None)
  /\ UNCHANGED << model, held, warmed, compacting, queue, step, run, refusal,
                  compact, switched >>

-----------------------------------------------------------------------------
(* The step at the head of the queue. *)

Head1 == Head(queue)

\* What the host learns when a step it awaits is through.
Resolved(refused) ==
  IF Head1.kind = "start"
  THEN /\ run' = [run EXCEPT !.at =
                    IF refused /\ model = Head1.model THEN "off" ELSE "on"]
       /\ refusal' = IF refused /\ model = Head1.model THEN Head1.model
                     ELSE None
       /\ UNCHANGED compact
  ELSE /\ compact' = IF Head1.kind # "compact" THEN compact
                     ELSE IF refused THEN "none" ELSE "on"
       /\ UNCHANGED << run, refusal >>

\* A lease on another model is let go before anything else is asked for.
Stale == /\ Head1.kind \in {"select", "start"}
         /\ held # None /\ held # Head1.model
Drops == Stale \/ Head1.kind \in {"settle", "compacted"}
BugKept == IF Head1.kind \in {"settle", "compacted"} THEN None ELSE held

Kept == IF Drops THEN None ELSE held

\* Whether the step asks the runtime for the model.
Asks == /\ Head1.model # None
        /\ \/ Head1.kind \in {"select", "start"} /\ Kept # Head1.model
           \/ Head1.kind = "compact" /\ held = None

\* release: the count goes down, or the release fails and it stays.
LetsGo ==
  /\ cleared' = FALSE
  /\ \/ refs' = (IF refs = 0 THEN 0 ELSE refs - 1) /\ UNCHANGED left
     \/ left' = (IF refs = 0 THEN 0 ELSE left + 1) /\ UNCHANGED refs

StepBegins ==
  /\ queue # <<>> /\ step = "idle"
  /\ held' = Kept
  /\ IF held # Kept THEN LetsGo ELSE UNCHANGED leases
  /\ IF Asks
     THEN /\ step' = "ensuring"
          /\ UNCHANGED << queue, run, refusal, compact >>
     ELSE /\ queue' = Tail(queue)
          /\ Resolved(FALSE)
          /\ UNCHANGED step
  /\ UNCHANGED << model, warmed, compacting, switched, events >>

BugHolds == TRUE

\* A selection only warms the server; a run and a compaction hold it.
Holds == Head1.kind \in {"start", "compact"}

\* What ensure has taken, unless a stop has cleared it since.
Taken == IF cleared THEN 0 ELSE 1

\* It is let go of with no other step in between; this release may fail too.
TakenAndLeft ==
  /\ cleared' = FALSE
  /\ \E lost \in {0, Taken} : refs' = refs + lost /\ left' = left + lost

Ensured ==
  /\ step = "ensuring"
  /\ step' = "idle" /\ queue' = Tail(queue)
  /\ held' = IF Holds THEN Head1.model ELSE held
  /\ IF Holds THEN refs' = refs + Taken /\ UNCHANGED << left, cleared >>
              ELSE TakenAndLeft
  /\ warmed' = IF Head1.kind = "start" THEN Head1.model ELSE warmed
  /\ compacting' = (compacting \/ Head1.kind = "compact")
  /\ Resolved(FALSE)
  /\ UNCHANGED << model, switched, events >>

\* A lease that it had taken is let go of.
EnsureRefused ==
  /\ step = "ensuring"
  /\ step' = "idle" /\ queue' = Tail(queue)
  /\ warmed' = IF Head1.kind = "select" /\ warmed = Head1.model THEN None
               ELSE warmed
  /\ TakenAndLeft
  /\ Resolved(TRUE)
  /\ UNCHANGED << model, held, compacting, switched, events >>

Next ==
  \/ \E m \in Wanted : Select(m)
  \/ RunStarts \/ MessageEnds \/ RunSettles \/ CompactionAsked \/ Compacted
  \/ OperatorStops \/ StepBegins \/ Ensured \/ EnsureRefused

\* The queue moves by itself; runs and compactions end.
Own == MessageEnds \/ RunSettles \/ Compacted \/ StepBegins \/ Ensured
       \/ EnsureRefused
Fairness == WF_vars(Own)
Spec == Init /\ [][Next]_vars /\ Fairness

-----------------------------------------------------------------------------
(* A run past its start whose model is local, and was not switched away    *)
(* from, has its lease, beside those that failed releases have left: the   *)
(* server is not stopped under it, unless the operator does.               *)
RunIsServed ==
  run.at = "on" /\ run.model # None /\ ~switched
    => held = run.model /\ (cleared \/ refs > left)

(* A process that is not using a local model pins none: with no run, no    *)
(* compaction and nothing queued, no lease is left but by releases that    *)
(* have failed.                                                            *)
IdleHoldsNothing ==
  run.at = "none" /\ compact = "none" /\ queue = <<>>
    => held = None /\ refs = left /\ ~compacting

(* What the hook believes it holds and what releases have left by failing  *)
(* is what the runtime has on record: no other lease is lost or forgotten. *)
BeliefIsTrue ==
  /\ held = None \/ cleared => refs = left
  /\ held # None /\ ~cleared => refs = left + 1

HookSound == TypeOK /\ RunIsServed /\ IdleHoldsNothing /\ BeliefIsTrue

\* The queue has a step that takes the lease for each start and each compaction that
\* is waited for, and no other; the start of a run is the last until a model is
\* selected.
Takes == {"start", "compact"}
Ordered ==
  /\ \A i \in DOMAIN queue : /\ queue[i].kind = "start" => run.at = "starting"
                             /\ queue[i].kind = "compact" => compact = "asked"
  /\ \A i, j \in DOMAIN queue :
       queue[i].kind \in Takes /\ queue[i].kind = queue[j].kind => i = j
  /\ run.at = "starting" /\ ~switched =>
       /\ model = run.model /\ queue # <<>>
       /\ queue[Len(queue)] = [kind |-> "start", model |-> run.model]
  /\ run.at \in {"on", "off"} /\ ~switched => queue = <<>>

\* A step is under way for a model while nothing is held; runs and compactions
\* exclude each other.
Settled == /\ BeliefIsTrue
           /\ cleared => refs = 0 /\ left = 0
           /\ step = "ensuring" => queue # <<>> /\ queue[1].model # None /\ held = None
           /\ run.at # "none" => compact = "none"
           /\ compacting => compact = "on"

\* What is held is in use, or a step that lets it go comes before any that takes it.
LetGo == held # None =>
  \/ run.at \in {"on", "off"}
  \/ compacting
  \/ \E i \in DOMAIN queue : /\ queue[i].kind \in {"settle", "compacted"}
                             /\ \A j \in 1 .. i : queue[j].kind \notin Takes

IInv == TypeOK /\ Ordered /\ Settled /\ LetGo /\ RunIsServed

Ended == queue = <<>> /\ run.at = "none" /\ compact = "none" /\ refs = left
HookEnds == []<>Ended

-----------------------------------------------------------------------------
(* What the repository says and the code does not keep.                    *)

(* A run has the lease it was started with until it settles: not so when   *)
(* another model is selected meanwhile.                                    *)
RunKeepsLease == run.at = "on" /\ run.model # None => held = run.model

(* "Between prompts a session holds nothing": not so after a release that  *)
(* failed, whose lease stays on record as long as the process lives.       *)
PaneLetsGo ==
  run.at = "none" /\ compact = "none" /\ queue = <<>> => refs = 0
=============================================================================
