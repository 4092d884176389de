----------------------------- MODULE HubCalls ------------------------------
(***************************************************************************)
(* The calls of the tool ultraterm_hub about a background run              *)
(* (src/extensions/ultraterm-subagents.ts): the parent waits for it, asks  *)
(* its status, cancels it, and resumes what it left unfinished.  A resume  *)
(* looks at the run, awaits its route and its account, and then reserves   *)
(* the run's one resume in the store and starts the successor.  Meanwhile  *)
(* other calls, the run itself, a full coordinator and the end of the      *)
(* session go their own way.  The files are those of CheckpointStore.      *)
(***************************************************************************)
EXTENDS Naturals, FiniteSets

CONSTANTS
  Call,      \* calls of the tool
  MaxFaults  \* bound: writes that fail

VARIABLES
  host,    \* the runtime: "open", "closing" (its workers are), "closed"
  full,    \* the coordinator has MAX_ACTIVE_RUNS other runs
  run,     \* the run: "running", "done" or "partial"
  resume,  \* its one resume: "free", "pending", "spent"
  next,    \* the successor: "none", "running", "ended", "lost", reserved but
           \* never started, or "second", one more than there may be
  blocked, \* a checkpoint write failed and is to be repeated
  call,    \* each call: [kind, at]
  claimed, \* the usage of the run was handed to the parent
  given,   \* ghost: how often
  seen,    \* the parent was shown the settled run
  faults

vars == << host, full, run, resume, next, blocked, call, claimed, given, seen,
           faults >>

Kinds == {"resume", "wait", "status", "cancel"}

TypeOK ==
  /\ host \in {"open", "closing", "closed"} /\ run \in {"running", "done", "partial"}
  /\ resume \in {"free", "pending", "spent"}
  /\ next \in {"none", "running", "ended", "lost", "second"}
  /\ full \in BOOLEAN /\ blocked \in BOOLEAN /\ claimed \in BOOLEAN
  /\ call \in [Call -> [kind : Kinds, at : {"new", "routing", "waiting", "over"}]]
  /\ given \in 0..Cardinality(Call) /\ seen \in BOOLEAN /\ faults \in 0..MaxFaults

Init ==
  /\ host = "open" /\ run = "running" /\ resume = "free" /\ next = "none"
  /\ full \in BOOLEAN /\ blocked = FALSE /\ claimed = FALSE
  /\ call \in [Call -> [kind : Kinds, at : {"new"}]]
  /\ given = 0 /\ seen = FALSE /\ faults = 0

To(c, place) == call' = [call EXCEPT ![c].at = place]
Asked(c, kind) == call[c].kind = kind /\ call[c].at = "new" /\ host = "open"

-----------------------------------------------------------------------------
(* The run has settled, and nobody has resumed or reserved it. *)
Fit == run # "running" /\ resume = "free"

(* What a failed checkpoint left undone is written again before new work is*)
(* admitted; the run must be fit, and have something unfinished.           *)
AskResume(c) ==
  /\ Asked(c, "resume")
  /\ \E repaired \in BOOLEAN :
       /\ blocked' = (blocked /\ ~repaired)
       /\ To(c, IF Fit /\ run = "partial" /\ ~blocked' THEN "routing" ELSE "over")
  /\ UNCHANGED << host, full, run, resume, next, claimed, given, seen, faults >>

\* The route, its level or its billing changed, or the account is not there.
RouteChanged(c) ==
  /\ call[c].at = "routing" /\ To(c, "over")
  /\ UNCHANGED << host, full, run, resume, next, blocked, claimed, given, seen,
                  faults >>

Failing == {"pending", "unsaved"}

(* Seeded bug: the reservation trusts the look before the route. *)
BugReserved ==
  IF host = "closed" THEN {"pending"}
  ELSE {"spent"} \cup IF faults < MaxFaults THEN Failing ELSE {}

(* prepareResume: refused when the run is not free any more, or stopped    *)
(* after writes that fail, which a closed store does at the second.        *)
Reserved ==
  IF resume # "free" THEN {"refused"}
  ELSE IF host = "closed" THEN {"pending"}
  ELSE {"spent"} \cup IF faults < MaxFaults THEN Failing ELSE {}

(* Both records are written, then the coordinator starts the successor,    *)
(* unless it was shut down or is full; a reservation that fails counts as  *)
(* a failed checkpoint.                                                    *)
Reserve(c) ==
  /\ call[c].at = "routing" /\ To(c, "over")
  /\ \E r \in Reserved :
       /\ resume' = CASE r = "refused" -> resume
                      [] r = "unsaved" -> "spent"
                      [] OTHER         -> r
       /\ blocked' = (blocked \/ r # "spent")
       /\ faults' = IF r \in Failing /\ host # "closed" THEN faults + 1 ELSE faults
       /\ next' = CASE r = "unsaved" -> "lost"
                    [] r = "spent" -> IF next # "none" THEN "second"
                                      ELSE IF host = "open" /\ ~full THEN "running"
                                      ELSE "lost"
                    [] OTHER -> next
  /\ UNCHANGED << host, full, run, claimed, given, seen >>

-----------------------------------------------------------------------------
Status(c) ==
  /\ Asked(c, "status") /\ To(c, "over")
  /\ seen' = (seen \/ run # "running")
  /\ UNCHANGED << host, full, run, resume, next, blocked, claimed, given, faults >>

Cancel(c) ==
  /\ Asked(c, "cancel") /\ To(c, "over")
  /\ run' = IF run = "running" THEN "partial" ELSE run
  /\ UNCHANGED << host, full, resume, next, blocked, claimed, given, seen, faults >>

Wait(c) ==
  /\ Asked(c, "wait") /\ To(c, "waiting")
  /\ UNCHANGED << host, full, run, resume, next, blocked, claimed, given, seen,
                  faults >>

(* Seeded bug: the usage counts as handed out when the wait began without. *)
BugFirst == TRUE

\* The usage is nobody's yet.
First == ~claimed

(* The run has settled: the parent of an open session sees it, and gets its*)
(* usage with it unless it had it before.                                  *)
WaitSettles(c) ==
  /\ call[c].at = "waiting" /\ run # "running" /\ To(c, "over")
  /\ IF host = "open"
     THEN /\ seen' = TRUE /\ claimed' = TRUE
          /\ given' = IF First THEN given + 1 ELSE given
     ELSE UNCHANGED << claimed, given, seen >>
  /\ UNCHANGED << host, full, run, resume, next, blocked, faults >>

\* A wait ends, the run does not.
WaitTimesOut(c) ==
  /\ call[c].at = "waiting" /\ To(c, "over")
  /\ UNCHANGED << host, full, run, resume, next, blocked, claimed, given, seen,
                  faults >>

-----------------------------------------------------------------------------
Settles ==
  /\ \/ run = "running" /\ run' \in {"done", "partial"} /\ UNCHANGED next
     \/ next = "running" /\ next' = "ended" /\ UNCHANGED run
  /\ UNCHANGED << host, full, resume, blocked, call, claimed, given, seen, faults >>

Others ==
  /\ full' = ~full
  /\ UNCHANGED << host, run, resume, next, blocked, call, claimed, given, seen,
                  faults >>

\* The session ends; the store closes when the workers have.
Closing ==
  /\ host = "open" /\ host' = "closing"
  /\ UNCHANGED << full, run, resume, next, blocked, call, claimed, given, seen,
                  faults >>

Closes ==
  /\ host = "closing" /\ host' = "closed"
  /\ run # "running" /\ next # "running"
  /\ UNCHANGED << full, run, resume, next, blocked, call, claimed, given, seen,
                  faults >>

Own == \E c \in Call : RouteChanged(c) \/ Reserve(c) \/ WaitSettles(c) \/ WaitTimesOut(c)

Next ==
  \/ Own \/ Settles \/ Others \/ Closing \/ Closes
  \/ \E c \in Call : AskResume(c) \/ Status(c) \/ Wait(c) \/ Cancel(c)

\* Routes are resolved and waits are bounded.
Fairness == WF_vars(Own)
Spec == Init /\ [][Next]_vars /\ Fairness

-----------------------------------------------------------------------------
(* A run has one successor at most, whoever asked for one at the same time;*)
(* it never works beside its predecessor, nor without the reservation that *)
(* keeps a second one away after a restart.                                *)
NeverTwoWorkers ==
  /\ next # "second"
  /\ next # "none" => run = "partial" /\ resume = "spent"

(* The parent's session counts a run's usage once, however many calls      *)
(* waited for it, and only of a run that has settled.                      *)
UsageOnce == given <= 1 /\ (given = 1 => run # "running" /\ seen)

HubSound == TypeOK /\ NeverTwoWorkers /\ UsageOnce

\* Who has a route asks for a run that ended unfinished, and usage is counted when
\* it is claimed.
Routed  == \A c \in Call : call[c].at = "routing" => run = "partial"
Counted == given = IF claimed THEN 1 ELSE 0

IInv == HubSound /\ Routed /\ Counted

\* No call of the tool hangs.
Ended == \A c \in Call : call[c].at \in {"new", "over"}
HubEnds == []<>Ended

(* A resume that was spent has a successor that was started: not so in     *)
(* this code, where the coordinator is asked after the reservation.        *)
SpentMeansStarted == resume = "spent" => next # "lost"

(* A checkpoint is written under the session's lease only: not so of a     *)
(* resume whose session ended while it was looking for its route.          *)
WrittenUnderLease == [][host = "closed" => resume' = resume]_vars
=============================================================================
