--------------------------- MODULE MCCoordinator ---------------------------
(***************************************************************************)
(* Model-checking instances of Coordinator.  Each behaviour is one of them *)
(* and part says which.                                                    *)
(*                                                                         *)
(*   width     three tasks in a width of two, one of them a reviewer, and  *)
(*             workers that report                                         *)
(*   waits     two tasks in a width of one, a wait for the next of them,   *)
(*             and fairness                                                *)
(*   attempts  one task, classed, and workers with every kind of result    *)
(*                                                                         *)
(* The tasks that waits and attempts leave out are done from the start.    *)
(***************************************************************************)
EXTENDS Coordinator, TLC

VARIABLE part

MCReport == {[state |-> "done", kind |-> "report"]}
MCPlain == {[state |-> "done", kind |-> "report"], [state |-> "failed", kind |-> "other"]}
MCAll == {[state |-> "done", kind |-> "report"], [state |-> "done", kind |-> "empty"],
          [state |-> "failed", kind |-> "empty"], [state |-> "failed", kind |-> "quota"],
          [state |-> "failed", kind |-> "overloaded"], [state |-> "failed", kind |-> "transient"],
          [state |-> "failed", kind |-> "other"], [state |-> "aborted", kind |-> "other"]}
MCMode(w) == w

Width == INSTANCE Coordinator WITH MaxTurns <- 1, Alternates <- 0, Classed <- FALSE, Result <- MCReport
Waits == INSTANCE Coordinator WITH MaxTurns <- 1, Alternates <- 0, Classed <- FALSE, Result <- MCPlain,
                                   Concurrency <- 1

\* The state in which the tasks of over have reported, in one turn each, the next
\* of them has just been dispatched, and the others are still to be.
Reported(over, next) ==
  /\ pc = [t \in Task |-> IF t \in over THEN "gone" ELSE IF t = next THEN "queued" ELSE "undispatched"]
  /\ state = [t \in Task |-> IF t \in over THEN "done" ELSE "queued"]
  /\ stop = [t \in Task |-> "none"]
  /\ turns = [t \in Task |-> IF t \in over THEN 1 ELSE 0]
  /\ prior = [t \in Task |-> 0]
  /\ attempts = [t \in Task |-> IF t \in over THEN 1 ELSE 0]
  /\ retried = {} /\ alternate = [t \in Task |-> 0]
  /\ leases = {} /\ slots = {}
  /\ run = [state |-> "running", accepting |-> TRUE, completions |-> Cardinality(over),
            turns |-> Cardinality(over), inFlight |-> 1]
  /\ passed = {}
  /\ armed = [run |-> TRUE, launch |-> Reviewer \ over]
  /\ waiter = [w \in Waiter |-> [status |-> "idle", baseline |-> 0]]
  /\ history = [halted |-> [t \in Task |-> Never], cancelled |-> {}]

MCInit == \/ part = "width" /\ Init
          \/ part = "waits" /\ Reported({1}, 2)
          \/ part = "attempts" /\ Reported({2, 3}, 1)

MCNext == /\ UNCHANGED part
          /\ \/ part = "width" /\ Width!Next /\ UNCHANGED waiter
             \/ part = "waits" /\ Waits!Next
             \/ part = "attempts" /\ Next /\ UNCHANGED waiter

\* The fairness of Coordinator, for that part.
Fair == /\ \A t \in Task :
             /\ WF_vars(part = "waits" /\ Waits!Execute(t))
             /\ WF_vars(part = "waits" /\ stop[t] # "none" /\ (Waits!SessionGrant(t) \/ Waits!Worker(t)))
        /\ \A x \in {"review", "late", "over"} : WF_vars(part = "waits" /\ Waits!Clock(x))
        /\ WF_vars(part = "waits" /\ Waits!Expire)

MCSpec == MCInit /\ [][MCNext]_<<part, vars>> /\ Fair

\* Every run settles (see RunSettles); as fairness is for one part, so is this.
EveryRunSettles == part = "waits" => RunSettles
=============================================================================
