----------------------------- MODULE StatusProbe -----------------------------
(***************************************************************************)
(* The shared `claude auth status` of the Claude Code provider             *)
(* (claude-cli.ts getClaudeStatus, readClaudeStatus, readyClaudeCommand),  *)
(* for one login.  Callers share one probe; a settled answer is reused for *)
(* a while.  A probe is known by the caller that started it.               *)
(***************************************************************************)
EXTENDS Naturals, FiniteSets

CONSTANTS Callers,
          Deaf,     \* the callers without a signal
          MaxLapses \* bound: how often the caches lapse

VARIABLES
  truth,   \* external: the login is fine
  caller,  \* "idle", "waiting", "ready", "refused", "aborted"
  on,      \* per caller: the probe that it waits for
  shared,  \* statusInFlight: the probe, or "none"
  probe,   \* "none", "first", "pause", "second", "stopped", "in", "out", "unsure"
  waiters, \* entry.waiters
  cut,     \* entry.abort was called
  status,  \* statusCache holds an unexpired answer: "none", "in"
  ready,   \* readyStatusCache holds an unexpired command
  lapses

vars == <<truth, caller, on, shared, probe, waiters, cut, status, ready, lapses>>

Asking(p) == probe[p] \in {"first", "pause", "second"}

Init ==
  /\ truth \in BOOLEAN /\ caller = [c \in Callers |-> "idle"] /\ on = [c \in Callers |-> "none"]
  /\ shared = "none" /\ probe = on /\ waiters = [c \in Callers |-> 0]
  /\ cut = [c \in Callers |-> FALSE] /\ status = "none" /\ ready = FALSE /\ lapses = 0
-----------------------------------------------------------------------------
\* A caller of readyClaudeCommand: an answer at hand, the probe in flight, or one
\* of its own.
FromReady(c) ==
  /\ caller[c] = "idle" /\ ready /\ caller' = [caller EXCEPT ![c] = "ready"]
  /\ UNCHANGED <<truth, on, shared, probe, waiters, cut, status, ready, lapses>>

FromCache(c) ==
  /\ caller[c] = "idle" /\ ~ready /\ status = "in"
  /\ caller' = [caller EXCEPT ![c] = "ready"] /\ ready' = TRUE
  /\ UNCHANGED <<truth, on, shared, probe, waiters, cut, status, lapses>>

Join(c) ==
  /\ caller[c] = "idle" /\ ~ready /\ status = "none"
  /\ caller' = [caller EXCEPT ![c] = "waiting"]
  /\ shared' = IF shared = "none" THEN c ELSE shared
  /\ probe' = IF shared = "none" THEN [probe EXCEPT ![c] = "first"] ELSE probe
  /\ on' = [on EXCEPT ![c] = shared'] /\ waiters' = [waiters EXCEPT ![shared'] = @ + 1]
  /\ UNCHANGED <<truth, cut, status, ready, lapses>>

\* Seeded bug: a caller that leaves takes the probe with it.
BugLastOut(p) == TRUE

\* Nobody waits for the probe any more.
LastOut(p) == waiters'[p] = 0

\* leave: the caller's signal aborts.
Leave(c) ==
  /\ caller[c] = "waiting" /\ c \notin Deaf
  /\ caller' = [caller EXCEPT ![c] = "aborted"]
  /\ waiters' = [waiters EXCEPT ![on[c]] = @ - 1]
  /\ IF LastOut(on[c]) /\ shared = on[c]
     THEN shared' = "none" /\ cut' = [cut EXCEPT ![on[c]] = TRUE]
     ELSE UNCHANGED <<shared, cut>>
  /\ UNCHANGED <<truth, on, probe, status, ready, lapses>>

\* readClaudeStatus.  An attempt that is cut short ends the probe; one without an
\* answer is repeated once.
Stop(p) ==
  /\ probe[p] \in {"first", "second"} /\ cut[p]
  /\ probe' = [probe EXCEPT ![p] = "stopped"]
  /\ UNCHANGED <<truth, caller, on, shared, waiters, cut, status, ready, lapses>>

Unsure(p) ==
  /\ probe[p] \in {"first", "second"} /\ ~cut[p]
  /\ probe' = [probe EXCEPT ![p] = IF @ = "first" THEN "pause" ELSE "unsure"]
  /\ shared' = IF shared = p /\ ~Asking(p)' THEN "none" ELSE shared
  /\ UNCHANGED <<truth, caller, on, waiters, cut, status, ready, lapses>>

Retry(p) ==
  /\ probe[p] = "pause" /\ probe' = [probe EXCEPT ![p] = "second"]
  /\ UNCHANGED <<truth, caller, on, shared, waiters, cut, status, ready, lapses>>

\* Seeded bug: whatever the CLI says is kept.
BugKept(answer) == "in"

\* Only a logged-in answer is kept.
Kept(answer) == IF answer = "in" THEN "in" ELSE status

Answer(p) ==
  LET answer == IF truth THEN "in" ELSE "out" IN
  /\ probe[p] \in {"first", "second"} /\ ~cut[p]
  /\ probe' = [probe EXCEPT ![p] = answer]
  /\ status' = Kept(answer)
  /\ shared' = IF shared = p THEN "none" ELSE shared
  /\ UNCHANGED <<truth, caller, on, waiters, cut, ready, lapses>>

\* The promise settles for a caller.  Only an answer that says logged out clears
\* what was ready.
Settle(c) ==
  /\ caller[c] = "waiting" /\ probe[on[c]] \in {"stopped", "in", "out", "unsure"}
  /\ waiters' = [waiters EXCEPT ![on[c]] = @ - 1]
  /\ caller' = [caller EXCEPT ![c] = IF probe[on[c]] = "in" THEN "ready" ELSE "refused"]
  /\ ready' = (probe[on[c]] = "in" \/ (ready /\ probe[on[c]] = "stopped"))
  /\ UNCHANGED <<truth, on, shared, probe, cut, status, lapses>>

\* External: the user signs in or out.
Login ==
  /\ lapses < MaxLapses /\ lapses' = lapses + 1 /\ truth' = ~truth
  /\ UNCHANGED <<caller, on, shared, probe, waiters, cut, status, ready>>

\* Thirty and sixty seconds after the answer.
Lapse ==
  /\ lapses < MaxLapses /\ lapses' = lapses + 1
  /\ \/ status' = "none" /\ UNCHANGED ready
     \/ ready' = FALSE /\ UNCHANGED status
  /\ UNCHANGED <<truth, caller, on, shared, probe, waiters, cut>>

Next ==
  \/ \E c \in Callers : FromReady(c) \/ FromCache(c) \/ Join(c) \/ Leave(c) \/ Settle(c)
  \/ \E p \in Callers : Stop(p) \/ Unsure(p) \/ Retry(p) \/ Answer(p)
  \/ Login \/ Lapse

Spec == Init /\ [][Next]_vars

\* The probe's two attempts are bounded by twenty seconds each.
Own == \E c \in Callers : Settle(c) \/ Stop(c) \/ Unsure(c) \/ Answer(c) \/ Retry(c)

Fairness == WF_vars(Own)
-----------------------------------------------------------------------------
TypeOK == /\ on \in [Callers -> Callers \cup {"none"}] /\ shared \in Callers \cup {"none"}
          /\ waiters \in [Callers -> 0 .. Cardinality(Callers)]

\* One caller leaving never fails the others: a probe somebody waits for is not
\* stopped.
NobodyElseStops == \A c \in Callers : caller[c] = "waiting" => ~cut[on[c]]

\* A probe is left running only for somebody who waits, and there is one at a
\* time (one that was stopped may still be dying).
OneProbe ==
  /\ \A p \in Callers : Asking(p) /\ ~cut[p] => p = shared /\ waiters[p] > 0
  /\ \A p \in Callers : waiters[p] = Cardinality({c \in Callers : caller[c] = "waiting" /\ on[c] = p})

\* An answer at hand was once given: it is never the answer of a failed or
\* signed-out check.
CachedWasSaid == status = "in" \/ ready => \E p \in Callers : probe[p] = "in"

ProbeSound == TypeOK /\ NobodyElseStops /\ OneProbe /\ CachedWasSaid

-----------------------------------------------------------------------------
(* The inductive invariant that ProbeSound rests on.                       *)

Waiting(p) == {c \in Callers : caller[c] = "waiting" /\ on[c] = p}

\* What the variables hold besides.
Typed == /\ caller \in [Callers -> {"idle", "waiting", "ready", "refused", "aborted"}]
         /\ probe \in [Callers -> {"none", "first", "pause", "second", "stopped", "in", "out", "unsure"}]
         /\ cut \in [Callers -> BOOLEAN] /\ status \in {"none", "in"} /\ ready \in BOOLEAN

\* The probe that is shared runs and was not stopped; the probes and the waits of
\* those that have not called yet are still to come; who waits has a probe.
Linked == /\ shared # "none" => Asking(shared) /\ ~cut[shared]
          /\ \A c \in Callers : caller[c] = "idle" => probe[c] = "none"
          /\ \A c \in Callers : caller[c] = "waiting" => on[c] # "none" /\ probe[on[c]] # "none"

\* Nobody has stopped a probe that was not started.
Cuts == \A p \in Callers : cut[p] => probe[p] # "none"

IInv == Typed /\ Linked /\ Cuts /\ ProbeSound

\* Who waits is answered.
Ended == \A c \in Callers : caller[c] # "waiting"

ProbeEnds == []<>Ended
=============================================================================
