--------------------------- MODULE ClaudeProcesses ---------------------------
(***************************************************************************)
(* The warm processes of the Claude Code provider                          *)
(* (extensions/claude-code/claude-cli.ts): a cache with one process per    *)
(* session, changed only under the manager lock, which is a chain of       *)
(* promises and therefore first come, first served.                        *)
(*                                                                         *)
(* A process is known by the request that created it, and a conversation   *)
(* by the request that ended it: base[r] is what precedes the last frame   *)
(* of r, 0 when nothing does.  What a request runs is module ClaudeTurn.   *)
(***************************************************************************)
EXTENDS Naturals, FiniteSets, SequencesExt

CONSTANTS Session,     \* the session of each request; 0 without a stable id
          MaxCached,   \* MAX_CACHED_CLAUDE_PROCESSES
          MaxTroubles  \* bound: interruptions (deaths, ageing, aborts, limits, closings)

Requests == DOMAIN Session
Sessions == {Session[r] : r \in Requests} \ {0}

VARIABLES
  req,     \* "idle", "waiting", "replacing", "evicting", "creating", "dropping",
           \* "running", "releasing", "done", "failed", "aborted"
  stop,    \* per request: "no", "abort" (its signal), "deadline" (acquisition only)
  base,    \* per request: the conversation that it continues
  user,    \* per request: its worker, 0 before it has one
  kept,    \* per request: retain, then retained
  proc,    \* per worker: "none", "open", "dead", "killed" (closeNow), "closing" (close), "gone"
  busy, tip, armed,  \* per worker: busy, tipHash (0: none), the expiry timer
  held,    \* per worker: the conversation that the child really holds; 0: none that Pi knows
  old,     \* per worker: its lifetime is over
  drop,    \* per worker, discardProcess: "no", "queued", "closing", "stranded"
  cache,   \* processCache: per session a worker, or 0
  queue,   \* the lock chain: jobs <<kind, request, worker or session>>, the head holds the lock
  troubles \* interruptions so far

workers == <<proc, busy, tip, armed, held, old>>
vars == <<req, stop, base, user, kept, proc, busy, tip, armed, held, old, drop, cache, queue,
          troubles>>

Settled(r) == req[r] \in {"done", "failed", "aborted"}
Cached     == {s \in Sessions : cache[s] # 0}
Holds(job) == queue # <<>> /\ queue[1] = job
CacheOf(r) == IF Session[r] = 0 THEN 0 ELSE cache[Session[r]]
Trouble    == troubles < MaxTroubles /\ troubles' = troubles + 1
InCache(w) == \E s \in Sessions : cache[s] = w

Init ==
  /\ req = [r \in Requests |-> "idle"] /\ stop = [r \in Requests |-> "no"]
  /\ base = [r \in Requests |-> 0] /\ user = base /\ kept = [r \in Requests |-> FALSE]
  /\ proc = [w \in Requests |-> "none"] /\ busy = kept /\ tip = base /\ armed = kept
  /\ held = base /\ old = kept /\ drop = stop
  /\ cache = [s \in Sessions |-> 0] /\ queue = <<>> /\ troubles = 0
-----------------------------------------------------------------------------
(* Workers.                                                                *)

\* closeNow: the timer is cleared and the process tree killed.  close: closeNow,
\* then a wait of at most two seconds, and its directory is removed.
Kill(w)  == /\ proc' = [proc EXCEPT ![w] = IF @ \in {"open", "dead"} THEN "killed" ELSE @]
            /\ armed' = [armed EXCEPT ![w] = FALSE]
Close(w) == /\ proc' = [proc EXCEPT ![w] = IF @ \in {"open", "dead", "killed"} THEN "closing" ELSE @]
            /\ armed' = [armed EXCEPT ![w] = FALSE]

Torn(w) ==
  /\ proc[w] = "closing" /\ proc' = [proc EXCEPT ![w] = "gone"]
  /\ UNCHANGED <<req, stop, base, user, kept, busy, tip, armed, held, old, drop, cache, queue, troubles>>

\* External: the child exits, idle or not.
Dies(w) ==
  /\ Trouble
  /\ proc[w] = "open" /\ proc' = [proc EXCEPT ![w] = "dead"]
  /\ UNCHANGED <<req, stop, base, user, kept, busy, tip, armed, held, old, drop, cache, queue>>

\* Time passes: isExpired.
Ages(w) ==
  /\ Trouble
  /\ proc[w] = "open" /\ ~old[w] /\ old' = [old EXCEPT ![w] = TRUE]
  /\ UNCHANGED <<req, stop, base, user, kept, proc, busy, tip, armed, held, drop, cache, queue>>

\* Seeded bug: the turn's outcome does not matter for the tip.
BugCommitted(r, tools) == r

\* commit: a turn with tool calls leaves the child with hidden history.
Committed(r, tools) == IF tools THEN 0 ELSE r
-----------------------------------------------------------------------------
(* A request: acquireProcess.                                              *)

\* runClaudeRequest: it continues nothing or what some request ended with.  (The
\* requests are called in the order of their numbers.)
Call(r) ==
  /\ req[r] = "idle" /\ \A q \in 1 .. r - 1 : req[q] # "idle"
  /\ req' = [req EXCEPT ![r] = "waiting"]
  /\ \E b \in {0} \cup {q \in Requests : req[q] = "done"} : base' = [base EXCEPT ![r] = b]
  /\ queue' = Append(queue, <<"acquire", r>>)
  /\ UNCHANGED <<stop, user, kept, workers, drop, cache, troubles>>

\* The signal aborts.  In a turn the listener kills the process at once.
Abort(r) ==
  /\ Trouble
  /\ req[r] # "idle" /\ ~Settled(r) /\ stop[r] # "abort"
  /\ stop' = [stop EXCEPT ![r] = "abort"]
  /\ IF req[r] = "running" THEN Kill(user[r]) ELSE UNCHANGED <<proc, armed>>
  /\ UNCHANGED <<req, base, user, kept, busy, tip, held, old, drop, cache, queue>>

\* The acquisition deadline, disarmed once there is a worker.
Deadline(r) ==
  /\ Trouble
  /\ req[r] \in {"waiting", "replacing", "evicting", "creating"} /\ stop[r] = "no"
  /\ stop' = [stop EXCEPT ![r] = "deadline"]
  /\ UNCHANGED <<req, base, user, kept, workers, drop, cache, queue>>

Refusal(r) == IF stop[r] = "abort" THEN "aborted" ELSE "failed"

\* It stops waiting for the lock; whoever follows waits for whom it waited for.
Leave(r) ==
  /\ req[r] = "waiting" /\ stop[r] # "no"
  /\ req' = [req EXCEPT ![r] = Refusal(r)]
  /\ \E i \in DOMAIN queue : queue[i] = <<"acquire", r>> /\ queue' = RemoveAt(queue, i)
  /\ UNCHANGED <<stop, base, user, kept, workers, drop, cache, troubles>>

\* The warm process continues exactly its own conversation, with the same plan
\* (the fingerprint is a free choice here).
Reuse(r) ==
  LET w == CacheOf(r) IN
  /\ req[r] = "waiting" /\ Holds(<<"acquire", r>>)
  /\ w # 0 /\ ~busy[w] /\ proc[w] = "open" /\ ~old[w] /\ tip[w] # 0 /\ tip[w] = base[r]
  /\ armed' = [armed EXCEPT ![w] = FALSE] /\ busy' = [busy EXCEPT ![w] = TRUE]
  /\ held' = [held EXCEPT ![w] = IF @ = base[r] THEN 0 ELSE r]
  /\ user' = [user EXCEPT ![r] = w] /\ kept' = [kept EXCEPT ![r] = TRUE]
  /\ req' = [req EXCEPT ![r] = "running"] /\ queue' = Tail(queue)
  /\ UNCHANGED <<stop, base, proc, tip, old, drop, cache, troubles>>

\* An idle process that does not fit is closed first.
Replace(r) ==
  LET w == CacheOf(r) IN
  /\ req[r] = "waiting" /\ Holds(<<"acquire", r>>)
  /\ w # 0 /\ ~busy[w]
  /\ cache' = [cache EXCEPT ![Session[r]] = 0] /\ Close(w)
  /\ user' = [user EXCEPT ![r] = w] /\ kept' = [kept EXCEPT ![r] = TRUE]
  /\ req' = [req EXCEPT ![r] = "replacing"]
  /\ UNCHANGED <<stop, base, busy, tip, held, old, drop, queue, troubles>>

\* A busy one belongs to another request: this one gets a process of its own.
Miss(r) ==
  /\ req[r] = "waiting" /\ Holds(<<"acquire", r>>)
  /\ CacheOf(r) # 0 => busy[CacheOf(r)]
  /\ kept' = [kept EXCEPT ![r] = Session[r] # 0 /\ CacheOf(r) = 0]
  /\ req' = [req EXCEPT ![r] = "evicting"]
  /\ UNCHANGED <<stop, base, user, workers, drop, cache, queue, troubles>>

Replaced(r) ==
  /\ req[r] = "replacing" /\ proc[user[r]] = "gone"
  /\ user' = [user EXCEPT ![r] = 0] /\ req' = [req EXCEPT ![r] = "evicting"]
  /\ UNCHANGED <<stop, base, kept, workers, drop, cache, queue, troubles>>

Victims == {s \in Cached : ~busy[cache[s]]}

\* Room is made by closing an idle process (the least recently used one; with
\* the instances checked there is one).
Evict(r) ==
  /\ req[r] = "evicting" /\ kept[r] /\ Cardinality(Cached) >= MaxCached
  /\ \E s \in Victims :
       /\ cache' = [cache EXCEPT ![s] = 0] /\ Close(cache[s])
       /\ user' = [user EXCEPT ![r] = cache[s]]
  /\ req' = [req EXCEPT ![r] = "replacing"]
  /\ UNCHANGED <<stop, base, kept, busy, tip, held, old, drop, queue, troubles>>

Create(r) ==
  /\ req[r] = "evicting" /\ (kept[r] /\ Cardinality(Cached) >= MaxCached => Victims = {})
  /\ req' = [req EXCEPT ![r] = "creating"]
  /\ UNCHANGED <<stop, base, user, kept, workers, drop, cache, queue, troubles>>

\* ClaudeProcess.create: a failure leaves neither a child nor a directory.
CreateFails(r) ==
  /\ req[r] = "creating"
  /\ req' = [req EXCEPT ![r] = Refusal(r)] /\ queue' = Tail(queue)
  /\ UNCHANGED <<stop, base, user, kept, workers, drop, cache, troubles>>

\* Cached only if there is room by now.
Created(r) ==
  /\ req[r] = "creating" /\ user' = [user EXCEPT ![r] = r]
  /\ IF stop[r] # "no"
     THEN /\ proc' = [proc EXCEPT ![r] = "closing"] /\ req' = [req EXCEPT ![r] = "dropping"]
          /\ UNCHANGED <<kept, busy, cache, queue>>
     ELSE /\ proc' = [proc EXCEPT ![r] = "open"] /\ busy' = [busy EXCEPT ![r] = TRUE]
          /\ kept' = [kept EXCEPT ![r] = @ /\ Cardinality(Cached) < MaxCached]
          /\ cache' = IF kept'[r] THEN [cache EXCEPT ![Session[r]] = r] ELSE cache
          /\ req' = [req EXCEPT ![r] = "running"] /\ queue' = Tail(queue)
  /\ UNCHANGED <<stop, base, tip, armed, held, old, drop, troubles>>

Dropped(r) ==
  /\ req[r] = "dropping" /\ proc[r] = "gone"
  /\ req' = [req EXCEPT ![r] = Refusal(r)] /\ queue' = Tail(queue)
  /\ UNCHANGED <<stop, base, user, kept, workers, drop, cache, troubles>>
-----------------------------------------------------------------------------
(* The end of the turn and discardProcess.                                 *)

\* The lock is taken only for a worker that is in the cache.
Discard(w) ==
  IF InCache(w)
  THEN /\ drop' = [drop EXCEPT ![w] = "queued"] /\ queue' = Append(queue, <<"discard", w>>)
       /\ UNCHANGED <<proc, armed>>
  ELSE drop' = [drop EXCEPT ![w] = "closing"] /\ Close(w) /\ UNCHANGED queue

\* An answer.  A stable worker that is still cached goes idle.
Answered(r, tools) ==
  LET w == user[r] IN
  /\ req[r] = "running"
  /\ tip' = [tip EXCEPT ![w] = Committed(r, tools)]
  /\ held' = [held EXCEPT ![w] = IF tools THEN 0 ELSE r]
  /\ IF tip'[w] # 0 /\ kept[r] /\ CacheOf(r) = w
     THEN /\ busy' = [busy EXCEPT ![w] = FALSE] /\ armed' = [armed EXCEPT ![w] = TRUE]
          /\ req' = [req EXCEPT ![r] = "done"] /\ UNCHANGED <<proc, drop, queue>>
     ELSE /\ Discard(w) /\ req' = [req EXCEPT ![r] = "releasing"] /\ UNCHANGED busy
  /\ UNCHANGED <<stop, base, user, kept, old, cache, troubles>>

\* A failed turn.  An aborted one settles at once and is torn down behind it.
Fails(r) ==
  /\ req[r] = "running" /\ Discard(user[r])
  /\ req' = [req EXCEPT ![r] = IF stop[r] = "abort" THEN "aborted" ELSE "releasing"]
  /\ held' = [held EXCEPT ![user[r]] = 0]
  /\ UNCHANGED <<stop, base, user, kept, busy, tip, old, cache, troubles>>

\* The answer, or the failure, after the wait for the teardown.
Released(r) ==
  /\ req[r] = "releasing"
  /\ proc[user[r]] = "gone" \/ drop[user[r]] = "stranded"
  /\ \E out \in {"done", "failed"} :
       /\ drop[user[r]] = "stranded" => out = "failed"
       /\ req' = [req EXCEPT ![r] = out]
  /\ UNCHANGED <<stop, base, user, kept, workers, drop, cache, queue, troubles>>

DiscardLocked(w) ==
  /\ Holds(<<"discard", w>>)
  /\ cache' = [s \in Sessions |-> IF cache[s] = w THEN 0 ELSE cache[s]]
  /\ Close(w) /\ drop' = [drop EXCEPT ![w] = "closing"] /\ queue' = Tail(queue)
  /\ UNCHANGED <<req, stop, base, user, kept, busy, tip, held, old, troubles>>

\* The wait for the lock has a limit of its own, after which nothing is closed.
Stranded(w) ==
  /\ Trouble
  /\ drop[w] = "queued" /\ ~Holds(<<"discard", w>>)
  /\ drop' = [drop EXCEPT ![w] = "stranded"]
  /\ \E i \in DOMAIN queue : queue[i] = <<"discard", w>> /\ queue' = RemoveAt(queue, i)
  /\ UNCHANGED <<req, stop, base, user, kept, workers, cache>>
-----------------------------------------------------------------------------
(* Expiry and shutdown.                                                    *)

TimerFires(w) ==
  /\ armed[w] /\ old[w] /\ armed' = [armed EXCEPT ![w] = FALSE]
  /\ queue' = Append(queue, <<"expire", w>>)
  /\ UNCHANGED <<req, stop, base, user, kept, proc, busy, tip, held, old, drop, cache, troubles>>

\* expireProcess looks again once it has the lock.
Expirable(w) == InCache(w) /\ ~busy[w] /\ old[w]

Expire(w) ==
  /\ Holds(<<"expire", w>>) /\ queue' = Tail(queue)
  /\ IF Expirable(w)
     THEN cache' = [cache EXCEPT ![Session[w]] = 0] /\ Close(w)
     ELSE UNCHANGED <<cache, proc, armed>>
  /\ UNCHANGED <<req, stop, base, user, kept, busy, tip, held, old, drop, troubles>>

\* closeClaudeProcesses for a session, or for all (0).
CloseCall(s) ==
  /\ Trouble
  /\ queue' = Append(queue, <<"close", s>>)
  /\ UNCHANGED <<req, stop, base, user, kept, workers, drop, cache>>

\* It closes what is warm, in use or not.
CloseLocked(s) ==
  LET gone == {w \in Requests : InCache(w) /\ s \in {0, Session[w]}} IN
  /\ Holds(<<"close", s>>) /\ queue' = Tail(queue)
  /\ cache' = [t \in Sessions |-> IF s \in {0, t} THEN 0 ELSE cache[t]]
  /\ proc' = [w \in Requests |-> IF w \in gone THEN "closing" ELSE proc[w]]
  /\ armed' = [w \in Requests |-> armed[w] /\ w \notin gone]
  /\ UNCHANGED <<req, stop, base, user, kept, busy, tip, held, old, drop, troubles>>
-----------------------------------------------------------------------------
Acquire(r) == \/ Reuse(r) \/ Replace(r) \/ Miss(r) \/ Replaced(r) \/ Evict(r) \/ Create(r)
              \/ CreateFails(r) \/ Created(r) \/ Dropped(r)
Ends(r)    == Fails(r) \/ \E tools \in BOOLEAN : Answered(r, tools)

Next ==
  \/ \E r \in Requests :
       \/ Call(r) \/ Abort(r) \/ Deadline(r) \/ Leave(r) \/ Acquire(r) \/ Ends(r) \/ Released(r)
       \/ Torn(r) \/ Dies(r) \/ Ages(r) \/ DiscardLocked(r) \/ Stranded(r) \/ TimerFires(r)
       \/ Expire(r)
  \/ \E s \in {0} \cup Sessions : CloseCall(s) \/ CloseLocked(s)

Spec == Init /\ [][Next]_vars

\* Every wait of the provider is bounded: acquisition, turn, teardown.
Own == \/ \E r \in Requests : \/ Leave(r) \/ Acquire(r) \/ Ends(r) \/ Released(r) \/ Torn(r)
                             \/ DiscardLocked(r) \/ TimerFires(r) \/ Expire(r)
       \/ \E s \in {0} \cup Sessions : CloseLocked(s)

Fairness == WF_vars(Own)
-----------------------------------------------------------------------------
(* Properties.                                                             *)

TypeOK ==
  /\ user \in [Requests -> {0} \cup Requests] /\ cache \in [Sessions -> {0} \cup Requests]
  /\ proc \in [Requests -> {"none", "open", "dead", "killed", "closing", "gone"}]

\* A process serves one request at a time, and while it does it counts as busy.
OneUser ==
  \A r \in Requests : req[r] = "running" =>
    /\ busy[user[r]]
    /\ \A q \in Requests \ {r} : req[q] = "running" => user[q] # user[r]

\* A process that may be continued holds the very conversation that its tip
\* names: no half turn, no hidden tool result.
TipIsHeld ==
  \A s \in Cached : LET w == cache[s] IN
    ~busy[w] /\ proc[w] \in {"open", "dead"} /\ tip[w] # 0 => held[w] = tip[w]

\* The cache is within its limit, no process is in it twice, and none is in it
\* that is being torn down.
CacheBounded ==
  /\ Cardinality(Cached) <= MaxCached
  /\ \A s \in Cached : Session[cache[s]] = s /\ proc[cache[s]] \in {"open", "dead", "killed"}

\* A process that runs is warm, serves a request or is about to be discarded,
\* and a warm one that nobody uses can be taken, unless its discard gave up.
NothingForgotten ==
  \A w \in Requests : proc[w] \in {"open", "dead", "killed"} =>
    \/ \E r \in Requests : req[r] = "running" /\ user[r] = w
    \/ drop[w] \in {"queued", "stranded"}
    \/ InCache(w) /\ ~busy[w]

ProcessesSound == TypeOK /\ OneUser /\ TipIsHeld /\ CacheBounded /\ NothingForgotten

-----------------------------------------------------------------------------
(* The inductive invariant that ProcessesSound rests on.                   *)

Jobs == {"acquire", "discard", "expire", "close"} \X Nat

\* What the variables hold besides.
Typed ==
  /\ req \in [Requests -> {"idle", "waiting", "replacing", "evicting", "creating", "dropping",
                          "running", "releasing", "done", "failed", "aborted"}]
  /\ kept \in [Requests -> BOOLEAN] /\ busy \in [Requests -> BOOLEAN]
  /\ tip \in [Requests -> Nat] /\ held \in [Requests -> Nat] /\ armed \in [Requests -> BOOLEAN]
  /\ drop \in [Requests -> {"no", "queued", "closing", "stranded"}]
  /\ queue \in Seq(Jobs)

\* A request works on the cache only with the lock, and keeps the place that it
\* found, or made, free.
Working(r) == req[r] \in {"replacing", "evicting", "creating", "dropping"}

Locked ==
  \A r \in Requests : Working(r) =>
    /\ Holds(<<"acquire", r>>)
    /\ kept[r] /\ req[r] # "dropping" => Session[r] # 0 /\ cache[Session[r]] = 0

\* A worker that was not created yet is nobody's, and that of a request whose turn
\* runs was.
Fresh ==
  /\ \A w \in Requests : proc[w] = "none" => ~busy[w]
  /\ \A w \in Requests :
       req[w] \in {"idle", "waiting", "replacing", "evicting", "creating"} => proc[w] = "none"
  /\ \A r \in Requests : req[r] = "running" => user[r] # 0 /\ proc[user[r]] # "none"

IInv == Typed /\ Locked /\ Fresh /\ ProcessesSound

\* In the end each request that was made has settled, an aborted one too, and what
\* was discarded, or expired while idle, is torn down.  (Each is made once.)
Ended == \A r \in Requests :
           /\ req[r] = "idle" \/ Settled(r)
           /\ drop[r] # "queued" /\ proc[r] # "closing" /\ (armed[r] => ~old[r])

ProcessesEnd == []<>Ended
=============================================================================
