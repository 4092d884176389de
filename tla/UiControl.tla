------------------------------ MODULE UiControl ------------------------------
(***************************************************************************)
(* What UltraTerm sees and sets of a running session:                      *)
(* extensions/ultraterm-ui.ts.  The catalogue of its models is published   *)
(* again on every event, after a reload of the native configuration where  *)
(* that changed; and requests of the ut-ui command select a model and an   *)
(* effort, and may send a message, one request after the other.  Both wait *)
(* in between, while the operator works on the same session.               *)
(*                                                                         *)
(* The agent SDK and the native registry are external.  A revision of the  *)
(* configuration on disk is a number; it may be malformed.                 *)
(***************************************************************************)
EXTENDS Naturals, Sequences, SequencesExt

CONSTANTS
  Request,    \* the requests
  Asks,       \* what one may ask for: [action, model]
  Model,      \* the models; Offers[v] are those of revision v, none if it is malformed
  Offers,
  MaxTries,   \* 30 in the code: publications tried again
  MaxConfigs, \* bound: changes of the configuration
  MaxMoves    \* bound: moves of the operator, the agent and the host, and failures
              \* of a reload or a publication

VARIABLES
  ident,      \* the host identity that is published, 0 without
  generation, \* of the extension: sessions it has seen begin and end
  idle,       \* whether the agent is idle
  sel,        \* the selection: [model, effort], effort whether the asked-for one
  scope,      \* the scoped models, counted by their changes
  disk,       \* the configuration on disk: [rev, good]
  registry,   \* what the native registry has loaded: [rev, good]
  refresher,  \* [applied, attempted, retry, unhealthy]
  reload,     \* the reload in flight: [rev, read], NoReload without
  timer,      \* the timer of publish: [epoch, attempt], None without
  bodies,     \* publications under way: [at, epoch, host, attempt, models, good]
  catalog,    \* the catalogue last published: [models, good, model, host, into]
  line,       \* requests in the order they came, the first one at work
  req,        \* each request: see Fresh
  sent,       \* messages sent: [req, sel, host, idle]
  moves

vars == <<ident, generation, idle, sel, scope, disk, registry, refresher, reload, timer,
          bodies, catalog, line, req, sent, moves>>
session == <<ident, generation, idle, scope>>
config  == <<disk, registry, refresher, reload>>
showing == <<timer, bodies, catalog>>

\* No timer is set: after a publication, or when a session's tries are used up.
Unset   == MaxTries + 1
NoTimer == [epoch |-> 0, attempt |-> Unset]
GivenUp == [epoch |-> generation, attempt |-> Unset]
Set     == timer.attempt # Unset
\* rev: what the reload was begun for; read: whether the files have been read.
NoReload == [rev |-> 0, read |-> FALSE]
Begun    == [rev |-> disk.rev, read |-> FALSE]
\* asks, expects: what for, and for which identity; host, epoch: those it found; prev: the
\* selection before; moved: who came between, the agent or the operator.
Fresh == [at |-> "new", asks |-> [action |-> "none", model |-> "none"], expects |-> 0,
          host |-> 0, epoch |-> 0, scope |-> 0, moved |-> "no",
          prev |-> [model |-> "none", effort |-> FALSE],
          left |-> FALSE, lost |-> FALSE, told |-> 0]
Over == {"ok", "failed", "switched"}

Selection == [model : Model, effort : BOOLEAN]
TypeOK ==
  /\ ident \in Nat /\ generation \in Nat /\ idle \in BOOLEAN /\ scope \in Nat
  /\ sel \in Selection /\ timer \in [epoch : Nat, attempt : 0..Unset]
  /\ disk \in [rev : Nat, good : BOOLEAN] /\ registry \in [rev : Nat, good : BOOLEAN]
  /\ refresher \in [applied : Nat, attempted : Nat, retry : BOOLEAN, unhealthy : BOOLEAN]
  /\ reload \in [rev : Nat, read : BOOLEAN]
  /\ \A k \in DOMAIN bodies :
       /\ bodies[k].at \in {"join", "list"} /\ bodies[k].models \subseteq Model
  /\ \A r \in Request : req[r].at \in {"new", "queued", "waits", "join", "auth",
                                       "setting", "restoring"} \cup Over
  /\ moves \in 0..MaxMoves

Init ==
  /\ ident = 1 /\ generation = 1 /\ idle = TRUE /\ scope = 0
  /\ sel \in [model : Offers[1], effort : {FALSE}]
  /\ disk = [rev |-> 1, good |-> TRUE] /\ registry = disk
  /\ refresher = [applied |-> 1, attempted |-> 1, retry |-> TRUE, unhealthy |-> FALSE]
  /\ reload = NoReload /\ timer = [epoch |-> 1, attempt |-> 0] /\ bodies = <<>>
  /\ catalog = [models |-> {}, good |-> TRUE, model |-> "none", host |-> 0, into |-> 0]
  /\ line = <<>> /\ req = [r \in Request |-> Fresh] /\ sent = <<>>
  /\ moves = 0

Fine == UNCHANGED moves
Move == moves < MaxMoves /\ moves' = moves + 1

-----------------------------------------------------------------------------
(* createConfigRefresher. *)

\* changed: a failed revision is tried again only after its backoff.
Changed == /\ disk.rev # refresher.applied
           /\ disk.rev # refresher.attempted \/ refresher.retry

BugHealthy == TRUE

\* Without a reload: what is loaded may be shown.
Healthy == ~refresher.unhealthy /\ registry.good

\* sync: what a caller of it does next.
Joins  == reload # NoReload
Starts == ~Joins /\ Changed
Passes == ~Joins /\ ~Changed /\ Healthy

\* Publication: what the catalogue will show is what the registry now holds.
ToList(b) == [b EXCEPT !.at = "list", !.models = Offers[registry.rev], !.good = registry.good]

BugApplied == disk.rev

\* The revision that was looked at before the reload: a later one is still to come.
Applied == reload.rev

(* The registry reads the files as they now are. *)
Read ==
  /\ Joins /\ ~reload.read
  /\ registry' = disk /\ reload' = [reload EXCEPT !.read = TRUE]
  /\ Fine /\ UNCHANGED <<session, sel, disk, refresher, showing, line, req, sent>>

(* The reload ends, in time or not; the callers that wait for it go on or  *)
(* fail.                                                                   *)
ReloadEnds ==
  /\ Joins
  /\ \E timely \in BOOLEAN :
       /\ IF timely THEN reload.read /\ Fine ELSE Move
       /\ LET done == timely /\ registry.good IN
          /\ refresher' = IF done
               THEN [applied |-> Applied, attempted |-> Applied, retry |-> TRUE,
                     unhealthy |-> FALSE]
               ELSE [refresher EXCEPT !.attempted = reload.rev, !.retry = FALSE,
                                      !.unhealthy = TRUE]
          /\ bodies' = IF done THEN [k \in DOMAIN bodies |->
                                       IF bodies[k].at = "join" THEN ToList(bodies[k])
                                                                ELSE bodies[k]]
                       ELSE SelectSeq(bodies, LAMBDA b : b.at # "join")
          /\ req' = [r \in Request |->
                       IF req[r].at # "join" THEN req[r]
                       ELSE IF done THEN [req[r] EXCEPT !.at = "auth", !.scope = scope]
                       ELSE [req[r] EXCEPT !.at = "failed"]]
          /\ line' = SelectSeq(line, LAMBDA r : req'[r].at \notin Over)
  /\ reload' = NoReload
  /\ UNCHANGED <<session, sel, disk, registry, timer, catalog, sent>>

(* The backoff is over; a malformed revision fails as often as it is tried. *)
Backoff ==
  /\ ~refresher.retry /\ disk.good /\ refresher' = [refresher EXCEPT !.retry = TRUE]
  /\ Fine /\ UNCHANGED <<session, sel, disk, registry, reload, showing, line, req, sent>>

-----------------------------------------------------------------------------
(* publish. *)

Publish(epoch, attempt) == timer' = [epoch |-> epoch, attempt |-> attempt]

Again(b) ==
  IF b.attempt < MaxTries /\ b.epoch = generation /\ ident = b.host
  THEN Publish(b.epoch, b.attempt + 1)
  ELSE timer' = IF ~Set /\ b.epoch = generation THEN GivenUp ELSE timer

(* The timer fires: the configuration is synced at once, then awaited. *)
TimerFires ==
  /\ Set
  /\ IF timer.epoch # generation THEN timer' = NoTimer /\ UNCHANGED <<bodies, reload>>
     ELSE IF ident = 0
     THEN /\ IF timer.attempt < MaxTries THEN Publish(generation, timer.attempt + 1)
                                         ELSE timer' = GivenUp
          /\ UNCHANGED <<bodies, reload>>
     ELSE LET body == [at |-> "join", epoch |-> generation, host |-> ident,
                       attempt |-> timer.attempt, good |-> TRUE, models |-> {}]
          IN /\ timer' = NoTimer
             /\ reload' = IF Starts THEN Begun ELSE reload
             /\ bodies' = IF Joins \/ Starts THEN Append(bodies, body)
                          ELSE IF Passes THEN Append(bodies, ToList(body))
                          ELSE bodies
  /\ Fine /\ UNCHANGED <<session, sel, disk, registry, refresher, catalog, line, req, sent>>

BugStill(b) == TRUE

\* After a wait: the session is the one the publication began for.
Still(b) == b.epoch = generation /\ ident = b.host

(* The command inventory has come: one module, so in the order it was asked for. *)
Listed(k) ==
  /\ bodies[k].at = "list" /\ \A j \in 1..(k - 1) : bodies[j].at # "list"
  /\ bodies' = RemoveAt(bodies, k)
  /\ IF Still(bodies[k])
     THEN /\ catalog' = [models |-> bodies[k].models, good |-> bodies[k].good,
                         model |-> sel.model, host |-> bodies[k].host, into |-> ident]
          /\ \/ Fine /\ UNCHANGED timer
             \/ Move /\ Again(bodies[k])
     ELSE Fine /\ UNCHANGED <<catalog, timer>>
  /\ UNCHANGED <<session, sel, config, line, req, sent>>

\* The watch: a change on disk reaches a session that is otherwise idle.
Watch ==
  /\ Changed /\ ~Set /\ ident # 0 /\ \A k \in DOMAIN bodies : bodies[k].at # "join"
  /\ Publish(generation, 0)
  /\ Fine /\ UNCHANGED <<session, sel, config, bodies, catalog, line, req, sent>>

-----------------------------------------------------------------------------
(* The ut-ui command. *)

First(r) == line # <<>> /\ Head(line) = r

BugSame(r) == ident # 0

\* same: nothing of the session has changed since the request was handled.
Same(r) == ident # 0 /\ ident = req[r].host /\ generation = req[r].epoch

Guard(r) == Same(r) /\ idle

\* result: nothing is written into a session that replaced the request's own.
Finish(r, how) ==
  /\ req' = [req EXCEPT ![r].at = how, ![r].told = IF Same(r) THEN ident ELSE 0,
                        ![r].left = (sel' = req[r].prev)]
  /\ line' = Tail(line)
Goes(r, to) == req' = [req EXCEPT ![r].at = to] /\ UNCHANGED line

Ask(r) ==
  /\ req[r].at = "new"
  /\ \E g \in 1..generation, a \in Asks :
       req' = [req EXCEPT ![r].at = "queued", ![r].asks = a, ![r].expects = g,
                          ![r].host = ident, ![r].epoch = generation]
  /\ line' = Append(line, r)
  /\ Fine /\ UNCHANGED <<session, sel, config, showing, sent>>

Begin(r) ==
  /\ req[r].at = "queued" /\ First(r)
  /\ UNCHANGED sel
  /\ IF req[r].host # 0 /\ req[r].expects = req[r].host THEN Goes(r, "waits")
                                                       ELSE Finish(r, "failed")
  /\ Fine /\ UNCHANGED <<session, config, showing, sent>>

\* session_shutdown and session_start: what waited for the reload fails.
Replaced ==
  /\ generation' = generation + 2 /\ ident' \in {0, generation + 2}
  /\ Publish(generation + 2, 0)
  /\ bodies' = SelectSeq(bodies, LAMBDA b : b.at # "join")
  /\ reload' = NoReload /\ refresher' = [refresher EXCEPT !.retry = TRUE]

(* waitForIdle was answered; by now the agent may be at work again.  A     *)
(* session is switched, or the configuration synced at once, then awaited. *)
Waited(r) ==
  /\ req[r].at = "waits" /\ UNCHANGED sel
  /\ CASE Guard(r) /\ req[r].asks.action = "resume" ->
            \/ Finish(r, "failed") /\ UNCHANGED <<session, timer, reload, refresher, bodies>>
            \/ Finish(r, "switched") /\ Replaced /\ UNCHANGED <<idle, scope>>
       [] Guard(r) /\ req[r].asks.action # "resume" /\ (Joins \/ Starts) ->
            /\ Goes(r, "join") /\ reload' = IF Joins THEN reload ELSE Begun
            /\ UNCHANGED <<session, timer, refresher, bodies>>
       [] Guard(r) /\ req[r].asks.action # "resume" /\ Passes ->
            /\ req' = [req EXCEPT ![r].at = "auth", ![r].scope = scope]
            /\ UNCHANGED <<session, timer, reload, refresher, bodies, line>>
       [] OTHER -> Finish(r, "failed") /\ UNCHANGED <<session, timer, reload, refresher, bodies>>
  /\ Fine /\ UNCHANGED <<disk, registry, catalog, sent>>

(* The credentials are resolved, or not. *)
Authorized(r) ==
  /\ req[r].at = "auth" /\ UNCHANGED sel
  /\ \/ /\ Guard(r) /\ scope = req[r].scope /\ req[r].asks.model \in Offers[registry.rev]
        /\ req' = [req EXCEPT ![r].at = "setting", ![r].prev = sel] /\ UNCHANGED line
     \/ Finish(r, "failed")
  /\ Fine /\ UNCHANGED <<session, config, showing, sent>>

BugVerified(r) == sel'.model = req[r].asks.model

\* The selection is read back: the effort may have been clamped to the model's.
Verified(r) == sel' = [model |-> req[r].asks.model, effort |-> TRUE]

BugRestores(r) == FALSE

\* Whether the selection of before is set again, with a model that is still ours.
Restores(r) == Guard(r) /\ sel'.model = req[r].asks.model

(* setModel was answered; the effort, the check and the message follow at once. *)
Switched(r) ==
  /\ req[r].at = "setting"
  /\ \E done, clamped \in BOOLEAN :
       /\ sel' = IF ~done THEN sel
                 ELSE [model |-> req[r].asks.model,
                       effort |-> IF Guard(r) THEN ~clamped ELSE sel.effort]
       /\ IF done /\ Guard(r) /\ Verified(r)
          THEN /\ Finish(r, "ok") /\ Publish(generation, 0)
               /\ sent' = IF req[r].asks.action # "message" THEN sent
                          ELSE Append(sent, [req |-> r, sel |-> sel', host |-> ident,
                                             idle |-> idle])
          ELSE /\ UNCHANGED sent
               /\ IF done THEN Publish(generation, 0) ELSE UNCHANGED timer
               /\ IF Restores(r) THEN Goes(r, "restoring") ELSE Finish(r, "failed")
  /\ Fine /\ UNCHANGED <<session, config, bodies, catalog>>

Restore(r) ==
  /\ req[r].at = "restoring"
  /\ \E done \in BOOLEAN :
       /\ sel' = IF ~done THEN sel
                 ELSE [model |-> req[r].prev.model,
                       effort |-> IF Guard(r) THEN req[r].prev.effort ELSE sel.effort]
       /\ req' = [req EXCEPT ![r].at = "failed", ![r].told = IF Same(r) THEN ident ELSE 0,
                             ![r].left = (sel' = req[r].prev), ![r].lost = ~done]
  /\ line' = Tail(line) /\ Publish(generation, 0)
  /\ Fine /\ UNCHANGED <<session, config, bodies, catalog, sent>>

-----------------------------------------------------------------------------
(* The operator, the agent and the host. *)

\* What was set before somebody came between is no longer a request's own to restore.
Marked(r, who) == IF req[r].at \in {"setting", "restoring"} /\ req[r].moved # "operator"
                  THEN [req[r] EXCEPT !.moved = who] ELSE req[r]
Disturbed(who) == req' = [r \in Request |-> Marked(r, who)]

Select(m) ==
  /\ Move /\ m # sel.model /\ sel' = [model |-> m, effort |-> FALSE]
  /\ Publish(generation, 0) /\ Disturbed("operator")
  /\ UNCHANGED <<session, config, bodies, catalog, line, sent>>

Rescope ==
  /\ Move /\ scope' = scope + 1
  /\ UNCHANGED <<ident, generation, idle, sel, config, showing, line, req, sent>>

AgentStarts ==
  /\ Move /\ idle /\ idle' = FALSE
  /\ Publish(generation, 0) /\ Disturbed("agent")
  /\ UNCHANGED <<ident, generation, scope, sel, config, bodies, catalog, line, sent>>

AgentEnds ==
  /\ ~idle /\ idle' = TRUE /\ Publish(generation, 0)
  /\ Fine /\ UNCHANGED <<ident, generation, scope, sel, config, bodies, catalog, line, req, sent>>

(* Another session takes the terminal, or the same one begins again. *)
NextSession ==
  /\ Move /\ Replaced /\ idle' = TRUE
  /\ req' = [r \in Request |-> IF req[r].at = "join" THEN [req[r] EXCEPT !.at = "failed"]
                              ELSE Marked(r, "operator")]
  /\ line' = SelectSeq(line, LAMBDA r : req'[r].at \notin Over)
  /\ UNCHANGED <<scope, sel, disk, registry, catalog, sent>>

Identify ==
  /\ ident = 0 /\ ident' = generation /\ Fine
  /\ UNCHANGED <<generation, idle, scope, sel, config, showing, line, req, sent>>

Configure ==
  /\ disk.rev < MaxConfigs
  /\ disk' = [rev |-> disk.rev + 1, good |-> Offers[disk.rev + 1] # {}]
  /\ Fine /\ UNCHANGED <<session, sel, registry, refresher, reload, showing, line, req, sent>>

\* What the extension does by itself, or a timeout of its own bounds: not so the agent's
\* run and the waits for the SDK.
Own ==
  \/ Read \/ ReloadEnds \/ Backoff \/ TimerFires \/ Watch
  \/ \E k \in DOMAIN bodies : Listed(k)
  \/ \E r \in Request : Begin(r)
Next ==
  \/ Own \/ Rescope \/ AgentStarts \/ AgentEnds \/ NextSession \/ Identify \/ Configure
  \/ \E r \in Request : Ask(r) \/ Waited(r) \/ Authorized(r) \/ Switched(r) \/ Restore(r)
  \/ \E m \in Model : Select(m)

Fairness == WF_vars(Own)
Spec == Init /\ [][Next]_vars /\ Fairness

-----------------------------------------------------------------------------
(* A message goes out under the model and the effort it was asked for, to  *)
(* an idle agent, in the session its request was made for.                 *)
SentAsAsked ==
  \A k \in DOMAIN sent :
    LET m == sent[k] IN
    /\ m.sel = [model |-> req[m.req].asks.model, effort |-> TRUE]
    /\ m.idle /\ m.host = req[m.req].expects

(* A request that fails leaves the selection it found, unless the operator *)
(* or the agent came between, or the model could not be set back.          *)
LeftAsFound ==
  \A r \in Request : req[r].at = "failed" /\ req[r].prev.model # "none"
                     /\ req[r].moved = "no" /\ ~req[r].lost => req[r].left

(* The outcome of a request is written into its own session, or nowhere.   *)
ToldAtHome == \A r \in Request : req[r].told \in {0, req[r].host}

(* Requests are worked off one at a time. *)
OneAtATime ==
  \A r \in Request : req[r].at \notin {"new", "queued"} \cup Over => First(r)

(* A revision counts as applied only if the registry has loaded it, or a   *)
(* later one.                                                              *)
AppliedIsLoaded == refresher.applied <= registry.rev

(* The catalogue never shows a configuration that did not load, and is     *)
(* written for the session that the host then has.                         *)
CatalogIsOwn == catalog.good /\ catalog.host = catalog.into

UiSound == /\ TypeOK /\ SentAsAsked /\ LeftAsFound /\ ToldAtHome /\ OneAtATime
           /\ AppliedIsLoaded /\ CatalogIsOwn

(* Not so in this code: a request that is refused because the agent is no  *)
(* longer idle has applied nothing.                                        *)
RefusedAppliedNothing ==
  \A r \in Request : req[r].at = "failed" /\ req[r].prev.model # "none"
                     /\ req[r].moved # "operator" /\ ~req[r].lost => req[r].left

(* A request comes to its end or to a wait for the SDK, which nothing      *)
(* bounds; the others wait behind it.  And a session that can be shown is  *)
(* shown with the configuration on disk and the model that is selected,    *)
(* unless the tries were used up before its identity came, or a request    *)
(* whose reload had taken the change from the watch failed or still waits. *)
Waiting == {"waits", "auth", "setting", "restoring"}
Settled == reload = NoReload /\ (line = <<>> \/ req[Head(line)].at \in Waiting)
Shown == \/ ident = 0 \/ ~disk.good \/ ~registry.good \/ timer = GivenUp
         \/ /\ catalog.models = Offers[disk.rev] /\ catalog.model = sel.model
            /\ catalog.host = ident
Ended == Settled /\ (Shown \/ \E r \in Request : req[r].at \in {"auth", "setting", "restoring", "failed"})
UiEnds == []<>Ended

(* Not so in this code: whatever requests fail, a change of configuration  *)
(* reaches the catalogue of an idle session, when none is at work in it.   *)
ChangeReachesIdle == []<>(Settled /\ (Shown \/ \E r \in Request : req[r].at \in Waiting))
=============================================================================
