---------------------------- MODULE RouteRanking ----------------------------
(***************************************************************************)
(* Ranking inside one task class's chain: the routes of a class are judged *)
(* by the outcomes recorded for them (src/subagents/route-ranking.ts), a   *)
(* run leaves one record for each route it left and one for the route that *)
(* finished it, and a later verdict re-judges the run (route-evidence.ts). *)
(* Cost, time and the Thompson draw decide only which healthy route wins:  *)
(* any of them may.                                                        *)
(***************************************************************************)
EXTENDS Integers, Sequences, SequencesExt, FiniteSets, FiniteSetsExt

CONSTANTS
  Routes,      \* the length of the class's chain; its entries are 1..Routes
  DemoteAfter, \* consecutive failures that demote
  Window,      \* decided outcomes the rolling pass rate looks at
  Floor,       \* percent of passes under which a route is held out; 0: none
  Cooldown,    \* time a demoted route stays out
  MaxRuns,     \* bound: dispatches
  MaxOpen,     \* bound: runs under way at once
  MaxJudged,   \* bound: runs that get a verdict
  MaxTime      \* bound: the clock

VARIABLES
  now,
  tasks,    \* task records, in the order appended
  verdict,  \* the latest verdict of each run, "none" before one
  probes,   \* re-probe markers: [route, at]
  runs      \* each run: [path] what is left of its failover order, <<>> once
            \* settled, [left] the routes it left: [route, quota]

vars == << now, tasks, verdict, probes, runs >>

Entry == 1..Routes
Outcome == {"pass", "fail", "unknown"}
Task == [route : Entry, run : 1..MaxRuns, hop : BOOLEAN, outcome : Outcome,
         quota : BOOLEAN, at : 0..MaxTime]

TypeOK ==
  /\ now \in 0..MaxTime
  /\ tasks \in Seq(Task)
  /\ verdict \in Seq({"none", "pass", "fail"})
  /\ probes \in Seq([route : Entry, at : 0..MaxTime])
  /\ Len(runs) = Len(verdict)
  /\ runs \in Seq([path : Seq(Entry),
                   left : Seq([route : Entry, quota : BOOLEAN])])

(* A verdict on finished work does not judge the routes the run left, and  *)
(* a failure that becomes a pass loses its kind.                           *)
Judged(t) == ~t.hop /\ verdict[t.run] # "none"

Folded(t) ==
  IF Judged(t)
  THEN [t EXCEPT !.outcome = verdict[t.run],
                 !.quota = @ /\ verdict[t.run] = "fail"]
  ELSE t

Decided(r) ==
  SelectSeq([i \in DOMAIN tasks |-> Folded(tasks[i])],
            LAMBDA t : t.route = r /\ t.outcome # "unknown")

Passes(s) == Cardinality({i \in DOMAIN s : s[i].outcome = "pass"})

UnderFloor(s) ==
  /\ Floor > 0
  /\ Len(s) >= Min({Window, 5})
  /\ 100 * Passes(s) < Floor * Len(s)

(* One decided outcome after another: a pass promotes and restarts the     *)
(* rolling window; spent credits, a run of failures or a low rate demote.  *)
Health(r) ==
  LET d == Decided(r)
      After(h, i) ==
        IF d[i].outcome = "pass"
        THEN [h EXCEPT !.fails = 0, !.held = FALSE,
                       !.start = IF h.held THEN i ELSE @]
        ELSE LET first == Max({h.start, i + 1 - Window, 1})
                 demoted == \/ h.held
                            \/ d[i].quota
                            \/ h.fails + 1 >= DemoteAfter
                            \/ UnderFloor(SubSeq(d, first, i))
             IN [h EXCEPT !.fails = @ + 1, !.held = demoted,
                          !.since = IF demoted THEN d[i].at ELSE @]
  IN FoldLeft(After, [fails |-> 0, held |-> FALSE, start |-> 1, since |-> 0],
              [i \in DOMAIN d |-> i])

ProbesOf(r) == {probes[i].at : i \in {j \in DOMAIN probes : probes[j].route = r}}

BugHeldSince(r, since) == since

HeldSince(r, since) == Max({since} \cup {a \in ProbesOf(r) : a > since})

State(r) ==
  LET h == Health(r)
  IN IF ~h.held THEN "healthy"
     ELSE IF now - HeldSince(r, h.since) >= Cooldown THEN "probe-due"
     ELSE "demoted"

Healthy == {r \in Entry : State(r) = "healthy"}
Due     == {r \in Entry : State(r) = "probe-due"}

(* The failover orders a dispatch may come by: the chain's own while there *)
(* is no evidence, else one route that is due for its re-probe, and the    *)
(* healthy ones behind it in whatever order cost and draw give.            *)
Orders ==
  IF tasks = <<>> THEN {[i \in Entry |-> i]}
  ELSE LET probe == IF Due = {} THEN <<>> ELSE << Min(Due) >>
       IN {probe \o o : o \in SetToSeqs(Healthy)}

Marked(o) == Due # {} /\ o # <<>> /\ o[1] \in Due

-----------------------------------------------------------------------------
Init ==
  /\ now = 0 /\ tasks = <<>> /\ verdict = <<>> /\ probes = <<>> /\ runs = <<>>

(* A dispatch of the class; a re-probe starts the cooldown again at once.  *)
(* With every route held out the dispatch runs the normal route instead.   *)
Dispatch ==
  /\ Len(runs) < MaxRuns
  /\ Cardinality({i \in DOMAIN runs : runs[i].path # <<>>}) < MaxOpen
  /\ \E o \in Orders :
       /\ o # <<>>
       /\ runs' = Append(runs, [path |-> o, left |-> <<>>])
       /\ probes' = IF Marked(o)
                    THEN Append(probes, [route |-> o[1], at |-> now])
                    ELSE probes
  /\ verdict' = Append(verdict, "none")
  /\ UNCHANGED << now, tasks >>

(* The route fails and the next one of the order takes the task over. *)
Hop(i) ==
  /\ Len(runs[i].path) > 1
  /\ \E quota \in BOOLEAN :
       runs' = [runs EXCEPT ![i] =
         [path |-> Tail(@.path),
          left |-> Append(@.left, [route |-> Head(@.path), quota |-> quota])]]
  /\ UNCHANGED << now, tasks, verdict, probes >>

Record(i, route, hop, outcome, quota) ==
  [route |-> route, run |-> i, hop |-> hop, outcome |-> outcome,
   quota |-> quota, at |-> now]

(* A failure for each route the run left, then what the last one made of   *)
(* it.  "unknown": aborted, or done without the test gate the class asks   *)
(* for.                                                                    *)
Settle(i) ==
  /\ runs[i].path # <<>>
  /\ \E outcome \in Outcome : \E quota \in BOOLEAN :
       /\ quota => outcome = "fail"
       /\ LET left == runs[i].left
          IN tasks' = tasks
               \o [k \in DOMAIN left |->
                    Record(i, left[k].route, TRUE, "fail", left[k].quota)]
               \o << Record(i, Head(runs[i].path), FALSE, outcome, quota) >>
  /\ runs' = [runs EXCEPT ![i].path = <<>>]
  /\ UNCHANGED << now, verdict, probes >>

Verdict(i) ==
  /\ runs[i].path = <<>>
  /\ Cardinality({j \in DOMAIN runs \ {i} : verdict[j] # "none"}) < MaxJudged
  /\ \E v \in {"pass", "fail"} : v # verdict[i] /\ verdict' = [verdict EXCEPT ![i] = v]
  /\ UNCHANGED << now, tasks, probes, runs >>

Tick ==
  /\ now < MaxTime
  /\ now' = now + 1
  /\ UNCHANGED << tasks, verdict, probes, runs >>

Next ==
  \/ Dispatch \/ Tick
  \/ \E i \in DOMAIN runs : Hop(i) \/ Settle(i) \/ Verdict(i)

Spec == Init /\ [][Next]_vars

-----------------------------------------------------------------------------
(* What the replay must amount to: a route whose last decided outcome is a *)
(* pass is launched, one that failed DemoteAfter times in a row, or on     *)
(* spent credits, since its last pass is not.                              *)
HealthMeans ==
  \A r \in Entry :
    LET d == Decided(r)
        lastPass == Max({0} \cup {i \in DOMAIN d : d[i].outcome = "pass"})
        since == SubSeq(d, lastPass + 1, Len(d))
    IN /\ since = <<>> => State(r) = "healthy"
       /\ (\/ Len(since) >= DemoteAfter
           \/ \E i \in DOMAIN since : since[i].quota) => State(r) # "healthy"

(* A route that keeps failing is tried again once a cooldown, not by every *)
(* dispatch that comes in meanwhile.                                       *)
OneProbe ==
  \A i, j \in DOMAIN probes :
    i < j /\ probes[i].route = probes[j].route
      => probes[j].at - probes[i].at >= Cooldown

(* A good verdict on a run clears the route that finished it and no other: *)
(* the routes it left have failed, whatever is said of the work.           *)
HopsStayFailures ==
  \A r \in Entry : \A i \in DOMAIN Decided(r) :
    Decided(r)[i].hop => Decided(r)[i].outcome = "fail"

RankingSound == TypeOK /\ HealthMeans /\ OneProbe /\ HopsStayFailures
=============================================================================
