------------------------------ MODULE TodoPlan ------------------------------
(***************************************************************************)
(* The phased todo list of src/todo-core.ts.  A call names tasks by their  *)
(* content or by a prefix, resolved against the list as it then is; every  *)
(* call that is accepted leaves something active while anything is         *)
(* pending, and a call that is rejected changes nothing.                   *)
(***************************************************************************)
EXTENDS Naturals, Sequences, SequencesExt, FiniteSets

CONSTANTS
  Content,       \* the texts of tasks
  Prefix(_, _),  \* Prefix(a, b): text b starts with text a, and differs
  Name,          \* the names of phases
  Plans,         \* the plans a caller may install
  MaxItems       \* bound: items a list is grown to

VARIABLE phases  \* the list: a sequence of [name, items]

Status == {"pending", "in_progress", "done", "blocked"}
Item == [content : Content, status : Status]

TypeOK == phases \in Seq([name : Name, items : Seq(Item)])

-----------------------------------------------------------------------------
(* Positions << phase, item >> of the list, and how a call finds one. *)

Places(ps) == UNION {{<< p, i >> : i \in DOMAIN ps[p].items} : p \in DOMAIN ps}
At(ps, x) == ps[x[1]].items[x[2]]
Before(x, y) == x[1] < y[1] \/ (x[1] = y[1] /\ x[2] < y[2])
First(X) == CHOOSE x \in X : \A y \in X \ {x} : Before(x, y)

Exact(ps, t) == {x \in Places(ps) : At(ps, x).content = t}
Starting(ps, t) == {x \in Places(ps) : Prefix(t, At(ps, x).content)}

\* The first item of that text, or those that start with it: a name stands
\* for an item only when one is left.
Candidates(ps, t) == IF Exact(ps, t) # {} THEN {First(Exact(ps, t))}
                     ELSE Starting(ps, t)
Found(ps, t) == Cardinality(Candidates(ps, t)) = 1
Hit(ps, t) == CHOOSE x \in Candidates(ps, t) : TRUE

PhasesNamed(ps, n) == {p \in DOMAIN ps : ps[p].name = n}
PhaseOf(ps, n) == CHOOSE p \in PhasesNamed(ps, n) :
                    \A q \in PhasesNamed(ps, n) : p <= q

-----------------------------------------------------------------------------
(* Changes of a list. *)

Set(ps, x, s) == [ps EXCEPT ![x[1]].items[x[2]].status = s]
Removed(ps, x) == [ps EXCEPT ![x[1]].items = RemoveAt(@, x[2])]

BugPromoted(ps) ==
  LET pending == {x \in Places(ps) : At(ps, x).status = "pending"}
  IN  IF pending = {} \/ \E x \in Places(ps) : At(ps, x).status # "pending"
      THEN ps
      ELSE Set(ps, First(pending), "in_progress")

\* The earliest pending item becomes active when nothing else is.
Promoted(ps) ==
  LET pending == {x \in Places(ps) : At(ps, x).status = "pending"}
  IN  IF pending = {} \/ \E x \in Places(ps) : At(ps, x).status = "in_progress"
      THEN ps
      ELSE Set(ps, First(pending), "in_progress")

\* Exactly the items of X are active; another that was goes back.
Activated(ps, X) ==
  [p \in DOMAIN ps |-> [ps[p] EXCEPT !.items =
    [i \in DOMAIN @ |->
       IF << p, i >> \in X THEN [@[i] EXCEPT !.status = "in_progress"]
       ELSE IF @[i].status = "in_progress"
            THEN [@[i] EXCEPT !.status = "pending"] ELSE @[i]]]]

Completed(ps, p) ==
  [ps EXCEPT ![p].items = [i \in DOMAIN @ |-> [@[i] EXCEPT !.status = "done"]]]

\* One transition of a named item: what a batch applies to each in turn.
Changed(ps, op, x) ==
  CASE op = "done" -> Set(ps, x, "done")
    [] op = "rm" -> Removed(ps, x)     \* drop is its other name
    [] op = "block" -> Set(ps, x, "blocked")
    [] op = "unblock" -> Set(ps, x, "pending")

Transitions == {"done", "rm", "block", "unblock"}

(* A batch works on a copy, item after item, each name resolved in what    *)
(* the ones before it have left; one that does not resolve rejects it all. *)
Batch(ps, op, ts) ==
  FoldLeft(LAMBDA acc, t :
             IF ~acc.ok \/ ~Found(acc.list, t) THEN [acc EXCEPT !.ok = FALSE]
             ELSE [ok |-> TRUE, list |-> Changed(acc.list, op, Hit(acc.list, t))],
           [ok |-> TRUE, list |-> ps], ts)

\* The same phases and the same items, whatever their status.
Outline(ps) == [p \in DOMAIN ps |->
  [name |-> ps[p].name,
   items |-> [i \in DOMAIN ps[p].items |-> ps[p].items[i].content]]]

Fresh(list) == [p \in DOMAIN list |->
  [name |-> list[p].name,
   items |-> [i \in DOMAIN list[p].items |->
                [content |-> list[p].items[i], status |-> "pending"]]]]

-----------------------------------------------------------------------------
(* The calls that are accepted; any other changes nothing. *)

\* A plan that is already installed keeps the progress recorded on it.
Install(list) == phases' = IF Outline(phases) = list THEN phases
                           ELSE Promoted(Fresh(list))

Start(t) == /\ Found(phases, t)
            /\ phases' = Activated(phases, {Hit(phases, t)})

StartAll(ts) ==
  /\ \A k \in DOMAIN ts : Found(phases, ts[k])
  /\ phases' = Activated(phases, {Hit(phases, ts[k]) : k \in DOMAIN ts})

Change(op, t) ==
  /\ Found(phases, t)
  /\ phases' = Promoted(Changed(phases, op, Hit(phases, t)))

ChangeAll(op, ts) ==
  /\ Batch(phases, op, ts).ok
  /\ phases' = Promoted(Batch(phases, op, ts).list)

\* A whole phase, by its name; a task that is not found may name one too.
FinishPhase(n) ==
  /\ PhasesNamed(phases, n) # {}
  /\ phases' = Promoted(Completed(phases, PhaseOf(phases, n)))

RemovePhase(n) ==
  /\ PhasesNamed(phases, n) # {}
  /\ phases' = Promoted(RemoveAt(phases, PhaseOf(phases, n)))

AppendItems(n, t) ==
  /\ PhasesNamed(phases, n) # {}
  /\ Cardinality(Places(phases)) < MaxItems
  /\ phases' = Promoted([phases EXCEPT ![PhaseOf(phases, n)].items =
                           Append(@, [content |-> t, status |-> "pending"])])

Texts == [1..2 -> Content]

Init == phases = <<>>

Next ==
  \/ \E list \in Plans : Install(list)
  \/ \E t \in Content : Start(t)
  \/ \E t \in Content, op \in Transitions : Change(op, t)
  \/ \E ts \in Texts : StartAll(ts)
  \/ \E ts \in Texts, op \in Transitions : ChangeAll(op, ts)
  \/ \E n \in Name : FinishPhase(n) \/ RemovePhase(n)
  \/ \E n \in Name, t \in Content : AppendItems(n, t)

Spec == Init /\ [][Next]_phases

-----------------------------------------------------------------------------
With(ps, s) == {x \in Places(ps) : At(ps, x).status = s}

(* After any call, if anything is pending something is in progress: a plan *)
(* never stalls with nothing to work on.                                   *)
SomethingActive ==
  With(phases, "pending") # {} => With(phases, "in_progress") # {}

(* A batch is the single calls made one after another: it is accepted      *)
(* exactly when each of them would be, and records the same items done and *)
(* blocked, in the same outline; it only promotes less.                    *)
BatchIsSequence ==
  \A op \in Transitions, a, b \in Content :
    LET after == Promoted(Changed(phases, op, Hit(phases, a)))
        both == Found(phases, a) /\ Found(after, b)
        batch == Batch(phases, op, << a, b >>)
        last == Changed(after, op, Hit(after, b))
    IN  /\ batch.ok <=> both
        /\ both => /\ Outline(batch.list) = Outline(last)
                   /\ \A s \in {"done", "blocked"} :
                        With(batch.list, s) = With(last, s)
                   /\ Cardinality(With(Promoted(batch.list), "in_progress"))
                        <= Cardinality(With(phases, "in_progress")) + 1

PlanSound == TypeOK /\ SomethingActive /\ BatchIsSequence
=============================================================================
