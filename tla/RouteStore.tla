----------------------------- MODULE RouteStore -----------------------------
(***************************************************************************)
(* The file of route evidence (src/subagents/route-evidence.ts): lines are *)
(* appended by every Pi process, and the file is renamed over the older    *)
(* generation when a line would pass its size.  A process looks at the     *)
(* size, renames and appends in three system calls; the others run between *)
(* them.  A reader takes the older generation and then the live one, and   *)
(* keeps what it read until size or time of either changes.                *)
(***************************************************************************)
EXTENDS Naturals, Sequences, SequencesExt, FiniteSets

CONSTANTS
  Proc,       \* the Pi processes
  MaxLines,   \* lines a generation holds
  MaxAppends  \* bound: lines ever appended

VARIABLES
  prev, live,  \* the two generations, sequences of lines
  writer,      \* each process: [at, gen] "idle", "full", "append"
  lines,       \* lines appended so far, numbered
  renames,     \* how often the live file was renamed
  cache,       \* each process's cached view: [sign, view]
  raced        \* ghost: a rename went by a size another rename had changed

vars == << prev, live, writer, lines, renames, cache, raced >>

Line == 1..MaxAppends

TypeOK ==
  /\ prev \in Seq(Line) /\ live \in Seq(Line)
  /\ writer \in [Proc -> [at : {"idle", "full", "append"}, gen : Nat]]
  /\ lines \in 0..MaxAppends /\ renames \in Nat /\ raced \in BOOLEAN
  /\ \A p \in Proc : cache[p].view \in Seq(Line)

BugSignature == << Len(prev), Len(live) >>

\* Size and time of both generations: what a cached view is kept by.
Signature == << prev, live >>

Init ==
  /\ prev = <<>> /\ live = <<>> /\ lines = 0 /\ renames = 0 /\ raced = FALSE
  /\ writer = [p \in Proc |-> [at |-> "idle", gen |-> 0]]
  /\ cache = [p \in Proc |-> [sign |-> Signature, view |-> <<>>]]

\* What comes next: a rename of a full file, or the line itself.
Stat(p) ==
  /\ writer[p].at = "idle" /\ lines < MaxAppends
  /\ writer' = [writer EXCEPT ![p] =
       [at |-> IF Len(live) < MaxLines THEN "append" ELSE "full",
        gen |-> renames]]
  /\ UNCHANGED << prev, live, lines, renames, cache, raced >>

(* The file may have been renamed since, and be a young one by now, or not *)
(* exist: then the rename fails and is passed over.                        *)
Rotate(p) ==
  /\ writer[p].at = "full"
  /\ writer' = [writer EXCEPT ![p].at = "append"]
  /\ IF live = <<>>
     THEN UNCHANGED << prev, live, renames, raced >>
     ELSE /\ prev' = live /\ live' = <<>>
          /\ renames' = renames + 1
          /\ raced' = (raced \/ renames # writer[p].gen)
  /\ UNCHANGED << lines, cache >>

Append1(p) ==
  /\ writer[p].at = "append" /\ lines < MaxAppends
  /\ lines' = lines + 1
  /\ live' = Append(live, lines + 1)
  /\ writer' = [writer EXCEPT ![p] = [at |-> "idle", gen |-> 0]]
  /\ cache' = [cache EXCEPT ![p].sign = <<>>]
  /\ UNCHANGED << prev, renames, raced >>

(* The append fails: the evidence is gone, the dispatch goes on. *)
AppendFails(p) ==
  /\ writer[p].at # "idle"
  /\ writer' = [writer EXCEPT ![p] = [at |-> "idle", gen |-> 0]]
  /\ UNCHANGED << prev, live, lines, renames, cache, raced >>

View(p) ==
  /\ writer[p].at = "idle"
  /\ cache' = [cache EXCEPT ![p] =
       IF @.sign = Signature THEN @
       ELSE [sign |-> Signature, view |-> prev \o live]]
  /\ UNCHANGED << prev, live, writer, lines, renames, raced >>

Next == \E p \in Proc :
  Stat(p) \/ Rotate(p) \/ Append1(p) \/ AppendFails(p) \/ View(p)

Spec == Init /\ [][Next]_vars

-----------------------------------------------------------------------------
\* The latest n lines.
Recent(n) == {l \in 1..lines : l > lines - n}

(* No line is lost before a whole generation has followed it, while no two *)
(* processes rotate the same file.                                         *)
HistoryKept ==
  ~raced => Recent(MaxLines) \subseteq ToSet(prev) \cup ToSet(live)

(* The generations are in the order the lines were appended, and bounded:  *)
(* a process that looked before another appended adds a line at most.      *)
Bounded ==
  /\ Len(live) < MaxLines + Cardinality(Proc)
  /\ Len(prev) < MaxLines + Cardinality(Proc)
  /\ \A i, j \in DOMAIN (prev \o live) :
       i < j => (prev \o live)[i] < (prev \o live)[j]

(* A view that is used again is what the files say.                        *)
CacheIsTrue ==
  \A p \in Proc : cache[p].sign = Signature => cache[p].view = prev \o live

StoreSound == TypeOK /\ HistoryKept /\ Bounded /\ CacheIsTrue

(* A file is rotated by one process only: not so of two that looked at its *)
(* size before either renamed it.                                          *)
RotatedOnce == ~raced
=============================================================================
