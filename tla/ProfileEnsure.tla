---------------------------- MODULE ProfileEnsure ----------------------------
(***************************************************************************)
(* The hook around every worker launched on a profile with an ensure       *)
(* command: wait for this profile's turn, run the command, run the worker, *)
(* and run the release command however it ended                            *)
(* (src/subagents/profile-ensure.ts).  The command counts leases; a        *)
(* command that is killed may or may not have taken one by then.           *)
(***************************************************************************)
EXTENDS Naturals, Sequences, FiniteSets

CONSTANT Launch   \* the launches on one profile

VARIABLES
  at,       \* where each launch stands
  line,     \* the profile's turns still closed, in the order they were asked
  aborted,  \* launches whose signal was aborted
  command,  \* what became of the launch's command: "none", "running", "ok",
            \* "failed", "timeout", "aborted", "unstarted"
  dying,    \* launches whose command has been sent a signal
  leases,   \* launches the command counted in and not yet out
  receipt,  \* the launch's receipt: "none", "ensured", "refused", "released",
            \* "release-failed", "both"
  result    \* what the launch reported: "none", "ran", "refused"

vars == << at, line, aborted, command, dying, leases, receipt, result >>

Places == {"new", "waiting", "ensuring", "running", "ending", "releasing",
           "done"}
Ends == {"ok", "failed", "timeout", "aborted", "unstarted"}

TypeOK ==
  /\ at \in [Launch -> Places]
  /\ line \in Seq(Launch)
  /\ {aborted, dying, leases} \subseteq SUBSET Launch
  /\ command \in [Launch -> Ends \cup {"none", "running"}]
  /\ receipt \in [Launch -> {"none", "ensured", "refused", "released",
                             "release-failed", "both"}]
  /\ result \in [Launch -> {"none", "ran", "refused"}]

Init ==
  /\ at = [l \in Launch |-> "new"] /\ line = <<>>
  /\ aborted = {} /\ dying = {} /\ leases = {}
  /\ command = [l \in Launch |-> "none"]
  /\ receipt = [l \in Launch |-> "none"]
  /\ result = [l \in Launch |-> "none"]

\* A turn is open for l once every turn asked before it has been given up:
\* each gate waits for the one before it.
Opened(l) ==
  LET p == CHOOSE i \in DOMAIN line : line[i] = l
  IN  [i \in 1 .. Len(line) - 1 |-> IF i < p THEN line[i] ELSE line[i + 1]]
BugMyTurn(l) == \E i \in DOMAIN line : line[i] = l

MyTurn(l) == line # <<>> /\ Head(line) = l

Abort(l) ==
  /\ l \notin aborted /\ at[l] # "done"
  /\ aborted' = aborted \cup {l}
  /\ dying' = IF command[l] = "running" THEN dying \cup {l} ELSE dying
  /\ UNCHANGED << at, line, command, leases, receipt, result >>

Ask(l) ==
  /\ at[l] = "new"
  /\ at' = [at EXCEPT ![l] = "waiting"]
  /\ line' = Append(line, l)
  /\ UNCHANGED << aborted, command, dying, leases, receipt, result >>

(* The profile no longer serves the route that the run froze.              *)
NotServed(l) ==
  /\ at[l] = "new"
  /\ at' = [at EXCEPT ![l] = "done"]
  /\ receipt' = [receipt EXCEPT ![l] = "refused"]
  /\ result' = [result EXCEPT ![l] = "refused"]
  /\ UNCHANGED << line, aborted, command, dying, leases >>

(* An aborted waiter opens its own gate; those behind it still wait for    *)
(* the ones before it.                                                     *)
GiveUp(l) ==
  /\ at[l] = "waiting" /\ l \in aborted
  /\ at' = [at EXCEPT ![l] = "done"]
  /\ line' = Opened(l)
  /\ receipt' = [receipt EXCEPT ![l] = "refused"]
  /\ result' = [result EXCEPT ![l] = "refused"]
  /\ UNCHANGED << aborted, command, dying, leases >>

(* The turn has come; a turn and an abort that are both there race.        *)
RunCommand(l) ==
  /\ at[l] = "waiting" /\ MyTurn(l)
  /\ at' = [at EXCEPT ![l] = "ensuring"]
  /\ \/ /\ command' = [command EXCEPT ![l] = "running"]
        /\ dying' = IF l \in aborted THEN dying \cup {l} ELSE dying
     \/ /\ command' = [command EXCEPT ![l] = "unstarted"]
        /\ UNCHANGED dying
  /\ UNCHANGED << line, aborted, leases, receipt, result >>

TimesOut(l) ==
  /\ command[l] = "running" /\ l \notin dying
  /\ dying' = dying \cup {l}
  /\ UNCHANGED << at, line, aborted, command, leases, receipt, result >>

CountsIn(l) ==
  /\ command[l] = "running" /\ l \notin leases
  /\ leases' = leases \cup {l}
  /\ UNCHANGED << at, line, aborted, command, dying, receipt, result >>

(* The command exits, by itself or of the signal: only an exit with code 0 *)
(* that neither the timer nor an abort asked for counts, and such an exit  *)
(* has taken its lease.  A command that fails by itself has not.           *)
Exits(l) ==
  /\ command[l] = "running"
  /\ command' = [command EXCEPT ![l] =
       IF l \in dying THEN IF l \in aborted THEN "aborted" ELSE "timeout"
       ELSE IF l \in leases THEN "ok" ELSE "failed"]
  /\ UNCHANGED << at, line, aborted, dying, leases, receipt, result >>

BugOwed(end) == end = "ok"

\* What the release command will be owed: a killed command may hold a lease.
Owed(end) == end \in {"ok", "timeout", "aborted"}

CommandDone(l) ==
  /\ at[l] = "ensuring" /\ command[l] \in Ends
  /\ line' = Opened(l)
  /\ IF command[l] = "ok"
     THEN /\ at' = [at EXCEPT ![l] = "running"]
          /\ receipt' = [receipt EXCEPT ![l] = "ensured"]
          /\ UNCHANGED result
     ELSE /\ at' = [at EXCEPT ![l] = IF Owed(command[l]) THEN "ending"
                                     ELSE "done"]
          /\ receipt' = [receipt EXCEPT ![l] = "refused"]
          /\ result' = [result EXCEPT ![l] = "refused"]
  /\ UNCHANGED << aborted, command, dying, leases >>

(* The worker returns, fails, is aborted or throws. *)
WorkerEnds(l) ==
  /\ at[l] = "running"
  /\ at' = [at EXCEPT ![l] = "ending"]
  /\ result' = [result EXCEPT ![l] = "ran"]
  /\ UNCHANGED << line, aborted, command, dying, leases, receipt >>

(* The release asks for a turn of its own, which no abort gives up. *)
AskRelease(l) ==
  /\ at[l] = "ending"
  /\ at' = [at EXCEPT ![l] = "releasing"]
  /\ line' = Append(line, l)
  /\ UNCHANGED << aborted, command, dying, leases, receipt, result >>

\* Whether the release succeeded is only known from its own exit.
Receipt(l, ok) ==
  IF receipt[l] = "refused" THEN (IF ok THEN "refused" ELSE "both")
  ELSE IF ok THEN "released" ELSE "release-failed"

Released(l) ==
  /\ at[l] = "releasing" /\ MyTurn(l)
  /\ at' = [at EXCEPT ![l] = "done"]
  /\ line' = Opened(l)
  /\ \/ leases' = leases \ {l} /\ receipt' = [receipt EXCEPT ![l] = Receipt(l, TRUE)]
     \/ UNCHANGED leases /\ receipt' = [receipt EXCEPT ![l] = Receipt(l, FALSE)]
  /\ UNCHANGED << aborted, command, dying, result >>

Next == \E l \in Launch :
  \/ Abort(l) \/ Ask(l) \/ NotServed(l) \/ GiveUp(l) \/ RunCommand(l)
  \/ TimesOut(l) \/ CountsIn(l) \/ Exits(l) \/ CommandDone(l) \/ WorkerEnds(l)
  \/ AskRelease(l) \/ Released(l)

\* Launches are asked for as the coordinator pleases; the rest ends by itself.
Own == \E l \in Launch :
  \/ GiveUp(l) \/ RunCommand(l) \/ Exits(l) \/ CommandDone(l)
  \/ WorkerEnds(l) \/ AskRelease(l) \/ Released(l)
Fairness == WF_vars(Own)
Spec == Init /\ [][Next]_vars /\ Fairness

-----------------------------------------------------------------------------
(* The commands of one profile never run against each other in this        *)
(* process, whoever was aborted while waiting.                             *)
OneCommandAtATime ==
  Cardinality({l \in Launch : command[l] = "running"}
              \cup {l \in Launch : at[l] = "releasing" /\ MyTurn(l)}) <= 1

(* A worker only runs on a profile its own command has brought up, and     *)
(* still holds it up.                                                      *)
WorkerIsServed == \A l \in Launch : at[l] = "running" => l \in leases

(* A lease outlives its launch only if the release command itself failed,  *)
(* and the receipt then says so, beside the refusal if there was one.      *)
LeasesMatched ==
  \A l \in Launch : at[l] = "done" /\ l \in leases
    => receipt[l] \in {"release-failed", "both"}

EnsureSound == TypeOK /\ OneCommandAtATime /\ WorkerIsServed /\ LeasesMatched

\* A launch has one turn in the line, from asking for it until it gives it up, and
\* runs its command in the first.
InLine(l) == \E i \in DOMAIN line : line[i] = l
Queued == /\ \A i, j \in DOMAIN line : line[i] = line[j] => i = j
          /\ \A l \in Launch : at[l] \in {"waiting", "ensuring", "releasing"} <=> InLine(l)
          /\ \A l \in Launch : at[l] = "ensuring" => MyTurn(l)

\* How far the command is at each place, and which command may have counted in.
Placed == \A l \in Launch :
  /\ command[l] = "running" => at[l] = "ensuring"
  /\ at[l] \in {"new", "waiting"} => command[l] = "none"
  /\ at[l] = "running" => command[l] = "ok"
  /\ at[l] \in {"ending", "releasing"} => Owed(command[l])
  /\ command[l] = "ok" /\ at[l] \in {"ensuring", "running"} => l \in leases
  /\ command[l] \in {"none", "failed", "unstarted"} => l \notin leases

IInv == Queued /\ Placed /\ EnsureSound

Ended == \A l \in Launch : at[l] \in {"new", "done"}
EnsureEnds == []<>Ended
=============================================================================
