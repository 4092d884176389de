--------------------------- MODULE VerifyAfterEdit ---------------------------
(***************************************************************************)
(* The check command run after edits (extensions/verify-after-edit.ts):    *)
(* edits join one batch until half a second is quiet, the command runs in  *)
(* a process group of its own with its output and its report retained      *)
(* (src/verification-artifacts.ts, src/verification-report.ts), and the    *)
(* edit that started the batch carries the answer.  The command, the       *)
(* timers, the operator's abort and other edits come as they please.       *)
(***************************************************************************)
EXTENDS Naturals, FiniteSets

CONSTANTS
  FailLimit,  \* verify.failLimit
  Reported,   \* whether verify.vitestReport is set
  MaxEdits    \* bound: edits of one behaviour

VARIABLES
  revision,     \* edits of the session so far
  quiet,        \* no edit for the debounce time
  consecutive,  \* failures since the last success
  at,           \* the runner: "idle", "settling", "verifying", "ended"
  batch,        \* the revision the running command began with
  child,        \* its process group: "none", "alive", "signalled", "killed",
                \* "gone"
  code,         \* how the command's shell ended: "none", "zero", "other"
  reason,       \* why it was terminated: "none", "abort", "timeout", "output"
  report,       \* the report file: "stale", "good", "bad"
  failed,       \* the outcome of the run
  answer,       \* what the last batch was answered: "none", "passed",
                \* "failed"; the revision it was about; and whether the
                \* command behind it exited and was accepted
  aborted       \* the turn's signal

vars == << revision, quiet, consecutive, at, batch, child, code, reason,
           report, failed, answer, aborted >>

TypeOK ==
  /\ revision \in 0..MaxEdits /\ batch \in 0..MaxEdits
  /\ quiet \in BOOLEAN /\ failed \in BOOLEAN /\ aborted \in BOOLEAN
  /\ consecutive \in 0..FailLimit
  /\ at \in {"idle", "settling", "verifying", "ended"}
  /\ child \in {"none", "alive", "signalled", "killed", "gone"}
  /\ code \in {"none", "zero", "other"}
  /\ reason \in {"none", "abort", "timeout", "output"}
  /\ report \in {"stale", "good", "bad"}
  /\ answer \in [is : {"none", "passed", "failed"}, of : 0..MaxEdits,
                 sound : BOOLEAN]

Init ==
  /\ revision = 0 /\ quiet = TRUE /\ consecutive = 0 /\ at = "idle"
  /\ batch = 0 /\ child = "none" /\ code = "none" /\ reason = "none"
  /\ report = "stale" /\ failed = FALSE /\ aborted = FALSE
  /\ answer = [is |-> "none", of |-> 0, sound |-> FALSE]

Runner == << consecutive, batch, child, code, reason, report, failed, answer >>

-----------------------------------------------------------------------------
(* A successful edit: it starts a batch, or joins the one that runs; after *)
(* FailLimit failures in a row nothing is started any more.                *)
Edited ==
  /\ revision < MaxEdits
  /\ revision' = revision + 1 /\ quiet' = FALSE
  /\ at' = IF at = "idle" /\ consecutive < FailLimit THEN "settling" ELSE at
  /\ UNCHANGED << Runner, aborted >>

Quiets ==
  /\ ~quiet /\ quiet' = TRUE
  /\ UNCHANGED << revision, at, aborted, Runner >>

Aborts ==
  /\ at # "idle" /\ ~aborted /\ aborted' = TRUE
  /\ UNCHANGED << revision, quiet, at, Runner >>

(* The batch is taken and the command started: unless the turn is already  *)
(* aborted, or no room can be had for what it would leave.                 *)
Verify ==
  /\ at = "settling" /\ quiet
  /\ batch' = revision /\ report' = "stale"
  /\ code' = "none" /\ reason' = "none"
  /\ \/ /\ ~aborted
        /\ at' = "verifying" /\ child' = "alive" /\ UNCHANGED failed
     \/ at' = "ended" /\ failed' = TRUE /\ UNCHANGED child
  /\ UNCHANGED << revision, quiet, consecutive, answer, aborted >>

\* SIGTERM goes to the group once, for the first of the reasons.
Terminate(why) ==
  /\ at = "verifying" /\ reason = "none" /\ child = "alive"
  /\ why = "abort" => aborted
  /\ reason' = why /\ child' = "signalled"
  /\ UNCHANGED << revision, quiet, consecutive, at, batch, code, report,
                  failed, answer, aborted >>

ForceKill ==
  /\ at = "verifying" /\ child = "signalled"
  /\ child' = "killed"
  /\ UNCHANGED << revision, quiet, consecutive, at, batch, code, reason,
                  report, failed, answer, aborted >>

(* The command writes its report while it runs. *)
Reports(r) ==
  /\ at = "verifying" /\ child = "alive" /\ report = "stale"
  /\ report' = r
  /\ UNCHANGED << revision, quiet, consecutive, at, batch, child, code, reason,
                  failed, answer, aborted >>

BugAccepted(c) == c = "zero" /\ (Reported => report = "good")

\* The run is accepted when the command exited by itself with code 0, and its
\* report, when one is asked for, is new and says so.
Accepted(c) == reason = "none" /\ c = "zero" /\ (Reported => report = "good")

(* The shell's streams close: a group that was told to end is killed once  *)
(* more, for a descendant that outlives the shell.                         *)
Closes(c) ==
  /\ at = "verifying" /\ child \in {"alive", "signalled", "killed"}
  /\ code' = c
  /\ child' = IF reason = "none" THEN "gone" ELSE "killed"
  /\ failed' = ~Accepted(c)
  /\ at' = "ended"
  /\ UNCHANGED << revision, quiet, consecutive, batch, reason, report, answer,
                  aborted >>

(* The shell could not be started; or it does not close after the kill. *)
GivesUp ==
  /\ at = "verifying"
  /\ \/ reason = "none" /\ child = "alive" /\ report = "stale" /\ child' = "gone"
     \/ child = "killed" /\ UNCHANGED child
  /\ failed' = TRUE /\ at' = "ended"
  /\ UNCHANGED << revision, quiet, consecutive, batch, code, reason, report,
                  answer, aborted >>

BugCovered == TRUE

\* A success counts only for what the command was started on.
Covered == revision = batch

(* A failure is answered at once.  A success that edits have overtaken is  *)
(* followed by another run.                                                *)
Answer ==
  /\ at = "ended"
  /\ IF failed
     THEN /\ consecutive' = consecutive + 1 /\ at' = "idle"
          /\ answer' = [is |-> "failed", of |-> batch, sound |-> FALSE]
     ELSE /\ consecutive' = 0
          /\ IF Covered
             THEN /\ at' = "idle"
                  /\ answer' = [is |-> "passed", of |-> batch,
                                sound |-> reason = "none" /\ code = "zero"
                                          /\ (Reported => report = "good")]
             ELSE at' = "settling" /\ UNCHANGED answer
  /\ aborted' = IF at' = "idle" THEN FALSE ELSE aborted
  /\ UNCHANGED << revision, quiet, batch, child, code, reason, report, failed >>

Next ==
  \/ Edited \/ Quiets \/ Aborts \/ Verify \/ ForceKill \/ GivesUp \/ Answer
  \/ \E why \in {"abort", "timeout", "output"} : Terminate(why)
  \/ \E r \in {"good", "bad"} : Reports(r)
  \/ \E c \in {"zero", "other"} : Closes(c)

\* The timers fire, and the runner goes on; the command need not end by itself.
Own == Quiets \/ Verify \/ Terminate("timeout") \/ ForceKill \/ Answer
       \/ (reason # "none" /\ GivesUp)
Fairness == WF_vars(Own)
Spec == Init /\ [][Next]_vars /\ Fairness

-----------------------------------------------------------------------------
(* "verify passed" is only said of the latest edit, and only when the      *)
(* command ended by itself, with success, and wrote the report it was      *)
(* asked for; edits made while it ran are not passed with it.              *)
PassedIsTrue ==
  answer.is = "passed" => answer.sound
                          /\ (at = "idle" /\ consecutive = 0 => answer.of = revision)

(* Nothing of a terminated command is left running: once the batch is      *)
(* over its group was killed, or had closed by itself.                     *)
NothingLeftRunning == at \in {"idle", "ended"} => child \notin {"alive", "signalled"}

(* A command that keeps failing is not run for ever. *)
Bounded == at \in {"settling", "verifying"} => consecutive < FailLimit

VerifySound == TypeOK /\ PassedIsTrue /\ NothingLeftRunning /\ Bounded

Ended == at = "idle"
VerifyEnds == []<>Ended

(* Edits made while a command runs are followed by another run: not so     *)
(* when the command fails.                                                 *)
EditsAreVerified == [][at = "ended" /\ at' = "idle" => revision = batch]_vars
=============================================================================
