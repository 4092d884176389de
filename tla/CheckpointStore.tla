-------------------------- MODULE CheckpointStore --------------------------
(***************************************************************************)
(* The checkpoints of a session (src/src/subagents/checkpoints.ts) and the *)
(* host that keeps them (src/extensions/ultraterm-subagents.ts): one file  *)
(* per run, a cache of them in the host, the write-ahead reservation of a  *)
(* resume, receipts of delivered completions, retention, and the recovery  *)
(* of what an interrupted host left behind.                                *)
(*                                                                         *)
(* The host is single-threaded and its writes are synchronous, so its      *)
(* operations do not interleave; but each write is one atomic rename, the  *)
(* host may die between any two, and any of them may fail.  job is the     *)
(* operation under way.  One host at a time has the store: CheckpointLock. *)
(***************************************************************************)
EXTENDS Naturals, FiniteSets

CONSTANTS N,          \* runs 1 .. N are created, in this order
          Retained,   \* MAX_RETAINED_TERMINAL_RUNS
          MaxActive,  \* MAX_ACTIVE_RUNS
          Slack,      \* files over both that the constructor still accepts
          MaxFaults,  \* writes and unlinks that may fail
          NoFile

Run == 1 .. N

ASSUME StoreAssumption == /\ N \in Nat \ {0} /\ Retained \in Nat \ {0}
                          /\ MaxActive \in Nat \ {0} /\ Slack \in Nat
                          /\ MaxFaults \in Nat

None == 0   \* no run

\* A checkpoint; its run is told by its state alone, and by from below.
Checkpoint == [state : {"running", "ended"}, delivered : BOOLEAN,
               resumedAs : Run \cup {None}, pending : Run \cup {None}]
ASSUME NoFileAssumption == NoFile \notin Checkpoint

VARIABLES
  disk,      \* run -> its checkpoint file
  cache,     \* run -> its checkpoint in the host
  host,      \* "down", "opening" (the constructor) or "up"
  job,       \* the operation under way
  live,      \* run -> its state in the coordinator
  unsaved,   \* run -> the snapshot whose write failed (checkpointPending)
  receipts,  \* runs whose receipt is yet to be written
  from,      \* run -> resumedFrom
  session,   \* run -> the native session file of its workers
  used,      \* number of runs created
  checked,   \* runs that a call to resume has looked at and found fit
  faults,    \* failures so far
  history    \* [started, recorded, received, reborn: sets of runs]

vars == <<disk, cache, host, job, live, unsaved, receipts, from, session, used, checked, faults, history>>

Idle == [op |-> "idle", run |-> None, state |-> "ended", why |-> "none",
         victim |-> None, original |-> NoFile, todo |-> {}]
Reasons == {"none", "initial", "lifecycle", "receipt", "resume", "recover"}
Ops == {"idle", "save", "prune", "sweep", "receipt", "reserve", "commit", "start", "finish", "adopt"}

Stored(f) == {r \in Run : f[r] # NoFile}

\* The records that retention counts.
Ended == {r \in Stored(cache) : cache[r].state = "ended"}
Active == {r \in Run : live[r] = "running"}

\* A resumed run continues the session of the run that it resumes.
Owner(r) == IF from[r] = None THEN r ELSE from[r]

Init == /\ disk = [r \in Run |-> NoFile] /\ cache = [r \in Run |-> NoFile]
        /\ host = "down" /\ job = Idle
        /\ live = [r \in Run |-> "none"] /\ unsaved = [r \in Run |-> "none"]
        /\ receipts = {} /\ used = 0 /\ checked = {} /\ faults = 0
        /\ from = [r \in Run |-> None] /\ session = [r \in Run |-> "none"]
        /\ history = [started |-> {}, recorded |-> {}, received |-> {}, reborn |-> {}]

-----------------------------------------------------------------------------
(* Writes.                                                                 *)

\* The record of r was dropped by retention, and c starts it afresh.
Afresh(r, c) == cache[r] = NoFile /\ c.resumedAs = None /\ r \in history.recorded

\* atomic: the file of r is replaced.
Write(r, c) == /\ disk' = [disk EXCEPT ![r] = c]
               /\ history' = [history EXCEPT !.recorded = @ \cup {r},
                                             !.received = IF c.delivered THEN @ \cup {r} ELSE @,
                                             !.reborn = IF Afresh(r, c) THEN @ \cup {r} ELSE @]

\* What save writes: the run's state, and what the cache knows of it otherwise.
Snapshot(r, state) ==
  IF cache[r] = NoFile THEN [state |-> state, delivered |-> FALSE, resumedAs |-> None, pending |-> None]
                       ELSE [cache[r] EXCEPT !.state = state]

Saving(r, state, why) == job' = [job EXCEPT !.op = "save", !.run = r, !.state = state, !.why = why]

\* save: the file, then the cache, then retention.
Save == /\ job.op = "save"
        /\ Write(job.run, Snapshot(job.run, job.state))
        /\ cache' = [cache EXCEPT ![job.run] = Snapshot(job.run, job.state)]
        /\ job' = [job EXCEPT !.op = "prune"]
        /\ UNCHANGED <<host, live, unsaved, receipts, from, session, used, checked, faults>>

\* Retention: the clock that orders the records may step, so any record of an
\* ended run may be the oldest.
Prune == /\ job.op = "prune" /\ Cardinality(Ended) > Retained
         /\ \E v \in Ended :
              /\ disk' = [disk EXCEPT ![v] = NoFile]
              /\ cache' = [cache EXCEPT ![v] = NoFile]
              /\ job' = [job EXCEPT !.op = "sweep", !.victim = v]
         /\ UNCHANGED <<host, live, unsaved, receipts, from, session, used, checked, history, faults>>

\* Seeded bug: the session goes with its run's checkpoint, whoever else uses it.
BugShared(v) == TRUE

\* The session of a pruned run goes unless another record refers to it.
Exclusive(v) == ~\E x \in Stored(cache) : Owner(x) = Owner(v)

\* An unlink of a session that fails is let go.
Sweep == /\ job.op = "sweep"
         /\ \/ UNCHANGED session
            \/ /\ session[Owner(job.victim)] = "kept" /\ Exclusive(job.victim)
               /\ session' = [session EXCEPT ![Owner(job.victim)] = "gone"]
         /\ job' = [job EXCEPT !.op = "prune", !.victim = None]
         /\ UNCHANGED <<disk, cache, host, live, unsaved, receipts, from, used, checked, history, faults>>

\* What save was called for goes on.
Saved == /\ job.op = "prune" /\ Cardinality(Ended) <= Retained
         /\ LET receipt == job.why \in {"initial", "lifecycle"} /\ job.run \in receipts
                next == CASE receipt -> "receipt"
                          [] job.why = "initial" -> "start"
                          [] job.why = "resume" -> "commit"
                          [] job.why = "recover" -> "adopt"
                          [] OTHER -> "idle"
            IN /\ job' = IF next = "idle" THEN Idle ELSE [job EXCEPT !.op = next]
               /\ unsaved' = IF receipt \/ job.why \notin {"initial", "lifecycle"} THEN unsaved
                             ELSE [unsaved EXCEPT ![job.run] = "none"]
         /\ UNCHANGED <<disk, cache, host, live, receipts, from, session, used, checked, history, faults>>

\* Seeded bug: a receipt passes for the repair of a failed snapshot.
BugReceiptRepairs ==
  /\ job.op = "receipt"
  /\ LET c == IF cache[job.run] = NoFile THEN NoFile ELSE [cache[job.run] EXCEPT !.delivered = TRUE]
     IN /\ IF c = cache[job.run] THEN UNCHANGED <<disk, history>> ELSE Write(job.run, c)
        /\ cache' = [cache EXCEPT ![job.run] = c]
  /\ receipts' = receipts \ {job.run} /\ unsaved' = [unsaved EXCEPT ![job.run] = "none"]
  /\ job' = Idle
  /\ UNCHANGED <<host, live, from, session, used, checked, faults>>

\* markDelivered, after a save whose receipt had failed before or on its own;
\* a write of its own repairs no snapshot.
Receipt == /\ job.op = "receipt"
           /\ LET r == job.run
                  c == IF cache[r] = NoFile THEN NoFile ELSE [cache[r] EXCEPT !.delivered = TRUE]
              IN /\ IF c = cache[r] THEN UNCHANGED <<disk, history>> ELSE Write(r, c)
                 /\ cache' = [cache EXCEPT ![r] = c]
                 /\ receipts' = receipts \ {r}
                 /\ unsaved' = IF job.why = "receipt" THEN unsaved ELSE [unsaved EXCEPT ![r] = "none"]
                 /\ job' = Idle
           /\ UNCHANGED <<host, live, from, session, used, checked, faults>>

-----------------------------------------------------------------------------
(* Runs and resumes.                                                       *)

Free == host = "up" /\ job.op = "idle"

\* A dispatch: the initial checkpoint comes before the launch.  Other dispatches
\* may have looked at the health of the store any time before.
Dispatch == /\ Free /\ used < N
            /\ used' = used + 1
            /\ Saving(used + 1, "running", "initial")
            /\ UNCHANGED <<disk, cache, host, live, unsaved, receipts, from, session, checked,
                           history, faults>>

\* The state in which the host shows a run: a run that the coordinator does not
\* have was interrupted.
Shown(r) == IF live[r] = "running" THEN "running" ELSE "ended"

\* The hub admits one successor, of a run that has ended and is none itself, when
\* all that the store was told is on disk; then it awaits the route.
Resumable(r) == /\ cache[r] # NoFile /\ cache[r].resumedAs = None /\ cache[r].pending = None
                /\ from[r] = None
Ask(r) == /\ Free /\ Resumable(r) /\ Shown(r) = "ended" /\ session[r] # "gone"
          /\ \A x \in Run : unsaved[x] = "none"
          /\ checked' = checked \cup {r}
          /\ UNCHANGED <<disk, cache, host, job, live, unsaved, receipts, from, session, used,
                         history, faults>>

\* Seeded bug: the store relies on what the hub saw before its await.
BugNoRecheck(r) == cache[r] # NoFile

\* prepareResume looks at the reservation again, at nothing else.
Admitted(r) == Resumable(r)

\* prepareResume names the successor in the cache before it writes.
Resume(r) == /\ Free /\ used < N
             /\ r \in checked /\ Admitted(r)
             /\ used' = used + 1
             /\ from' = [from EXCEPT ![used + 1] = r]
             /\ cache' = [cache EXCEPT ![r].pending = used + 1]
             /\ job' = [Idle EXCEPT !.op = "reserve", !.run = used + 1, !.state = "running", !.why = "resume"]
             /\ UNCHANGED <<disk, host, live, unsaved, receipts, session, checked, history, faults>>

\* A reservation that is refused counts as a failed write of the run, with the state
\* that the hub saw before its await.
Refused(r) == /\ Free /\ r \in checked /\ ~Admitted(r)
              /\ unsaved' = [unsaved EXCEPT ![r] = "ended"]
              /\ UNCHANGED <<disk, cache, host, job, live, receipts, from, session, used, checked,
                             history, faults>>

\* The reservation is on disk; the successor's record is next.
Reserve == /\ job.op = "reserve"
           /\ Write(from[job.run], cache[from[job.run]])
           /\ job' = [job EXCEPT !.op = "save", !.original = cache[from[job.run]]]
           /\ UNCHANGED <<cache, host, live, unsaved, receipts, from, session, used, checked, faults>>

\* The successor is committed as the run's one resume.  Retention may have dropped
\* the run from the cache meanwhile; its file is written all the same.
Committed == [job.original EXCEPT !.pending = None, !.resumedAs = job.run]
CommitInCache == cache' = [cache EXCEPT ![from[job.run]] = IF @ = NoFile THEN NoFile ELSE Committed]

Commit == /\ job.op = "commit"
          /\ CommitInCache
          /\ Write(from[job.run], Committed)
          /\ job' = [job EXCEPT !.op = "start"]
          /\ UNCHANGED <<host, live, unsaved, receipts, from, session, used, checked, faults>>

\* coordinator.start: refused at the limit, and then nothing is undone.  The
\* workers of a run may create its session.
Start == /\ job.op = "start"
         /\ \/ /\ Cardinality(Active) < MaxActive
               /\ live' = [live EXCEPT ![job.run] = "running"]
               /\ \E s \in {session[Owner(job.run)], "kept"} : session' = [session EXCEPT ![Owner(job.run)] = s]
               /\ history' = [history EXCEPT !.started = @ \cup {job.run}]
            \/ /\ Cardinality(Active) >= MaxActive
               /\ UNCHANGED <<live, session, history>>
         /\ job' = Idle
         /\ UNCHANGED <<disk, cache, host, unsaved, receipts, from, used, checked, faults>>

\* The observer of the coordinator: a run goes on, or it settles.
Observe(r) == /\ Free /\ live[r] = "running"
              /\ \E state \in {"running", "ended"} : /\ live' = [live EXCEPT ![r] = state]
                                                     /\ Saving(r, state, "lifecycle")
              /\ UNCHANGED <<disk, cache, host, unsaved, receipts, from, session, used, checked,
                             history, faults>>

\* markDeliveredDurably.
Deliver(r) == /\ Free /\ cache[r] # NoFile
              /\ receipts' = receipts \cup {r}
              /\ job' = [Idle EXCEPT !.op = "receipt", !.run = r, !.state = Shown(r), !.why = "receipt"]
              /\ UNCHANGED <<disk, cache, host, live, unsaved, from, session, used, checked,
                             history, faults>>

\* assertDurableForNewWork: failed snapshots are written again, nothing is run.
Retry(r) == /\ Free /\ unsaved[r] # "none"
            /\ Saving(r, IF live[r] = "none" THEN unsaved[r] ELSE live[r], "lifecycle")
            /\ UNCHANGED <<disk, cache, host, live, unsaved, receipts, from, session, used,
                           checked, history, faults>>

\* A write or an unlink fails, and the operation with it (checkpointFailed).
Failing == \/ job.op \in {"save", "reserve", "commit"}
           \/ job.op = "prune" /\ Cardinality(Ended) > Retained
           \/ job.op = "receipt" /\ cache[job.run] # NoFile /\ ~cache[job.run].delivered
Fail == /\ Failing /\ faults < MaxFaults
        /\ faults' = faults + 1
        /\ unsaved' = CASE job.why = "initial" -> [unsaved EXCEPT ![job.run] = "ended"]
                        [] job.why \in {"lifecycle", "receipt"} -> [unsaved EXCEPT ![job.run] = job.state]
                        [] job.why = "resume" -> [unsaved EXCEPT ![from[job.run]] = "ended"]
                        [] OTHER -> unsaved
        /\ IF job.op = "commit" THEN CommitInCache ELSE UNCHANGED cache
        /\ job' = Idle
        /\ UNCHANGED <<disk, host, live, receipts, from, session, used, checked, history>>

-----------------------------------------------------------------------------
(* Hosts come and go.                                                      *)

WithinLimit == Cardinality(Stored(disk)) <= Retained + MaxActive + Slack

\* The constructor reads every file; too many of them are refused.
Open == /\ host = "down" /\ WithinLimit
        /\ host' = "opening" /\ cache' = disk
        /\ job' = [Idle EXCEPT !.op = "finish"]
        /\ UNCHANGED <<disk, live, unsaved, receipts, from, session, used, checked, history, faults>>

Reserved == {r \in Stored(cache) : cache[r].pending # None}

\* An interrupted reservation counts if the successor's record was written.
Settled(c) == [c EXCEPT !.pending = None, !.resumedAs = IF cache[c.pending] # NoFile THEN c.pending ELSE @]

Finish == /\ job.op = "finish"
          /\ \/ \E r \in Reserved : /\ Write(r, Settled(cache[r]))
                                    /\ cache' = [cache EXCEPT ![r] = Settled(cache[r])]
                                    /\ UNCHANGED <<host, job>>
             \/ /\ Reserved = {}
                /\ host' = "up" /\ job' = [Idle EXCEPT !.op = "adopt", !.todo = Stored(cache)]
                /\ UNCHANGED <<disk, cache, history>>
          /\ UNCHANGED <<live, unsaved, receipts, from, session, used, checked, faults>>

\* adoptStore: a completion that the transcript shows is marked; a run that was
\* under way is saved as interrupted.
Adopt == /\ job.op = "adopt"
         /\ \/ /\ job.todo = {} /\ job' = Idle
               /\ UNCHANGED <<disk, cache, history>>
            \/ \E r \in job.todo :
                 /\ cache[r] # NoFile /\ ~cache[r].delivered
                 /\ Write(r, [cache[r] EXCEPT !.delivered = TRUE])
                 /\ cache' = [cache EXCEPT ![r].delivered = TRUE]
                 /\ UNCHANGED job
            \/ \E r \in job.todo :
                 /\ job' = IF cache[r] # NoFile /\ cache[r].state = "running"
                           THEN [job EXCEPT !.op = "save", !.run = r, !.state = "ended", !.why = "recover",
                                            !.todo = @ \ {r}]
                           ELSE [job EXCEPT !.todo = @ \ {r}]
                 /\ UNCHANGED <<disk, cache, history>>
         /\ UNCHANGED <<host, live, unsaved, receipts, from, session, used, checked, faults>>

\* The host dies; an orderly shutdown saves every run first.  A failed write in
\* the constructor closes the store again.
Crash == /\ host # "down"
         /\ host' = "down" /\ job' = Idle
         /\ cache' = [r \in Run |-> NoFile]
         /\ live' = [r \in Run |-> "none"] /\ unsaved' = [r \in Run |-> "none"] /\ receipts' = {}
         /\ checked' = {}
         /\ UNCHANGED <<disk, from, session, used, history, faults>>

Next == \/ Save \/ Prune \/ Sweep \/ Saved \/ Receipt \/ Reserve \/ Commit \/ Start \/ Fail
        \/ Dispatch \/ Open \/ Finish \/ Adopt \/ Crash
        \/ \E r \in Run : Ask(r) \/ Resume(r) \/ Refused(r) \/ Observe(r) \/ Deliver(r) \/ Retry(r)

Spec == Init /\ [][Next]_vars

-----------------------------------------------------------------------------
(* Properties.                                                             *)

File == Checkpoint \cup {NoFile}
Job == [op : Ops, run : Run \cup {None}, state : {"running", "ended"}, why : Reasons,
        victim : Run \cup {None}, original : File, todo : SUBSET Run]
History == [started : SUBSET Run, recorded : SUBSET Run, received : SUBSET Run, reborn : SUBSET Run]
TypeOK == /\ disk \in [Run -> File] /\ cache \in [Run -> File]
          /\ host \in {"down", "opening", "up"}
          /\ job \in Job
          /\ live \in [Run -> {"none", "running", "ended"}]
          /\ unsaved \in [Run -> {"none", "running", "ended"}]
          /\ receipts \subseteq Run /\ used \in 0 .. N /\ checked \subseteq Run /\ faults \in 0 .. MaxFaults
          /\ from \in [Run -> Run \cup {None}] /\ session \in [Run -> {"none", "kept", "gone"}]
          /\ history \in History

\* What the documentation says, over every history: a run is continued at most once.
ContinuedOnce == \A s, t \in history.started : from[s] # None /\ from[s] = from[t] => s = t

\* A run is continued at most once, and a continuation never, over every crash, failed
\* write and retention between the three records of a resume; save for a run whose
\* record retention dropped and a repair wrote again, which knows of no resume.
ResumedOnce == \A s, t \in history.started :
  from[s] # None => /\ from[from[s]] = None
                    /\ from[s] = from[t] => s = t \/ from[s] \in history.reborn

\* The reservation is ahead of the work: when a successor has started, the file of
\* the run that it continues says so, and so it will for every later host.  And no
\* resume is spent on nothing: the successor that a file names had a record.
ReservedBeforeStart ==
  /\ \A s \in history.started :
       from[s] \notin {None} \cup history.reborn /\ disk[from[s]] # NoFile =>
         disk[from[s]].resumedAs = s
  /\ \A r \in Stored(disk) : disk[r].resumedAs # None => disk[r].resumedAs \in history.recorded

\* What the host shows is what is on disk, save for the runs that it reports as
\* not saved: no failed write is passed off as recovery evidence.
CacheIsDurable == TypeOK /\ (Free => \A r \in Stored(cache) : unsaved[r] = "none" => cache[r] = disk[r])

\* A run that works has its checkpoint: retention and the recovery of interrupted
\* runs leave it alone.
LiveOnDisk == \A r \in Active : disk[r] # NoFile /\ disk[r].state = "running"

\* A session goes after the last record that could still be resumed on it.
SessionGoesLast == [][\A r \in Run : session'[r] = "gone" /\ session[r] # "gone" =>
                        \A x \in Stored(disk') : Owner(x) = r => disk'[x].resumedAs # None]_vars

\* A completion once marked delivered is never offered again by a later host, unless
\* its record was dropped and started afresh.
DeliveredForGood ==
  \A r \in Stored(disk) : r \in history.received \ history.reborn => disk[r].delivered

\* The five by what they are about: the resume of a run, and its record.
ResumeSound == ResumedOnce /\ ReservedBeforeStart
RecordsDurable == CacheIsDurable /\ LiveOnDisk /\ DeliveredForGood

-----------------------------------------------------------------------------
(* The inductive invariant that ResumeSound and RecordsDurable rest on.    *)

Underway == {"reserve", "save", "prune", "sweep", "commit"}

\* An operation that needs a run, a victim or a record has it in hand.
Targets ==
  /\ job.op \in {"save", "prune", "sweep", "receipt", "reserve", "commit", "start"} => job.run # None
  /\ job.op = "sweep" => job.victim # None
  /\ job.op \in {"reserve", "commit"} => job.why = "resume"
  /\ job.op = "reserve" => cache[from[job.run]] # NoFile
  /\ job.why = "resume" => from[job.run] # None /\ job.op \in Underway \cup {"start"}
  /\ job.why = "resume" /\ job.op \in Underway \ {"reserve"} => job.original # NoFile

\* Runs are created in their order; whatever exists of a run came after that.
Created ==
  /\ \A r \in Run : r > used => r \notin history.recorded /\ from[r] = None
  /\ \A r \in Run : disk[r] # NoFile \/ cache[r] # NoFile => r \in history.recorded
  /\ history.started \cup history.received \cup checked \subseteq history.recorded

\* A successor continues a run that had a record and is no successor itself.
Lineage == \A s \in Run : from[s] # None => from[s] \in history.recorded /\ from[from[s]] = None

\* A record names the successor it had or the one it may get, never both; the
\* former had a record; and a mark of delivery stays.
RecordSound(r, c) ==
  c # NoFile => /\ c.resumedAs # None => c.pending = None /\ c.resumedAs \in history.recorded
                /\ r \in history.received \ history.reborn => c.delivered
RecordsSound == \A r \in Run : RecordSound(r, disk[r]) /\ RecordSound(r, cache[r])

\* Every record of a run says who its started successor is.
Names(c, s) == c # NoFile => c.resumedAs = s
SuccessorsNamed ==
  \A s \in history.started : from[s] \notin {None} \cup history.reborn =>
    /\ Names(disk[from[s]], s) /\ Names(cache[from[s]], s)
    /\ \A t \in history.started : from[t] = from[s] => t = s

\* A run at work has its record, in the host and on disk.
LiveRecorded ==
  \A r \in Active : /\ r \notin checked
                    /\ disk[r] # NoFile /\ disk[r].state = "running"
                    /\ cache[r] # NoFile /\ cache[r].state = "running"

\* The host's record is the file, unless the run is reported as not saved, or is
\* about to be written.
Mirrored ==
  \A r \in Stored(cache) : \/ cache[r] = disk[r] \/ unsaved[r] # "none"
                           \/ job.op = "reserve" /\ r = from[job.run]

\* A host that is not there, or not ready, has nothing under way.
HostSound ==
  /\ host = "down" => job = Idle /\ cache = [r \in Run |-> NoFile]
  /\ host # "up" \/ job.op \in {"finish", "adopt"} \/ job.why = "recover" => Active = {}
  /\ job.op = "finish" <=> host = "opening"

\* The operation under way, by its stage and by what it was called for.
JobSound ==
  /\ job.op = "idle" => job = Idle
  /\ job.run <= used
  /\ job.op = "save" =>
       /\ job.why \in {"initial", "resume"} => job.run \notin history.recorded
       /\ job.run \in Active => job.state = "running"
  /\ job.op = "reserve" => job.run \notin history.recorded
  /\ job.op \in {"prune", "sweep", "commit", "start"} => job.run \in history.recorded
  /\ job.op \in {"prune", "sweep"} \/ (job.op = "receipt" /\ job.why # "receipt") =>
       cache[job.run] \in {NoFile, disk[job.run]}
  /\ job.op = "start" => job.why \in {"initial", "resume"}
  /\ job.op = "adopt" => job.why \in {"none", "recover"}
  /\ job.why \in {"initial", "resume"} =>
       /\ job.run \notin checked /\ job.state = "running"
       /\ job.op \in {"prune", "sweep", "commit", "start"} =>
            /\ disk[job.run] # NoFile /\ disk[job.run].state = "running"
            /\ cache[job.run] # NoFile /\ cache[job.run].state = "running"
  /\ job.why = "initial" => from[job.run] = None

\* A resume under way is the only one of its run.
ResumeUnderway ==
  job.why = "resume" =>
    /\ \A t \in history.started : from[t] = from[job.run] => from[t] \in history.reborn
    /\ job.op \in Underway => from[job.run] \notin Active
    /\ job.op \in Underway \ {"reserve"} => RecordSound(from[job.run], job.original)
    /\ job.op = "start" => Names(disk[from[job.run]], job.run) /\ Names(cache[from[job.run]], job.run)

\* What is reported as not saved is a run.
Reported == \A r \in Run : unsaved[r] # "none" => r <= used

IInv == /\ Targets /\ Created /\ Lineage /\ RecordsSound /\ SuccessorsNamed /\ LiveRecorded
        /\ Reported /\ Mirrored /\ HostSound /\ JobSound /\ ResumeUnderway
Inductive == TypeOK /\ IInv

\* There are never more files than the constructor accepts.
OpensAgain == host = "down" => WithinLimit
=============================================================================
