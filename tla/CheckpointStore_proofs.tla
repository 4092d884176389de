------------------------ MODULE CheckpointStore_proofs ------------------------
(***************************************************************************)
(* Proofs about the checkpoint store, for any number of runs and any       *)
(* limits.                                                                 *)
(***************************************************************************)
EXTENDS CheckpointStore, FiniteSetTheorems, TLAPS

USE StoreAssumption, NoFileAssumption

\* None is no run.
LEMMA NoRun == None \notin Run
  BY DEF None, Run

-----------------------------------------------------------------------------
(* Types.                                                                  *)

\* A record that is there is a checkpoint.
LEMMA Records ==
  ASSUME TypeOK, NEW r \in Run
  PROVE  /\ cache[r] \in File /\ (cache[r] # NoFile => cache[r] \in Checkpoint)
         /\ disk[r] \in File /\ (disk[r] # NoFile => disk[r] \in Checkpoint)
  BY DEF TypeOK, File

\* A record with the mark of delivery.
LEMMA Marked ==
  ASSUME NEW c \in Checkpoint
  PROVE  [c EXCEPT !.delivered = TRUE] \in Checkpoint
  BY DEF Checkpoint

\* A write puts a record in the place of one file, and history knows of it.
LEMMA Writing ==
  ASSUME TypeOK, NEW r \in Run, NEW c \in Checkpoint, Write(r, c)
  PROVE  /\ disk' \in [Run -> File] /\ history' \in History
         /\ \A x \in Run : disk'[x] = IF x = r THEN c ELSE disk[x]
         /\ history'.started = history.started
         /\ history'.recorded = history.recorded \cup {r}
         /\ history'.received = IF c.delivered THEN history.received \cup {r} ELSE history.received
         /\ history'.reborn = IF Afresh(r, c) THEN history.reborn \cup {r} ELSE history.reborn
<1>1. disk' \in [Run -> File] /\ \A x \in Run : disk'[x] = IF x = r THEN c ELSE disk[x]
  BY DEF TypeOK, File, Write
<1>2. CASE c.delivered
  BY <1>1, <1>2 DEF TypeOK, History, Write
<1>3. CASE ~c.delivered
  BY <1>1, <1>3 DEF TypeOK, History, Write
<1> QED
  BY <1>2, <1>3

\* A record is not afresh where the host has it, or where it names a successor.
LEMMA NotAfresh ==
  ASSUME TypeOK, NEW r \in Run, NEW c \in Checkpoint, Write(r, c),
         cache[r] # NoFile \/ c.resumedAs # None
  PROVE  history'.reborn = history.reborn
  BY Writing DEF Afresh

\* What save writes is a record.
LEMMA SnapshotIsRecord ==
  ASSUME TypeOK, NEW r \in Run, NEW state \in {"running", "ended"}
  PROVE  Snapshot(r, state) \in Checkpoint /\ Snapshot(r, state).state = state
  BY DEF TypeOK, File, Checkpoint, Snapshot

\* Every variable keeps its type, and an operation has in hand what it works on.
THEOREM TypeCorrect == Spec => [](TypeOK /\ Targets)
<1>1. Init => TypeOK /\ Targets
  BY DEF Init, TypeOK, Targets, File, Job, History, Idle, Ops, Reasons
<1>2. TypeOK /\ Targets /\ [Next]_vars => TypeOK' /\ Targets'
  <2> SUFFICES ASSUME TypeOK, Targets, [Next]_vars PROVE TypeOK' /\ Targets'
    OBVIOUS
  <2>1. CASE Save
    <3>1. job.run \in Run /\ job.state \in {"running", "ended"}
      BY <2>1 DEF TypeOK, Targets, Job, Save
    <3>2. Snapshot(job.run, job.state) \in Checkpoint
      BY <3>1, SnapshotIsRecord
    <3>3. disk' \in [Run -> File] /\ history' \in History
      BY <2>1, <3>1, <3>2, Writing DEF Save
    <3>4. cache' \in [Run -> File]
      BY <2>1, <3>1, <3>2 DEF TypeOK, File, Save
    <3>5. job' \in Job /\ Targets'
      BY <2>1 DEF TypeOK, Targets, Job, Ops, Underway, Save
    <3> QED
      BY <2>1, <3>3, <3>4, <3>5 DEF TypeOK, Save
  <2>2. CASE Prune
    <3> PICK v \in Ended : /\ disk' = [disk EXCEPT ![v] = NoFile]
                          /\ cache' = [cache EXCEPT ![v] = NoFile]
                          /\ job' = [job EXCEPT !.op = "sweep", !.victim = v]
      BY <2>2 DEF Prune
    <3>0. v \in Run
      BY DEF Ended, Stored
    <3>1. job' \in Job
      BY <2>2, <3>0 DEF TypeOK, Job, Ops
    <3>1a. Targets'
      BY <2>2, <3>0, NoRun DEF Targets, Underway, Prune
    <3> QED
      BY <2>2, <3>0, <3>1, <3>1a DEF TypeOK, File, Prune
  <2>3. CASE Sweep
    <3>1. job' \in Job /\ Targets'
      BY <2>3 DEF TypeOK, Targets, Job, Ops, Underway, Sweep
    <3> QED
      BY <2>3, <3>1 DEF TypeOK, Sweep
  <2>4. CASE Saved
    <3>1. job' \in Job /\ Targets'
      BY <2>4 DEF TypeOK, Targets, Job, Ops, Reasons, Underway, Idle, File, Saved
    <3> QED
      BY <2>4, <3>1 DEF TypeOK, Saved
  <2>5. CASE Receipt
    <3> DEFINE c == IF cache[job.run] = NoFile THEN NoFile ELSE [cache[job.run] EXCEPT !.delivered = TRUE]
    <3>1. job.run \in Run
      BY <2>5 DEF TypeOK, Targets, Job, Receipt
    <3>2. c \in File
      BY <3>1, Records, Marked DEF File
    <3>3. c # cache[job.run] => c \in Checkpoint
      BY <3>1, Records, Marked
    <3>4. disk' \in [Run -> File] /\ history' \in History
      <4>1. CASE c = cache[job.run]
        BY <2>5, <4>1 DEF TypeOK, Receipt
      <4>2. CASE c # cache[job.run]
        <5>1. Write(job.run, c)
          BY <2>5, <4>2 DEF Receipt
        <5> QED
          BY <3>1, <3>3, <4>2, <5>1, Writing
      <4> QED
        BY <4>1, <4>2
    <3>5. cache' \in [Run -> File]
      BY <2>5, <3>1, <3>2 DEF TypeOK, Receipt
    <3>6. job' \in Job /\ Targets'
      BY <2>5 DEF Targets, Job, Ops, Reasons, Idle, File, Receipt
    <3> HIDE DEF c
    <3> QED
      BY <2>5, <3>4, <3>5, <3>6 DEF TypeOK, Receipt
  <2>6. CASE Reserve
    <3>1. job.run \in Run /\ from[job.run] \in Run
      BY <2>6 DEF TypeOK, Targets, Job, Reserve
    <3>2. cache[from[job.run]] \in Checkpoint
      BY <2>6, <3>1, Records DEF Targets, Reserve
    <3>3. disk' \in [Run -> File] /\ history' \in History
      BY <2>6, <3>1, <3>2, Writing DEF Reserve
    <3>4. job' \in Job /\ Targets'
      BY <2>6, <3>1, <3>2 DEF TypeOK, Targets, Job, Ops, Underway, Reserve
    <3> QED
      BY <2>6, <3>3, <3>4 DEF TypeOK, Reserve
  <2>7. CASE Commit
    <3>1. job.run \in Run /\ from[job.run] \in Run /\ job.original \in Checkpoint
      BY <2>7 DEF TypeOK, Targets, Job, File, Commit
    <3>2. Committed \in Checkpoint
      BY <3>1 DEF Committed, Checkpoint
    <3>3. disk' \in [Run -> File] /\ history' \in History
      BY <2>7, <3>1, <3>2, Writing DEF Commit
    <3>4. cache' \in [Run -> File]
      BY <2>7, <3>1, <3>2 DEF TypeOK, File, Commit, CommitInCache
    <3>5. job' \in Job /\ Targets'
      BY <2>7 DEF TypeOK, Targets, Job, Ops, Commit
    <3> QED
      BY <2>7, <3>3, <3>4, <3>5 DEF TypeOK, Commit
  <2>8. CASE Start
    <3>1. job.run \in Run /\ Owner(job.run) \in Run
      BY <2>8 DEF TypeOK, Targets, Job, Start, Owner
    <3>2. live' \in [Run -> {"none", "running", "ended"}] /\ session' \in [Run -> {"none", "kept", "gone"}]
      BY <2>8, <3>1 DEF TypeOK, Start
    <3>3. history' \in History
      BY <2>8, <3>1 DEF TypeOK, History, Start
    <3>4. job' \in Job /\ Targets'
      BY <2>8 DEF Targets, Job, Ops, Reasons, Idle, File, Start
    <3> QED
      BY <2>8, <3>2, <3>3, <3>4 DEF TypeOK, Start
  <2>9. CASE Fail
    <3>1. job.run \in Run \cup {None} /\ job.state \in {"running", "ended"}
      BY DEF TypeOK, Job
    <3>2. cache' \in [Run -> File]
      <4>1. CASE job.op = "commit"
        <5>1. from[job.run] \in Run /\ job.original \in Checkpoint /\ job.run \in Run
          BY <4>1 DEF TypeOK, Targets, Job, File
        <5>2. Committed \in Checkpoint
          BY <5>1 DEF Committed, Checkpoint
        <5> QED
          BY <2>9, <4>1, <5>1, <5>2 DEF TypeOK, File, Fail, CommitInCache
      <4> QED
        BY <2>9, <4>1 DEF TypeOK, Fail
    <3>3. unsaved' \in [Run -> {"none", "running", "ended"}]
      BY <2>9, <3>1 DEF TypeOK, Fail
    <3>4. job' \in Job /\ Targets'
      BY <2>9 DEF Targets, Job, Ops, Reasons, Idle, File, Fail
    <3> QED
      BY <2>9, <3>2, <3>3, <3>4 DEF TypeOK, Fail
  <2>10. CASE Dispatch
    <3>0. used + 1 \in Run /\ used + 1 \in 0 .. N
      BY <2>10 DEF TypeOK, Run, Dispatch
    <3>1. job' \in Job
      BY <2>10, <3>0 DEF TypeOK, Job, Ops, Reasons, Dispatch, Saving
    <3>1a. Targets'
      BY <2>10, <3>0, NoRun DEF Targets, Dispatch, Saving
    <3> QED
      BY <2>10, <3>0, <3>1, <3>1a DEF TypeOK, Dispatch
  <2>11. CASE Open
    <3>1. job' \in Job /\ Targets'
      BY <2>11 DEF Targets, Job, Ops, Reasons, Idle, File, Open
    <3> QED
      BY <2>11, <3>1 DEF TypeOK, Open
  <2>12. CASE Finish
    <3>1. CASE Reserved = {}
      <4>1. Stored(cache) \subseteq Run
        BY DEF Stored
      <4>2. job' = [Idle EXCEPT !.op = "adopt", !.todo = Stored(cache)]
        BY <2>12, <3>1 DEF Finish
      <4>3. job' \in Job
        BY <4>1, <4>2 DEF Job, Ops, Reasons, Idle, File
      <4>4. Targets'
        BY <4>2 DEF Targets, Idle
      <4> QED
        BY <2>12, <3>1, <4>3, <4>4 DEF TypeOK, Finish
    <3>2. ASSUME NEW r \in Reserved, Write(r, Settled(cache[r])), cache' = [cache EXCEPT ![r] = Settled(cache[r])],
                 UNCHANGED job
          PROVE  TypeOK' /\ Targets'
      <4>a. r \in Run /\ cache[r] \in Checkpoint
        BY Records DEF Reserved, Stored
      <4>1. r \in Run /\ Settled(cache[r]) \in Checkpoint
        BY <4>a DEF Settled, Checkpoint
      <4>2. disk' \in [Run -> File] /\ history' \in History
        BY <3>2, <4>1, Writing
      <4> QED
        BY <2>12, <3>2, <4>1, <4>2 DEF TypeOK, Targets, File, Finish
    <3> QED
      BY <2>12, <3>1, <3>2 DEF Finish
  <2>13. CASE Adopt
    <3>1. ASSUME NEW r \in job.todo, cache[r] # NoFile, Write(r, [cache[r] EXCEPT !.delivered = TRUE]),
                 cache' = [cache EXCEPT ![r].delivered = TRUE], UNCHANGED job
          PROVE  TypeOK' /\ Targets'
      <4>1. r \in Run /\ [cache[r] EXCEPT !.delivered = TRUE] \in Checkpoint
        BY <3>1, Records, Marked DEF TypeOK, Job
      <4>2. disk' \in [Run -> File] /\ history' \in History
        BY <3>1, <4>1, Writing
      <4>3. cache' \in [Run -> File]
        BY <3>1, <4>1 DEF TypeOK, File
      <4> QED
        BY <2>13, <3>1, <4>2, <4>3 DEF TypeOK, Targets, Adopt
    <3>2. CASE UNCHANGED <<disk, cache, history>>
      <4>1. CASE job' = Idle
        <5>1. TypeOK' /\ Targets'
          BY <2>13, <3>2, <4>1 DEF TypeOK, Targets, Job, Ops, Reasons, Underway, Idle, File, Adopt
        <5> QED
          BY <5>1
      <4>2. ASSUME NEW r \in job.todo,
                   job' = IF cache[r] # NoFile /\ cache[r].state = "running"
                          THEN [job EXCEPT !.op = "save", !.run = r, !.state = "ended", !.why = "recover",
                                           !.todo = @ \ {r}]
                          ELSE [job EXCEPT !.todo = @ \ {r}]
            PROVE  TypeOK' /\ Targets'
        <5>1. r \in Run /\ job.todo \ {r} \in SUBSET Run
          BY DEF TypeOK, Job
        <5>2. job' \in Job
          BY <4>2, <5>1 DEF TypeOK, Job, Ops, Reasons
        <5>3. Targets'
          BY <2>13, <3>2, <4>2, <5>1, NoRun DEF TypeOK, Job, Targets, Underway, Adopt
        <5> QED
          BY <2>13, <3>2, <5>2, <5>3 DEF TypeOK, Adopt
      <4> QED
        BY <2>13, <3>1, <4>1, <4>2 DEF Adopt
    <3> QED
      BY <2>13, <3>1, <3>2 DEF Adopt
  <2>14. CASE Crash
    <3>1. job' \in Job /\ Targets'
      BY <2>14 DEF Targets, Job, Ops, Reasons, Idle, File, Crash
    <3> QED
      BY <2>14, <3>1 DEF TypeOK, File, Crash
  <2>15. ASSUME NEW r \in Run, Ask(r) PROVE TypeOK' /\ Targets'
    BY <2>15 DEF TypeOK, Targets, Ask
  <2>16. ASSUME NEW r \in Run, Resume(r) PROVE TypeOK' /\ Targets'
    <3>1. used + 1 \in Run /\ cache[r] \in Checkpoint
      BY <2>16 DEF TypeOK, File, Run, Resume, Admitted, Resumable
    <3>2. cache' \in [Run -> File] /\ from' \in [Run -> Run \cup {None}]
      BY <2>16, <3>1 DEF TypeOK, File, Checkpoint, Resume
    <3>3. job' \in Job
      BY <2>16, <3>1 DEF Job, File, Ops, Reasons, Idle, Resume
    <3>4. from'[used + 1] = r /\ cache'[r] # NoFile
      BY <2>16, <3>1, <3>2 DEF Resume, Checkpoint
    <3>5. Targets'
      BY <2>16, <3>1, <3>4, NoRun DEF Targets, Underway, Resume
    <3> QED
      BY <2>16, <3>1, <3>2, <3>3, <3>5 DEF TypeOK, Resume
  <2>17. ASSUME NEW r \in Run, Observe(r) PROVE TypeOK' /\ Targets'
    <3> PICK state \in {"running", "ended"} : live' = [live EXCEPT ![r] = state] /\ Saving(r, state, "lifecycle")
      BY <2>17 DEF Observe
    <3>1. job' \in Job
      BY <2>17 DEF TypeOK, Job, Ops, Reasons, Saving
    <3>1a. Targets'
      BY <2>17, NoRun DEF Targets, Saving
    <3> QED
      BY <2>17, <3>1, <3>1a DEF TypeOK, Observe
  <2>18. ASSUME NEW r \in Run, Deliver(r) PROVE TypeOK' /\ Targets'
    <3>1. job' \in Job /\ Targets'
      BY <2>18, NoRun DEF Targets, Job, Ops, Reasons, Idle, File, Deliver, Shown
    <3> QED
      BY <2>18, <3>1 DEF TypeOK, Deliver
  <2>19. ASSUME NEW r \in Run, Retry(r) PROVE TypeOK' /\ Targets'
    <3> DEFINE state == IF live[r] = "none" THEN unsaved[r] ELSE live[r]
    <3>1. state \in {"running", "ended"} /\ Saving(r, state, "lifecycle") /\ job.op = "idle"
      BY <2>19 DEF TypeOK, Retry, Free
    <3> HIDE DEF state
    <3>2. job' \in Job
      BY <3>1 DEF TypeOK, Job, Ops, Reasons, Saving
    <3>3. job'.op = "save" /\ job'.run = r /\ job'.why = "lifecycle"
      BY <3>1 DEF TypeOK, Job, Saving
    <3>4. Targets'
      BY <3>3, NoRun DEF Targets
    <3> QED
      BY <2>19, <3>2, <3>4 DEF TypeOK, Retry
  <2>20. CASE UNCHANGED vars
    BY <2>20 DEF TypeOK, Targets, vars
  <2>21. ASSUME NEW r \in Run, Refused(r) PROVE TypeOK' /\ Targets'
    BY <2>21 DEF TypeOK, Targets, Refused
  <2> QED
    BY <2>21, <2>1, <2>2, <2>3, <2>4, <2>5, <2>6, <2>7, <2>8, <2>9, <2>10, <2>11, <2>12, <2>13, <2>14, <2>15, <2>16, <2>17, <2>18, <2>19, <2>20 DEF Next
<1> QED
  BY <1>1, <1>2, PTL DEF Spec

-----------------------------------------------------------------------------
(* The invariant.                                                          *)

\* At first there is nothing.
LEMMA InitSafe == Init => IInv
<1> SUFFICES ASSUME Init PROVE IInv
  OBVIOUS
<1>1. Targets /\ JobSound /\ HostSound /\ ResumeUnderway
  BY DEF Init, Targets, JobSound, HostSound, ResumeUnderway, Active, Idle, None
<1>2. Created /\ Lineage /\ RecordsSound /\ SuccessorsNamed
  BY DEF Init, Created, Lineage, RecordsSound, RecordSound, SuccessorsNamed
<1>3. LiveRecorded /\ Reported /\ Mirrored
  BY DEF Init, LiveRecorded, Active, Reported, Mirrored
<1> QED
  BY <1>1, <1>2, <1>3 DEF IInv

\* Records, and the runs that they name, are safe where one record is replaced by
\* one that says no less.
LEMMA Replaced ==
  ASSUME TypeOK, IInv, host' # "down", host # "down",
         NEW r \in Run, NEW c \in Checkpoint, Write(r, c), r <= used,
         UNCHANGED <<from, used, checked, live>>,
         \A x \in Run : x # r => cache'[x] = cache[x],
         cache'[r] \in {c, NoFile},
         c.resumedAs # None => c.pending = None /\ c.resumedAs \in history.recorded,
         r \in history.received \ history'.reborn => c.delivered,
         \A s \in history.started : from[s] = r /\ r \notin history'.reborn => c.resumedAs = s,
         r \in Active => c.state = "running" /\ cache'[r] = c
  PROVE  Created' /\ Lineage' /\ RecordsSound' /\ SuccessorsNamed' /\ LiveRecorded'
<1>1. /\ \A x \in Run : disk'[x] = IF x = r THEN c ELSE disk[x]
      /\ history'.started = history.started
      /\ history'.recorded = history.recorded \cup {r}
      /\ history'.received = IF c.delivered THEN history.received \cup {r} ELSE history.received
      /\ history.reborn \subseteq history'.reborn
  <2>1. /\ \A x \in Run : disk'[x] = IF x = r THEN c ELSE disk[x]
        /\ history'.started = history.started
        /\ history'.recorded = history.recorded \cup {r}
        /\ history'.received = IF c.delivered THEN history.received \cup {r} ELSE history.received
        /\ history'.reborn = IF Afresh(r, c) THEN history.reborn \cup {r} ELSE history.reborn
    BY Writing, ZenonT(30)
  <2>2. history.reborn \subseteq history'.reborn
    BY <2>1
  <2> QED
    BY <2>1, <2>2
<1>2. c # NoFile /\ from \in [Run -> Run \cup {None}] /\ history.started \subseteq Run /\ history.recorded \subseteq Run
  BY DEF TypeOK, History
<1>3. Created'
  <2>1. \A x \in Run : x > used => x # r
    BY DEF TypeOK, Run
  <2> QED
    BY <1>1, <2>1 DEF IInv, Created
<1>4. Lineage'
  BY <1>1 DEF IInv, Lineage
<1>5. RecordsSound'
  <2>1. ASSUME NEW x \in Run PROVE RecordSound(x, disk[x])'
    BY <1>1 DEF IInv, RecordsSound, RecordSound
  <2>2. ASSUME NEW x \in Run PROVE RecordSound(x, cache[x])'
    BY <1>1 DEF IInv, RecordsSound, RecordSound
  <2> QED
    BY <2>1, <2>2 DEF RecordsSound
<1>6. SuccessorsNamed'
  BY <1>1, <1>2 DEF IInv, SuccessorsNamed, Names
<1>7. LiveRecorded'
  BY <1>1, <1>2 DEF IInv, LiveRecorded, Active
<1> QED
  BY <1>3, <1>4, <1>5, <1>6, <1>7

\* The same where no record changes.
LEMMA Kept ==
  ASSUME IInv, UNCHANGED <<disk, cache, history, from, host>>,
         used \in Nat, used' \in Nat, used <= used',
         checked' \subseteq history.recorded,
         \A x \in Run : live'[x] = "running" => live[x] = "running" /\ x \notin checked'
  PROVE  Created' /\ Lineage' /\ RecordsSound' /\ SuccessorsNamed' /\ LiveRecorded'
<1>1. Created'
  BY DEF IInv, Created, Run
<1>2. Lineage' /\ RecordsSound' /\ SuccessorsNamed'
  BY DEF IInv, Lineage, RecordsSound, RecordSound, SuccessorsNamed
<1>3. LiveRecorded'
  BY DEF IInv, LiveRecorded, Active
<1> QED
  BY <1>1, <1>2, <1>3

\* What is written is what the cache knew, so the record says no less than before.
LEMMA SaveSafe == ASSUME TypeOK, TypeOK', IInv, Targets', Save PROVE IInv'
<1> DEFINE c == Snapshot(job.run, job.state)
<1>1. job.run \in Run /\ job.run <= used /\ host \notin {"down", "opening"} /\ job.op = "save"
  BY DEF TypeOK, IInv, HostSound, JobSound, Idle, Save
<1>2. c \in Checkpoint /\ c.state = job.state /\ c # NoFile
  BY <1>1, SnapshotIsRecord DEF TypeOK, Job
<1>3. IF cache[job.run] = NoFile THEN c.resumedAs = None /\ c.pending = None /\ ~c.delivered
                                 ELSE c.resumedAs = cache[job.run].resumedAs /\ c.pending = cache[job.run].pending
                                      /\ c.delivered = cache[job.run].delivered
  BY <1>1 DEF Snapshot
<1>4. Write(job.run, c) /\ \A x \in Run : cache'[x] = IF x = job.run THEN c ELSE cache[x]
  BY <1>1 DEF TypeOK, Save
<1>5. UNCHANGED <<host, live, unsaved, from, used, checked>>
  BY DEF Save
<1>6. /\ \A x \in Run : disk'[x] = IF x = job.run THEN c ELSE disk[x]
      /\ history'.started = history.started
      /\ history'.recorded = history.recorded \cup {job.run}
      /\ history'.received = IF c.delivered THEN history.received \cup {job.run} ELSE history.received
      /\ history'.reborn = IF Afresh(job.run, c) THEN history.reborn \cup {job.run} ELSE history.reborn
  <2>1. job.run \in Run /\ c \in Checkpoint /\ Write(job.run, c)
    BY <1>1, <1>2, <1>4
  <2> HIDE DEF c
  <2> QED
    BY <2>1, Writing, ZenonT(60)
<1>7. job'.op = "prune" /\ job'.run = job.run /\ job'.state = job.state /\ job'.why = job.why /\ job'.original = job.original
  BY DEF Save
<1> HIDE DEF c
<1>8. Created' /\ Lineage' /\ RecordsSound' /\ SuccessorsNamed' /\ LiveRecorded'
  <2>1. c.resumedAs # None => c.pending = None /\ c.resumedAs \in history.recorded
    BY <1>1, <1>3 DEF IInv, RecordsSound, RecordSound
  <2>a. cache[job.run] = NoFile => job.run \notin history.recorded \/ job.run \in history'.reborn
    BY <1>3, <1>6 DEF Afresh
  <2>2. job.run \in history.received \ history'.reborn => c.delivered
    BY <1>1, <1>3, <1>6, <2>a DEF IInv, RecordsSound, RecordSound, Created
  <2>3. \A s \in history.started : from[s] = job.run /\ job.run \notin history'.reborn => c.resumedAs = s
    BY <1>1, <1>3, <1>6, <2>a, NoRun DEF TypeOK, History, IInv, SuccessorsNamed, Names, Lineage
  <2>4. job.run \in Active => c.state = "running"
    BY <1>1, <1>2 DEF IInv, JobSound
  <2> QED
    BY <1>1, <1>2, <1>4, <1>5, <2>1, <2>2, <2>3, <2>4, Replaced
<1>9. Reported'
  BY <1>5 DEF IInv, Reported
<1>10. Mirrored'
  BY <1>1, <1>2, <1>4, <1>5, <1>6, <1>7 DEF IInv, Stored, Mirrored
<1>11. HostSound'
  BY <1>1, <1>2, <1>4, <1>5, <1>6, <1>7 DEF IInv, Active, HostSound
<1>12. JobSound'
  BY <1>1, <1>2, <1>4, <1>5, <1>6, <1>7 DEF IInv, JobSound
<1>13. ResumeUnderway'
  <2>1. ASSUME job.why = "resume" PROVE from[job.run] \in Run /\ from[job.run] # job.run
    BY <1>1, <2>1 DEF TypeOK, IInv, Targets, Lineage
  <2> QED
    BY <1>1, <1>5, <1>6, <1>7, <2>1 DEF IInv, ResumeUnderway, RecordSound, Underway, Active
<1> QED
  BY <1>8, <1>9, <1>10, <1>11, <1>12, <1>13 DEF IInv

\* The record of an ended run goes, from both places at once.
LEMMA PruneSafe == ASSUME TypeOK, TypeOK', IInv, Targets', Prune PROVE IInv'
<1>1. PICK v \in Ended : /\ disk' = [disk EXCEPT ![v] = NoFile]
                         /\ cache' = [cache EXCEPT ![v] = NoFile]
                         /\ job' = [job EXCEPT !.op = "sweep", !.victim = v]
  BY DEF Prune
<1>2. v \in Run /\ cache[v] # NoFile /\ cache[v].state = "ended" /\ job.op = "prune"
  BY DEF Ended, Stored, Prune
<1>3. /\ \A x \in Run : disk'[x] = IF x = v THEN NoFile ELSE disk[x]
      /\ \A x \in Run : cache'[x] = IF x = v THEN NoFile ELSE cache[x]
  BY <1>1, <1>2 DEF TypeOK
<1>4. UNCHANGED <<host, live, unsaved, from, used, checked, history>>
  BY DEF Prune
<1>5. job'.op = "sweep" /\ job'.run = job.run /\ job'.state = job.state /\ job'.why = job.why /\ job'.original = job.original
  BY <1>1
<1>7. host = "up" /\ job.run \in Run
  BY <1>2 DEF TypeOK, Job, IInv, Targets, HostSound
<1>8. Created'
  BY <1>3, <1>4 DEF IInv, Created
<1>9. Lineage'
  BY <1>4 DEF IInv, Lineage
<1>10. RecordsSound'
  BY <1>3, <1>4 DEF IInv, RecordsSound, RecordSound
<1>11. SuccessorsNamed'
  BY <1>3, <1>4 DEF TypeOK, History, IInv, SuccessorsNamed, Names
<1>12. LiveRecorded'
  BY <1>2, <1>3, <1>4 DEF IInv, LiveRecorded, Active
<1>14. Reported'
  BY <1>4 DEF IInv, Reported
<1>15. Mirrored'
  BY <1>2, <1>3, <1>4, <1>5, <1>7 DEF IInv, Stored, Mirrored
<1>16. HostSound'
  BY <1>2, <1>3, <1>4, <1>5, <1>7 DEF IInv, Active, HostSound
<1>17. JobSound'
  BY <1>2, <1>3, <1>4, <1>5, <1>7 DEF IInv, JobSound
<1>18. ResumeUnderway'
  BY <1>2, <1>3, <1>4, <1>5, <1>7 DEF IInv, Active, RecordSound, Underway, ResumeUnderway
<1> QED
  BY <1>8, <1>9, <1>10, <1>11, <1>12, <1>14, <1>15, <1>16, <1>17, <1>18 DEF IInv

\* A session goes; no record does.
LEMMA SweepSafe == ASSUME TypeOK, TypeOK', IInv, Targets', Sweep PROVE IInv'
<1>1. UNCHANGED <<disk, cache, host, live, unsaved, from, used, checked, history>> /\ job.op = "sweep"
  BY DEF Sweep
<1>2. job'.op = "prune" /\ job'.run = job.run /\ job'.state = job.state /\ job'.why = job.why /\ job'.original = job.original
  BY DEF Sweep
<1>3. Created' /\ Lineage' /\ RecordsSound' /\ SuccessorsNamed' /\ LiveRecorded'
  BY <1>1, Kept DEF TypeOK, IInv, Created, LiveRecorded, Active
<1>4. Reported'
  BY <1>1 DEF IInv, Reported
<1>5. Mirrored'
  BY <1>1, <1>2 DEF IInv, Mirrored
<1>6. HostSound'
  BY <1>1, <1>2 DEF IInv, Idle, Active, HostSound
<1>7. JobSound'
  BY <1>1, <1>2 DEF IInv, JobSound
<1>8. ResumeUnderway'
  BY <1>1, <1>2 DEF IInv, Active, RecordSound, Underway, ResumeUnderway
<1> QED
  BY <1>3, <1>4, <1>5, <1>6, <1>7, <1>8 DEF IInv

\* The operation that the save was part of goes on.
LEMMA SavedSafe == ASSUME TypeOK, TypeOK', IInv, Targets', Saved PROVE IInv'
<1>1. UNCHANGED <<disk, cache, host, live, from, used, checked, history>> /\ job.op = "prune"
  BY DEF Saved
<1>2. \/ job' = Idle
      \/ /\ \/ job'.op = "receipt" /\ job.why \in {"initial", "lifecycle"}
            \/ job'.op = "start" /\ job.why = "initial"
            \/ job'.op = "commit" /\ job.why = "resume"
            \/ job'.op = "adopt" /\ job.why = "recover"
         /\ job'.run = job.run /\ job'.state = job.state /\ job'.why = job.why /\ job'.original = job.original
  BY DEF TypeOK, Job, Saved
<1>3. \A x \in Run : unsaved'[x] = unsaved[x] \/ (x = job.run /\ unsaved'[x] = "none")
  <2>1. unsaved' = unsaved \/ unsaved' = [unsaved EXCEPT ![job.run] = "none"]
    BY DEF Saved
  <2>2. unsaved \in [Run -> {"none", "running", "ended"}]
    BY DEF TypeOK
  <2>3. CASE unsaved' = [unsaved EXCEPT ![job.run] = "none"]
    BY <2>2, <2>3
  <2> QED
    BY <2>1, <2>3
<1>4. host = "up" /\ job.run \in Run
  BY <1>1 DEF TypeOK, Job, IInv, Targets, HostSound, Idle
<1>5. Created' /\ Lineage' /\ RecordsSound' /\ SuccessorsNamed' /\ LiveRecorded'
  BY <1>1, Kept DEF TypeOK, IInv, Created, LiveRecorded, Active
<1>6. Reported'
  BY <1>1, <1>3 DEF IInv, Reported
<1>7. Mirrored'
  BY <1>1, <1>2, <1>3, <1>4 DEF IInv, JobSound, Stored, Mirrored
<1>8. HostSound'
  BY <1>1, <1>2, <1>3, <1>4 DEF IInv, Idle, Active, HostSound
<1>9. JobSound'
  BY <1>1, <1>2, <1>4 DEF IInv, TypeOK, Idle, None, JobSound
<1>10. ResumeUnderway'
  BY <1>1, <1>2, <1>4 DEF IInv, Idle, Active, RecordSound, Underway, ResumeUnderway
<1> QED
  BY <1>5, <1>6, <1>7, <1>8, <1>9, <1>10 DEF IInv

\* A mark of delivery is added to the record.
LEMMA ReceiptSafe == ASSUME TypeOK, TypeOK', IInv, Targets', Receipt PROVE IInv'
<1> DEFINE r == job.run
           c == IF cache[r] = NoFile THEN NoFile ELSE [cache[r] EXCEPT !.delivered = TRUE]
<1>1. r \in Run /\ r <= used /\ host = "up" /\ job.op = "receipt"
  BY DEF TypeOK, IInv, HostSound, JobSound, Idle, Receipt
<1>2. IF cache[r] = NoFile THEN c = NoFile
      ELSE c \in Checkpoint /\ c # NoFile /\ c.delivered /\ c.state = cache[r].state
           /\ c.resumedAs = cache[r].resumedAs /\ c.pending = cache[r].pending
  BY <1>1, Records, Marked
<1>3. \A x \in Run : cache'[x] = IF x = r THEN c ELSE cache[x]
  BY <1>1 DEF TypeOK, Receipt
<1>4. IF c = cache[r] THEN UNCHANGED <<disk, history>> ELSE Write(r, c)
  BY DEF Receipt
<1>5. UNCHANGED <<host, live, from, used, checked>> /\ job' = Idle
  BY DEF Receipt
<1>6. \A x \in Run : unsaved'[x] = IF x = r /\ job.why # "receipt" THEN "none" ELSE unsaved[x]
  BY DEF TypeOK, Receipt
<1> HIDE DEF c
<1>7. \A x \in Run : disk'[x] = IF x = r /\ c # cache[r] THEN c ELSE disk[x]
  <2> HIDE DEF r
  <2>1. CASE c = cache[r]
    BY <1>4, <2>1
  <2>2. CASE c # cache[r]
    <3>1. r \in Run /\ c \in Checkpoint /\ Write(r, c)
      BY <1>1, <1>2, <1>4, <2>2
    <3> QED
      BY <2>2, <3>1, Writing, ZenonT(60)
  <2> QED
    BY <2>1, <2>2
<1>8. Created' /\ Lineage' /\ RecordsSound' /\ SuccessorsNamed' /\ LiveRecorded'
  <2>1. CASE c = cache[r]
    <3>1. cache' = cache /\ UNCHANGED <<disk, history>>
      BY <1>3, <1>4, <2>1 DEF TypeOK
    <3> QED
      BY <1>5, <3>1, Kept DEF TypeOK, IInv, Created, LiveRecorded, Active
  <2>2. CASE c # cache[r]
    <3>1. c \in Checkpoint /\ Write(r, c) /\ cache[r] # NoFile /\ cache'[r] = c
      BY <1>1, <1>2, <1>3, <1>4, <2>2
    <3>2. c.resumedAs # None => c.pending = None /\ c.resumedAs \in history.recorded
      BY <1>1, <1>2, <3>1 DEF IInv, RecordsSound, RecordSound
    <3>a. history.reborn \subseteq history'.reborn
      <4> HIDE DEF r
      <4> QED
        BY <1>1, <3>1, Writing
    <3>3. \A s \in history.started : from[s] = r /\ r \notin history'.reborn => c.resumedAs = s
      BY <1>1, <1>2, <3>1, <3>a, NoRun DEF IInv, SuccessorsNamed, Names
    <3>4. r \in Active => c.state = "running"
      BY <1>1, <1>2, <3>1 DEF IInv, LiveRecorded
    <3> QED
      BY <1>1, <1>2, <1>3, <1>5, <3>1, <3>2, <3>3, <3>4, Replaced
  <2> QED
    BY <2>1, <2>2
<1>9. Reported'
  BY <1>5, <1>6 DEF IInv, Reported
<1>10. Mirrored'
  BY <1>1, <1>2, <1>3, <1>5, <1>6, <1>7 DEF IInv, JobSound, Stored, Mirrored
<1>11. HostSound'
  BY <1>1, <1>2, <1>3, <1>5, <1>6, <1>7 DEF Idle, HostSound
<1>12. JobSound'
  BY <1>5 DEF TypeOK, Idle, None, JobSound
<1>13. ResumeUnderway'
  BY <1>5 DEF Idle, ResumeUnderway
<1> QED
  BY <1>8, <1>9, <1>10, <1>11, <1>12, <1>13 DEF IInv

\* The reservation reaches the file.
LEMMA ReserveSafe == ASSUME TypeOK, TypeOK', IInv, Targets', Reserve PROVE IInv'
<1> DEFINE r == from[job.run]
           c == cache[r]
<1>1. job.run \in Run /\ job.run <= used /\ host = "up" /\ job.op = "reserve" /\ job.why = "resume"
  BY DEF TypeOK, Job, IInv, Targets, HostSound, JobSound, Reserve
<1>2. r \in Run /\ r # job.run /\ c \in Checkpoint /\ c # NoFile /\ r \in history.recorded
  BY <1>1, Records DEF TypeOK, IInv, Targets, Lineage
<1>3. Write(r, c) /\ UNCHANGED <<cache, host, live, unsaved, from, used, checked>>
  BY DEF Reserve
<1>4. job'.op = "save" /\ job'.run = job.run /\ job'.state = job.state /\ job'.why = job.why /\ job'.original = c
  BY DEF Reserve
<1>5. /\ \A x \in Run : disk'[x] = IF x = r THEN c ELSE disk[x]
      /\ history'.started = history.started
      /\ history'.recorded = history.recorded \cup {r}
      /\ history'.received = IF c.delivered THEN history.received \cup {r} ELSE history.received
      /\ history'.reborn = history.reborn
  <2>1. cache[r] # NoFile
    BY <1>2
  <2> HIDE DEF r, c
  <2> QED
    BY <1>2, <1>3, <2>1, Writing, NotAfresh
<1>6. RecordSound(r, c) /\ r \notin Active /\ \A s \in history.started : from[s] = r => r \in history.reborn
  BY <1>1, <1>2 DEF IInv, RecordsSound, ResumeUnderway, Underway
<1>7. Created' /\ Lineage' /\ RecordsSound' /\ SuccessorsNamed' /\ LiveRecorded'
  <2>1. r <= used
    BY <1>2 DEF TypeOK, IInv, Created, Run
  <2>2. /\ c.resumedAs # None => c.pending = None /\ c.resumedAs \in history.recorded
        /\ r \in history.received \ history'.reborn => c.delivered
    BY <1>2, <1>5, <1>6 DEF RecordSound
  <2>3. cache'[r] = c
    BY <1>3
  <2> HIDE DEF c, r
  <2> QED
    BY <1>1, <1>2, <1>3, <1>5, <1>6, <2>1, <2>2, <2>3, Replaced
<1>8. Reported'
  BY <1>3 DEF IInv, Reported
<1>9. Mirrored'
  BY <1>1, <1>2, <1>3, <1>4, <1>5, <1>6 DEF IInv, Stored, Mirrored
<1>10. HostSound'
  BY <1>1, <1>2, <1>3, <1>4, <1>5, <1>6 DEF IInv, Active, HostSound
<1>11. JobSound'
  <2>1. cache[job.run] = NoFile /\ job.run \notin history.recorded /\ job.run \notin Active
    BY <1>1, <1>2 DEF IInv, JobSound, Created, LiveRecorded
  <2> QED
    BY <1>1, <1>2, <1>3, <1>4, <1>5, <2>1 DEF IInv, JobSound, Active
<1>12. ResumeUnderway'
  BY <1>1, <1>2, <1>3, <1>4, <1>5, <1>6 DEF IInv, Active, Names, RecordSound, Underway, ResumeUnderway
<1> QED
  BY <1>7, <1>8, <1>9, <1>10, <1>11, <1>12 DEF IInv

\* The successor is named in the file and in the host.
LEMMA CommitSafe == ASSUME TypeOK, TypeOK', IInv, Targets', Commit PROVE IInv'
<1> DEFINE r == from[job.run]
           c == Committed
<1>1. job.run \in Run /\ job.run <= used /\ host = "up" /\ job.op = "commit" /\ job.why = "resume" /\ job.original \in Checkpoint
  BY DEF TypeOK, Job, File, IInv, Targets, Underway, HostSound, JobSound, Idle, Commit
<1>2. r \in Run /\ r # job.run /\ r \in history.recorded
  BY <1>1, NoRun DEF TypeOK, IInv, Targets, Lineage
<1>3. c \in Checkpoint /\ c # NoFile /\ c.pending = None /\ c.resumedAs = job.run /\ c.state = job.original.state
      /\ c.delivered = job.original.delivered
  BY <1>1 DEF Committed, Checkpoint
<1>4. Write(r, c) /\ UNCHANGED <<host, live, unsaved, from, used, checked>>
  BY DEF Commit
<1>5. \A x \in Run : cache'[x] = IF x = r /\ cache[r] # NoFile THEN c ELSE cache[x]
  BY <1>2 DEF TypeOK, Commit, CommitInCache
<1>6. job'.op = "start" /\ job'.run = job.run /\ job'.state = job.state /\ job'.why = job.why /\ job'.original = job.original
  BY DEF TypeOK, Job, Commit
<1>7. /\ \A x \in Run : disk'[x] = IF x = r THEN c ELSE disk[x]
      /\ history'.started = history.started
      /\ history'.recorded = history.recorded \cup {r}
      /\ history'.received = IF c.delivered THEN history.received \cup {r} ELSE history.received
      /\ history'.reborn = history.reborn
  <2>1. r \in Run /\ c \in Checkpoint /\ Write(r, c) /\ c.resumedAs # None
    BY <1>1, <1>2, <1>3, <1>4, NoRun
  <2> HIDE DEF c, r
  <2> QED
    BY <2>1, Writing, NotAfresh
<1> HIDE DEF c
<1>8. RecordSound(r, job.original) /\ r \notin Active /\ job.run \in history.recorded
      /\ \A s \in history.started : from[s] = r => r \in history.reborn
  BY <1>1, <1>2 DEF IInv, ResumeUnderway, Underway, JobSound
<1>9. Created' /\ Lineage' /\ RecordsSound' /\ SuccessorsNamed' /\ LiveRecorded'
  <2>1. r <= used
    BY <1>2 DEF TypeOK, IInv, Created, Run
  <2>2. r \in history.received \ history'.reborn => c.delivered
    BY <1>1, <1>3, <1>7, <1>8 DEF RecordSound, Targets, IInv
  <2>3. cache'[r] \in {c, NoFile}
    BY <1>1, <1>2, <1>3, <1>5 DEF TypeOK
  <2> HIDE DEF r
  <2> QED
    BY <1>1, <1>2, <1>3, <1>4, <1>5, <1>7, <1>8, <2>1, <2>2, <2>3, Replaced
<1>10. Reported'
  BY <1>4 DEF IInv, Reported
<1>11. Mirrored'
  BY <1>1, <1>2, <1>3, <1>4, <1>5, <1>6, <1>7, <1>8 DEF IInv, Stored, Mirrored
<1>12. HostSound'
  BY <1>1, <1>2, <1>3, <1>4, <1>5, <1>6, <1>7, <1>8 DEF IInv, Active, HostSound
<1>13. JobSound'
  BY <1>1, <1>2, <1>3, <1>4, <1>5, <1>6, <1>7, <1>8 DEF IInv, Active, JobSound
<1>14. ResumeUnderway'
  BY <1>1, <1>2, <1>3, <1>4, <1>5, <1>6, <1>7, <1>8 DEF IInv, Active, Names, RecordSound, Underway, ResumeUnderway
<1> QED
  BY <1>9, <1>10, <1>11, <1>12, <1>13, <1>14 DEF IInv

\* The one successor of its run starts, or nobody does.
LEMMA StartSafe == ASSUME TypeOK, TypeOK', IInv, Targets', Start PROVE IInv'
<1>1. job.run \in Run /\ host = "up" /\ job.op = "start" /\ job.run \in history.recorded
  BY DEF TypeOK, Job, IInv, Targets, HostSound, JobSound, Idle, Start
<1>2. UNCHANGED <<disk, cache, host, unsaved, from, used, checked>> /\ job' = Idle
  BY DEF Start
<1>3. /\ \A x \in Run : live'[x] = live[x] \/ x = job.run
      /\ history'.recorded = history.recorded /\ history'.received = history.received
      /\ history'.reborn = history.reborn
      /\ history'.started \subseteq history.started \cup {job.run}
  BY DEF TypeOK, History, Start
<1>4. /\ disk[job.run] # NoFile /\ disk[job.run].state = "running"
      /\ cache[job.run] # NoFile /\ cache[job.run].state = "running"
      /\ job.run \notin checked
  BY <1>1 DEF IInv, JobSound
<1>5. from[job.run] # None =>
        /\ \A t \in history.started : from[t] = from[job.run] => from[t] \in history.reborn
        /\ Names(disk[from[job.run]], job.run) /\ Names(cache[from[job.run]], job.run)
  BY <1>1 DEF IInv, JobSound, ResumeUnderway
<1>6. Created'
  BY <1>1, <1>2, <1>3 DEF IInv, Created
<1>7. Lineage'
  BY <1>2, <1>3 DEF IInv, Lineage
<1>8. RecordsSound'
  BY <1>2, <1>3 DEF IInv, RecordsSound, RecordSound
<1>9. SuccessorsNamed'
  BY <1>2, <1>3, <1>5 DEF IInv, SuccessorsNamed, Names
<1>10. LiveRecorded'
  BY <1>2, <1>3, <1>4 DEF IInv, LiveRecorded, Active
<1>12. Reported'
  BY <1>2 DEF IInv, Reported
<1>13. Mirrored'
  BY <1>1, <1>2 DEF IInv, Stored, Mirrored
<1>14. HostSound'
  BY <1>1, <1>2 DEF IInv, Idle, Active, HostSound
<1>15. JobSound'
  BY <1>2 DEF IInv, TypeOK, Idle, None, Active, JobSound
<1>16. ResumeUnderway'
  BY <1>2 DEF IInv, Idle, Active, Names, RecordSound, Underway, ResumeUnderway
<1> QED
  BY <1>6, <1>7, <1>8, <1>9, <1>10, <1>12, <1>13, <1>14, <1>15, <1>16 DEF IInv

\* What failed to be written, or to be pruned, is reported.
LEMMA FailSafe == ASSUME TypeOK, TypeOK', IInv, Targets', Fail PROVE IInv'
<1>2. job.op \in {"save", "prune", "reserve", "commit", "receipt"}
  BY DEF Fail, Failing
<1>3. job.run \in Run /\ job.run <= used /\ host = "up"
  BY <1>2 DEF TypeOK, Job, IInv, Targets, HostSound, JobSound, Idle
<1>4. UNCHANGED <<disk, host, live, from, used, checked, history>> /\ job' = Idle
  BY DEF Fail
<1>5. job.why = "resume" => from[job.run] \in Run /\ from[job.run] <= used
  <2>1. job.why = "resume" => from[job.run] \in Run /\ from[job.run] \in history.recorded
    BY <1>3 DEF TypeOK, IInv, Targets, Lineage
  <2> QED
    BY <2>1 DEF TypeOK, Run, IInv, Created
<1>6. \A x \in Run : \/ unsaved'[x] = unsaved[x]
                     \/ unsaved'[x] # "none" /\ x = job.run
                     \/ unsaved'[x] # "none" /\ job.why = "resume" /\ x = from[job.run]
  BY DEF TypeOK, Job, Fail
<1>7. job.why = "resume" => unsaved'[from[job.run]] # "none"
  BY <1>5 DEF TypeOK, Fail
<1>8. \A x \in Run : \/ cache'[x] = cache[x]
                     \/ /\ job.op = "commit" /\ job.why = "resume" /\ x = from[job.run]
                        /\ cache[x] # NoFile /\ cache'[x] # NoFile
                        /\ x \notin Active /\ RecordSound(x, cache'[x])
                        /\ \A s \in history.started : from[s] = x => x \in history.reborn
  <2>1. CASE job.op = "commit"
    <3>1. job.why = "resume" /\ job.original \in Checkpoint
      BY <2>1 DEF TypeOK, Job, File, IInv, Targets, Underway
    <3>2. Committed \in Checkpoint /\ Committed.resumedAs = job.run /\ Committed.pending = None
          /\ Committed.delivered = job.original.delivered
      BY <1>3, <3>1 DEF Committed, Checkpoint
    <3>3. RecordSound(from[job.run], job.original) /\ from[job.run] \notin Active /\ job.run \in history.recorded
          /\ \A s \in history.started : from[s] = from[job.run] => from[s] \in history.reborn
      BY <2>1, <3>1 DEF IInv, ResumeUnderway, Underway, JobSound
    <3>4. RecordSound(from[job.run], Committed)
      BY <3>1, <3>2, <3>3 DEF RecordSound
    <3>5. Committed # NoFile
      BY <3>2
    <3>6. \A x \in Run : cache'[x] = IF x = from[job.run] /\ cache[x] # NoFile THEN Committed ELSE cache[x]
      BY <2>1 DEF TypeOK, Fail, CommitInCache
    <3> HIDE DEF Committed
    <3> QED
      BY <2>1, <3>1, <3>3, <3>4, <3>5, <3>6
  <2>2. CASE job.op # "commit"
    BY <2>2 DEF Fail
  <2> QED
    BY <2>1, <2>2
<1>9. Created'
  BY <1>4, <1>8 DEF IInv, Created
<1>10. Lineage'
  BY <1>4 DEF IInv, Lineage
<1>11. RecordsSound'
  BY <1>4, <1>8 DEF IInv, RecordsSound, RecordSound
<1>12. SuccessorsNamed'
  BY <1>4, <1>8 DEF TypeOK, History, IInv, SuccessorsNamed, Names
<1>13. LiveRecorded'
  BY <1>4, <1>8 DEF IInv, LiveRecorded, Active
<1>15. Reported'
  BY <1>3, <1>4, <1>5, <1>6 DEF IInv, Reported
<1>16. Mirrored'
  BY <1>3, <1>4, <1>6, <1>7, <1>8 DEF IInv, Idle, Targets, Stored, Mirrored
<1>17. HostSound'
  BY <1>3, <1>4 DEF IInv, Idle, Active, HostSound
<1>18. JobSound'
  BY <1>4 DEF IInv, TypeOK, Idle, None, Active, JobSound
<1>19. ResumeUnderway'
  BY <1>4 DEF IInv, Idle, Active, Names, RecordSound, Underway, ResumeUnderway
<1> QED
  BY <1>9, <1>10, <1>11, <1>12, <1>13, <1>15, <1>16, <1>17, <1>18, <1>19 DEF IInv

\* The run that is created has not been seen before.
LEMMA DispatchSafe == ASSUME TypeOK, TypeOK', IInv, Targets', Dispatch PROVE IInv'
<1>1. /\ used \in Nat /\ used + 1 \in Run /\ used + 1 \notin history.recorded /\ from[used + 1] = None
      /\ cache[used + 1] = NoFile /\ disk[used + 1] = NoFile /\ used' = used + 1
  BY DEF TypeOK, IInv, Created, Run, Dispatch
<1>2. host = "up" /\ job.op = "idle" /\ UNCHANGED <<disk, cache, host, live, unsaved, from, checked, history>>
  BY DEF Dispatch, Free
<1>3. job'.op = "save" /\ job'.run = used + 1 /\ job'.state = "running" /\ job'.why = "initial"
  BY DEF TypeOK, Job, Dispatch, Saving
<1>4. used + 1 \notin Active /\ used + 1 \notin checked
  BY <1>1 DEF IInv, Created, LiveRecorded
<1>5. Created' /\ Lineage' /\ RecordsSound' /\ SuccessorsNamed' /\ LiveRecorded'
  BY <1>1, <1>2, Kept DEF TypeOK, IInv, Created, LiveRecorded, Active
<1>6. Reported'
  BY <1>1, <1>2 DEF IInv, Run, Reported
<1>7. Mirrored'
  BY <1>1, <1>2, <1>3, <1>4 DEF IInv, Stored, Mirrored
<1>8. HostSound'
  BY <1>1, <1>2, <1>3, <1>4 DEF IInv, Active, HostSound
<1>9. JobSound'
  BY <1>1, <1>2, <1>3, <1>4 DEF IInv, Active, JobSound
<1>10. ResumeUnderway'
  BY <1>1, <1>2, <1>3, <1>4 DEF IInv, Active, Names, RecordSound, Underway, ResumeUnderway
<1> QED
  BY <1>5, <1>6, <1>7, <1>8, <1>9, <1>10 DEF IInv

\* The host learns what the files say, and nobody works.
LEMMA OpenSafe == ASSUME TypeOK, TypeOK', IInv, Targets', Open PROVE IInv'
<1>1. host = "down" /\ host' = "opening" /\ cache' = disk /\ job'.op = "finish" /\ job'.why = "none" /\ job'.run = None
  BY DEF Open, Idle
<1>2. UNCHANGED <<disk, live, unsaved, from, used, checked, history>>
  BY DEF Open
<1>3. Created'
  BY <1>1, <1>2 DEF IInv, Created
<1>4. Lineage'
  BY <1>2 DEF IInv, Lineage
<1>5. RecordsSound'
  BY <1>1, <1>2 DEF IInv, RecordsSound, RecordSound
<1>6. SuccessorsNamed'
  BY <1>1, <1>2 DEF IInv, SuccessorsNamed, Names
<1>7. LiveRecorded'
  BY <1>1, <1>2 DEF IInv, LiveRecorded, HostSound, Active
<1>9. Reported'
  BY <1>1, <1>2 DEF IInv, Reported
<1>10. Mirrored'
  BY <1>1, <1>2 DEF IInv, Stored, Mirrored
<1>11. HostSound'
  BY <1>1, <1>2 DEF IInv, Active, HostSound
<1>12. JobSound'
  BY <1>1 DEF IInv, TypeOK, None, Active, JobSound
<1>13. ResumeUnderway'
  BY <1>1, <1>2 DEF IInv, Active, Names, RecordSound, Underway, ResumeUnderway
<1> QED
  BY <1>3, <1>4, <1>5, <1>6, <1>7, <1>9, <1>10, <1>11, <1>12, <1>13 DEF IInv

\* An interrupted reservation ends one way or the other.
LEMMA FinishSafe == ASSUME TypeOK, TypeOK', IInv, Targets', Finish PROVE IInv'
<1>1. host = "opening" /\ job.op = "finish" /\ Active = {}
  BY DEF IInv, HostSound, Finish
<1>2. UNCHANGED <<live, unsaved, from, used, checked>>
  BY DEF Finish
<1>3. ASSUME NEW r \in Reserved, Write(r, Settled(cache[r])), cache' = [cache EXCEPT ![r] = Settled(cache[r])],
             UNCHANGED <<host, job>>
      PROVE  IInv'
  <2> DEFINE c == Settled(cache[r])
  <2>1. r \in Run /\ cache[r] \in Checkpoint /\ cache[r] # NoFile /\ cache[r].pending # None
    BY Records DEF Reserved, Stored
  <2>2. cache[r].pending \in Run /\ cache[r].resumedAs = None /\ r \in history.recorded /\ r <= used
    <3>1. cache[r].pending \in Run /\ cache[r].resumedAs = None
      BY <2>1 DEF Checkpoint, IInv, RecordsSound, RecordSound
    <3>2. r \in history.recorded /\ r <= used
      BY <2>1 DEF TypeOK, Run, IInv, Created
    <3> QED
      BY <3>1, <3>2
  <2>3. c \in Checkpoint /\ c.pending = None /\ c.delivered = cache[r].delivered /\ c # NoFile
        /\ (c.resumedAs # None => cache[c.resumedAs] # NoFile /\ c.resumedAs \in Run)
    BY <2>1, <2>2 DEF Settled, Checkpoint
  <2> HIDE DEF c
  <2>4. \A x \in Run : cache'[x] = IF x = r THEN c ELSE cache[x]
    BY <1>3, <2>1 DEF TypeOK, c
  <2>5. Write(r, c)
    BY <1>3 DEF c
  <2>6. c.resumedAs # None => c.resumedAs \in history.recorded
    BY <2>3 DEF IInv, Created
  <2>a. history'.reborn = history.reborn
    BY <2>1, <2>3, <2>5, NotAfresh
  <2>7. r \in history.received \ history'.reborn => c.delivered
    BY <2>1, <2>3, <2>a DEF IInv, RecordsSound, RecordSound
  <2>8. \A s \in history.started : from[s] = r => r \in history.reborn
    BY <2>1, <2>2, NoRun DEF TypeOK, History, IInv, SuccessorsNamed, Names
  <2>9. Created' /\ Lineage' /\ RecordsSound' /\ SuccessorsNamed' /\ LiveRecorded'
    BY <1>1, <1>2, <1>3, <2>1, <2>2, <2>3, <2>4, <2>5, <2>6, <2>7, <2>8, <2>a, Replaced
  <2>10. \A x \in Run : disk'[x] = IF x = r THEN c ELSE disk[x]
    BY <2>1, <2>3, <2>5, Writing
  <2>11. Mirrored'
    BY <1>1, <1>2, <1>3, <2>1, <2>4, <2>10 DEF IInv, Mirrored, Stored
  <2>12. Reported' /\ HostSound' /\ ResumeUnderway'
    BY <1>1, <1>2, <1>3 DEF IInv, Reported, HostSound, Active, ResumeUnderway, Targets, Underway
  <2>13. JobSound'
    BY <1>1, <1>2, <1>3 DEF IInv, JobSound, Targets, HostSound
  <2> QED
    BY <2>9, <2>11, <2>12, <2>13 DEF IInv
<1>4. ASSUME host' = "up", job' = [Idle EXCEPT !.op = "adopt", !.todo = Stored(cache)], UNCHANGED <<disk, cache, history>>
      PROVE  IInv'
  <2>1. job'.op = "adopt" /\ job'.why = "none" /\ job'.run = None
    BY <1>4 DEF Idle
  <2>2. Created' /\ Lineage' /\ RecordsSound' /\ SuccessorsNamed'
    BY <1>2, <1>4 DEF IInv, Created, Lineage, RecordsSound, RecordSound, SuccessorsNamed, Names
  <2>3. LiveRecorded' /\ Reported'
    BY <1>1, <1>2, <1>4 DEF IInv, LiveRecorded, Active, Reported
  <2>4. Mirrored'
    BY <1>1, <1>2, <1>4 DEF IInv, Mirrored, Stored
  <2>5. HostSound' /\ ResumeUnderway'
    BY <1>1, <1>2, <1>4, <2>1 DEF HostSound, Active, ResumeUnderway
  <2>6. JobSound'
    BY <2>1 DEF TypeOK, None, JobSound
  <2> QED
    BY <2>2, <2>3, <2>4, <2>5, <2>6 DEF IInv
<1> QED
  BY <1>3, <1>4 DEF Finish

\* Nobody works while a host takes over.
LEMMA AdoptSafe == ASSUME TypeOK, TypeOK', IInv, Targets', Adopt PROVE IInv'
<1>1. job.op = "adopt" /\ host = "up" /\ Active = {} /\ job.why \in {"none", "recover"}
  <2>1. job.op = "adopt" /\ host \in {"down", "opening", "up"}
    BY DEF TypeOK, Adopt
  <2>2. host = "up" /\ Active = {}
    BY <2>1 DEF IInv, HostSound, Idle
  <2>3. job.why \in {"none", "recover"}
    BY <2>1 DEF IInv, JobSound
  <2> QED
    BY <2>1, <2>2, <2>3
<1>2. UNCHANGED <<host, live, unsaved, from, used, checked>>
  BY DEF Adopt
<1>3. ASSUME NEW r \in job.todo, cache[r] # NoFile, Write(r, [cache[r] EXCEPT !.delivered = TRUE]),
             cache' = [cache EXCEPT ![r].delivered = TRUE], UNCHANGED job
      PROVE  IInv'
  <2> DEFINE c == [cache[r] EXCEPT !.delivered = TRUE]
  <2>1. r \in Run /\ cache[r] \in Checkpoint
    BY <1>3, Records DEF TypeOK, Job
  <2>2. c \in Checkpoint /\ c # NoFile /\ c.delivered /\ c.resumedAs = cache[r].resumedAs /\ c.pending = cache[r].pending
    BY <2>1, Marked DEF Checkpoint
  <2>3. Write(r, c) /\ \A x \in Run : cache'[x] = IF x = r THEN c ELSE cache[x]
    BY <1>3, <2>1 DEF TypeOK
  <2> HIDE DEF c
  <2>4. r \in history.recorded /\ r <= used
    BY <1>3, <2>1 DEF TypeOK, Run, IInv, Created
  <2>5. c.resumedAs # None => c.pending = None /\ c.resumedAs \in history.recorded
    BY <1>3, <2>1, <2>2 DEF IInv, RecordsSound, RecordSound
  <2>a. history'.reborn = history.reborn
    BY <1>3, <2>1, <2>2, <2>3, NotAfresh
  <2>6. \A s \in history.started : from[s] = r /\ r \notin history'.reborn => c.resumedAs = s
    BY <1>3, <2>1, <2>2, <2>a, NoRun DEF TypeOK, History, IInv, SuccessorsNamed, Names
  <2>7. Created' /\ Lineage' /\ RecordsSound' /\ SuccessorsNamed' /\ LiveRecorded'
    BY <1>1, <1>2, <2>1, <2>2, <2>3, <2>4, <2>5, <2>6, Replaced
  <2>8. \A x \in Run : disk'[x] = IF x = r THEN c ELSE disk[x]
    BY <2>1, <2>2, <2>3, Writing
  <2>9. Mirrored'
    <3>1. \A x \in Run \ {r} : cache'[x] = cache[x] /\ disk'[x] = disk[x]
      BY <2>3, <2>8
    <3>2. cache'[r] = disk'[r]
      BY <2>1, <2>3, <2>8
    <3>3. job'.op # "reserve" /\ job.op # "reserve" /\ unsaved' = unsaved
      BY <1>1, <1>2, <1>3
    <3> QED
      BY <3>1, <3>2, <3>3 DEF IInv, Mirrored, Stored
  <2>10. Reported' /\ HostSound' /\ ResumeUnderway'
    BY <1>1, <1>2, <1>3 DEF IInv, Reported, HostSound, Active, ResumeUnderway
  <2>11. JobSound'
    BY <1>1, <1>2, <1>3 DEF IInv, JobSound
  <2> QED
    BY <2>7, <2>9, <2>10, <2>11 DEF IInv
<1>4. ASSUME UNCHANGED <<disk, cache, history>>,
             \/ job' = Idle
             \/ \E r \in job.todo :
                  \/ job' = [job EXCEPT !.todo = @ \ {r}]
                  \/ /\ cache[r] # NoFile
                     /\ job' = [job EXCEPT !.op = "save", !.run = r, !.state = "ended", !.why = "recover", !.todo = @ \ {r}]
      PROVE  IInv'
  <2>0. UNCHANGED <<disk, cache, history>>
    BY <1>4
  <2>1. Created' /\ Lineage' /\ RecordsSound' /\ SuccessorsNamed' /\ LiveRecorded'
    BY <1>2, <2>0, Kept DEF TypeOK, IInv, Created, LiveRecorded, Active
  <2>2. Reported'
    BY <1>2 DEF IInv, Reported
  <2>3. \/ job' = Idle
        \/ job'.op = job.op /\ job'.run = job.run /\ job'.why = job.why /\ job'.state = job.state
        \/ /\ job'.op = "save" /\ job'.run \in Run /\ job'.why = "recover" /\ cache[job'.run] # NoFile
    <3>1. ASSUME NEW r \in job.todo, job' = [job EXCEPT !.todo = @ \ {r}]
          PROVE  job'.op = job.op /\ job'.run = job.run /\ job'.why = job.why /\ job'.state = job.state
      BY <3>1 DEF TypeOK, Job
    <3>2. ASSUME NEW r \in job.todo, cache[r] # NoFile,
                 job' = [job EXCEPT !.op = "save", !.run = r, !.state = "ended", !.why = "recover", !.todo = @ \ {r}]
          PROVE  job'.op = "save" /\ job'.run \in Run /\ job'.why = "recover" /\ cache[job'.run] # NoFile
      BY <3>2 DEF TypeOK, Job
    <3> QED
      BY <1>4, <3>1, <3>2
  <2>4. Mirrored'
    BY <1>1, <1>2, <1>4 DEF IInv, Mirrored, Stored
  <2>5. HostSound'
    BY <1>1, <1>2, <2>3 DEF HostSound, Active, Idle
  <2>6. ResumeUnderway'
    BY <1>1, <2>3 DEF ResumeUnderway, Idle
  <2>7. JobSound'
    <3>1. CASE job' = Idle
      BY <1>2, <3>1 DEF TypeOK, Idle, None, JobSound
    <3>2. CASE job'.op = job.op /\ job'.run = job.run /\ job'.why = job.why /\ job'.state = job.state
      BY <1>1, <1>2, <3>2 DEF IInv, JobSound
    <3>3. CASE job'.op = "save" /\ job'.run \in Run /\ job'.why = "recover" /\ cache[job'.run] # NoFile
      <4>1. job'.run <= used
        BY <3>3 DEF TypeOK, Run, IInv, Created
      <4> QED
        BY <1>1, <1>2, <2>0, <3>3, <4>1 DEF JobSound, Active
    <3> QED
      BY <2>3, <3>1, <3>2, <3>3
  <2> QED
    BY <2>1, <2>2, <2>4, <2>5, <2>6, <2>7 DEF IInv
<1> QED
  BY <1>3, <1>4 DEF Adopt

\* All that is left is on disk.
LEMMA CrashSafe == ASSUME TypeOK, TypeOK', IInv, Targets', Crash PROVE IInv'
<1>1. host' = "down" /\ job' = Idle /\ cache' = [x \in Run |-> NoFile] /\ checked' = {} /\ Active' = {}
      /\ unsaved' = [x \in Run |-> "none"] /\ UNCHANGED <<disk, from, used, history>>
  BY DEF Crash, Active
<1>2. Created'
  BY <1>1 DEF IInv, Created
<1>3. Lineage'
  BY <1>1 DEF IInv, Lineage
<1>4. RecordsSound'
  BY <1>1 DEF IInv, RecordsSound, RecordSound
<1>5. SuccessorsNamed'
  <2>1. history.started \subseteq Run /\ from \in [Run -> Run \cup {None}]
    BY DEF TypeOK, History
  <2> QED
    BY <1>1, <2>1 DEF IInv, SuccessorsNamed, Names
<1>6. LiveRecorded'
  BY <1>1 DEF LiveRecorded
<1>8. Reported'
  BY <1>1 DEF IInv, Reported
<1>9. Mirrored'
  BY <1>1 DEF IInv, Stored, Mirrored
<1>10. HostSound'
  BY <1>1 DEF HostSound, Idle
<1>11. JobSound'
  BY <1>1 DEF IInv, TypeOK, Idle, None, Active, JobSound
<1>12. ResumeUnderway'
  BY <1>1 DEF IInv, Idle, Active, Names, RecordSound, Underway, ResumeUnderway
<1> QED
  BY <1>2, <1>3, <1>4, <1>5, <1>6, <1>8, <1>9, <1>10, <1>11, <1>12 DEF IInv

\* A run is looked at, and is not at work.
LEMMA AskSafe == ASSUME TypeOK, TypeOK', IInv, Targets', NEW r \in Run, Ask(r) PROVE IInv'
<1>1. UNCHANGED <<disk, cache, host, job, live, unsaved, from, used, history>> /\ checked' = checked \cup {r}
      /\ job.op = "idle" /\ cache[r] # NoFile /\ live[r] # "running"
  BY DEF Ask, Free, Resumable, Shown
<1>2. job = Idle /\ checked' \subseteq history.recorded
  BY <1>1 DEF IInv, JobSound, Created
<1>3. Created' /\ Lineage' /\ RecordsSound' /\ SuccessorsNamed' /\ LiveRecorded'
  BY <1>1, <1>2, Kept DEF TypeOK, IInv, Created, LiveRecorded, Active
<1>4. Reported'
  BY <1>1, <1>2 DEF IInv, Reported
<1>5. Mirrored'
  BY <1>1, <1>2 DEF IInv, Stored, Mirrored
<1>6. HostSound'
  BY <1>1 DEF IInv, Active, HostSound
<1>7. JobSound'
  BY <1>1, <1>2 DEF IInv, TypeOK, Idle, None, Active, JobSound
<1>8. ResumeUnderway'
  BY <1>1, <1>2 DEF IInv, Idle, Active, Names, RecordSound, Underway, ResumeUnderway
<1> QED
  BY <1>3, <1>4, <1>5, <1>6, <1>7, <1>8 DEF IInv

\* The successor that is created has not been seen before.
LEMMA ResumeSafe == ASSUME TypeOK, TypeOK', IInv, Targets', NEW r \in Run, Resume(r) PROVE IInv'
<1>1. used \in Nat /\ used + 1 \in Run /\ used + 1 \notin history.recorded /\ cache[used + 1] = NoFile /\ used' = used + 1
  BY DEF TypeOK, IInv, Created, Run, Resume
<1>2. UNCHANGED <<disk, host, live, unsaved, checked, history>> /\ host = "up" /\ job.op = "idle"
      /\ r \in checked /\ cache[r] # NoFile /\ cache[r].resumedAs = None /\ from[r] = None
  BY DEF Resume, Admitted, Resumable, Free
<1>3. r # used + 1 /\ r \in history.recorded /\ r \notin Active /\ used + 1 \notin checked /\ used + 1 \notin Active
  BY <1>1, <1>2 DEF IInv, Created, LiveRecorded
<1>4. \A x \in Run : from'[x] = IF x = used + 1 THEN r ELSE from[x]
  BY <1>1 DEF TypeOK, Resume
<1>5. \A x \in Run : x # r => cache'[x] = cache[x]
  BY DEF TypeOK, Resume
<1>6. cache'[r] # NoFile /\ cache'[r].resumedAs = None /\ cache'[r].delivered = cache[r].delivered
  <2>1. cache[r] \in Checkpoint
    BY <1>2, Records
  <2>2. cache'[r] = [cache[r] EXCEPT !.pending = used + 1]
    BY DEF TypeOK, Resume
  <2>3. [cache[r] EXCEPT !.pending = used + 1] \in Checkpoint
    BY <1>1, <2>1 DEF Checkpoint
  <2> QED
    BY <1>2, <2>1, <2>2, <2>3 DEF Checkpoint
<1>7. job'.op = "reserve" /\ job'.run = used + 1 /\ job'.state = "running" /\ job'.why = "resume"
  BY DEF Resume, Idle
<1>8. history.started \subseteq history.recorded /\ history.recorded \subseteq Run
  BY DEF TypeOK, History, IInv, Created
<1>9. \A s \in history.started : from[s] = r => r \in history.reborn
  BY <1>2, <1>8, NoRun DEF TypeOK, IInv, SuccessorsNamed, Names
<1>10. Created'
  BY <1>1, <1>2, <1>4, <1>5, <1>8 DEF IInv, Created, Run
<1>11. Lineage'
  BY <1>1, <1>2, <1>3, <1>4, <1>8 DEF TypeOK, IInv, Lineage
<1>12. RecordsSound'
  BY <1>2, <1>5, <1>6 DEF IInv, RecordsSound, RecordSound
<1>13. SuccessorsNamed'
  BY <1>1, <1>2, <1>4, <1>5, <1>8, <1>9 DEF TypeOK, IInv, SuccessorsNamed, Names
<1>14. LiveRecorded'
  BY <1>2, <1>3, <1>5 DEF IInv, LiveRecorded, Active
<1>16. Reported'
  BY <1>1, <1>2 DEF IInv, Run, Reported
<1>17. Mirrored'
  BY <1>1, <1>2, <1>3, <1>4, <1>5, <1>6, <1>7, <1>8, <1>9 DEF IInv, Stored, Mirrored
<1>18. HostSound'
  BY <1>2, <1>7 DEF IInv, Active, HostSound
<1>19. JobSound'
  BY <1>1, <1>2, <1>3, <1>4, <1>5, <1>6, <1>7, <1>8, <1>9 DEF IInv, Active, JobSound
<1>20. ResumeUnderway'
  BY <1>1, <1>2, <1>3, <1>4, <1>5, <1>6, <1>7, <1>8, <1>9 DEF IInv, Active, Names, RecordSound, Underway, ResumeUnderway
<1> QED
  BY <1>10, <1>11, <1>12, <1>13, <1>14, <1>16, <1>17, <1>18, <1>19, <1>20 DEF IInv

\* A refused reservation marks a run as not saved, and changes nothing else.
LEMMA RefusedSafe == ASSUME TypeOK, TypeOK', IInv, Targets', NEW r \in Run, Refused(r) PROVE IInv'
<1>1. UNCHANGED <<disk, cache, host, job, live, from, used, checked, history>> /\ job.op = "idle"
      /\ r \in checked /\ \A x \in Run : unsaved'[x] = unsaved[x] \/ (x = r /\ unsaved'[x] # "none")
  BY DEF TypeOK, Refused, Free
<1>2. job = Idle /\ r <= used
  BY <1>1 DEF TypeOK, Run, IInv, JobSound, Created
<1>3. Created' /\ Lineage' /\ RecordsSound' /\ SuccessorsNamed' /\ LiveRecorded'
  BY <1>1, Kept DEF TypeOK, IInv, Created, LiveRecorded, Active
<1>4. Reported'
  BY <1>1, <1>2 DEF IInv, Reported
<1>5. Mirrored'
  BY <1>1 DEF IInv, Stored, Mirrored
<1>6. HostSound'
  BY <1>1 DEF IInv, Active, HostSound
<1>7. JobSound'
  BY <1>1, <1>2 DEF IInv, TypeOK, Idle, None, Active, JobSound
<1>8. ResumeUnderway'
  BY <1>1, <1>2 DEF IInv, Idle, Active, Names, RecordSound, Underway, ResumeUnderway
<1> QED
  BY <1>3, <1>4, <1>5, <1>6, <1>7, <1>8 DEF IInv

\* A run at work goes on or ends.
LEMMA ObserveSafe == ASSUME TypeOK, TypeOK', IInv, Targets', NEW r \in Run, Observe(r) PROVE IInv'
<1>1. UNCHANGED <<disk, cache, host, unsaved, from, used, checked, history>> /\ host = "up" /\ job.op = "idle" /\ live[r] = "running"
  BY DEF Observe, Free
<1>2. PICK state \in {"running", "ended"} : live' = [live EXCEPT ![r] = state] /\ Saving(r, state, "lifecycle")
  BY DEF Observe
<1>3. \A x \in Run : live'[x] = IF x = r THEN state ELSE live[x]
  BY <1>2 DEF TypeOK
<1>4. job'.op = "save" /\ job'.run = r /\ job'.state = state /\ job'.why = "lifecycle"
  BY <1>2 DEF TypeOK, Job, Saving
<1>5. cache[r] # NoFile /\ r <= used
  BY <1>1, SMTT(25) DEF TypeOK, Run, IInv, LiveRecorded, Active, Created
<1>6. Created' /\ Lineage' /\ RecordsSound' /\ SuccessorsNamed' /\ LiveRecorded'
  BY <1>1, <1>3, Kept DEF TypeOK, IInv, Created, LiveRecorded, Active
<1>7. Reported'
  BY <1>1 DEF IInv, Reported
<1>8. Mirrored'
  BY <1>1 DEF IInv, Stored, Mirrored
<1>9. HostSound'
  BY <1>1, <1>3, <1>4, <1>5 DEF IInv, Active, HostSound
<1>10. JobSound'
  BY <1>1, <1>3, <1>4, <1>5 DEF IInv, Active, JobSound
<1>11. ResumeUnderway'
  BY <1>1, <1>3, <1>4, <1>5 DEF IInv, Active, Names, RecordSound, Underway, ResumeUnderway
<1> QED
  BY <1>6, <1>7, <1>8, <1>9, <1>10, <1>11 DEF IInv

\* A completion has been delivered.
LEMMA DeliverSafe == ASSUME TypeOK, TypeOK', IInv, Targets', NEW r \in Run, Deliver(r) PROVE IInv'
<1>1. UNCHANGED <<disk, cache, host, live, unsaved, from, used, checked, history>> /\ host = "up" /\ job.op = "idle" /\ cache[r] # NoFile
  BY DEF Deliver, Free
<1>2. job'.op = "receipt" /\ job'.run = r /\ job'.why = "receipt"
  BY DEF Deliver, Idle
<1>3. r <= used
  <2>1. r \in history.recorded /\ (r > used => r \notin history.recorded)
    BY <1>1 DEF IInv, Created
  <2>2. r \in Nat /\ used \in Nat
    BY DEF TypeOK, Run
  <2> QED
    BY <2>1, <2>2
<1>4. Created' /\ Lineage' /\ RecordsSound' /\ SuccessorsNamed' /\ LiveRecorded'
  BY <1>1, Kept DEF TypeOK, IInv, Created, LiveRecorded, Active
<1>5. Reported'
  BY <1>1 DEF IInv, Reported
<1>6. Mirrored'
  BY <1>1 DEF IInv, Stored, Mirrored
<1>7. HostSound'
  BY <1>1, <1>2, <1>3 DEF IInv, Active, HostSound
<1>8. JobSound'
  BY <1>1, <1>2, <1>3 DEF IInv, Active, JobSound
<1>9. ResumeUnderway'
  BY <1>1, <1>2, <1>3 DEF IInv, Active, Names, RecordSound, Underway, ResumeUnderway
<1> QED
  BY <1>4, <1>5, <1>6, <1>7, <1>8, <1>9 DEF IInv

\* A failed snapshot is written again.
LEMMA RetrySafe == ASSUME TypeOK, TypeOK', IInv, Targets', NEW r \in Run, Retry(r) PROVE IInv'
<1>1. UNCHANGED <<disk, cache, host, live, unsaved, from, used, checked, history>> /\ host = "up" /\ job.op = "idle" /\ unsaved[r] # "none"
  BY DEF Retry, Free
<1>2. job'.op = "save" /\ job'.run = r /\ job'.why = "lifecycle" /\ (live[r] = "running" => job'.state = "running")
  BY DEF TypeOK, Job, Retry, Saving
<1>3. r <= used
  BY <1>1 DEF IInv, Reported
<1>5. Created' /\ Lineage' /\ RecordsSound' /\ SuccessorsNamed' /\ LiveRecorded'
  BY <1>1, Kept DEF TypeOK, IInv, Created, LiveRecorded, Active
<1>6. Reported'
  BY <1>1 DEF IInv, Reported
<1>7. Mirrored'
  BY <1>1 DEF IInv, Stored, Mirrored
<1>8. HostSound'
  BY <1>1, <1>2, <1>3 DEF IInv, Active, HostSound
<1>9. JobSound'
  BY <1>1, <1>2, <1>3 DEF IInv, Active, JobSound
<1>10. ResumeUnderway'
  BY <1>1, <1>2, <1>3 DEF IInv, Active, Names, RecordSound, Underway, ResumeUnderway
<1> QED
  BY <1>5, <1>6, <1>7, <1>8, <1>9, <1>10 DEF IInv

\* A step that changes nothing.
LEMMA StutterSafe == ASSUME IInv, UNCHANGED vars PROVE IInv'
<1>1. Targets' /\ Created' /\ Lineage' /\ RecordsSound' /\ SuccessorsNamed' /\ LiveRecorded'
  BY DEF vars, IInv, Targets, Created, Lineage, RecordsSound, RecordSound, SuccessorsNamed, Names, LiveRecorded, Active
<1>2. Reported' /\ Mirrored' /\ HostSound' /\ JobSound' /\ ResumeUnderway'
  BY DEF vars, IInv, Reported, Mirrored, Stored, HostSound, JobSound, ResumeUnderway, Active, Names, RecordSound
<1> QED
  BY <1>1, <1>2 DEF IInv

\* Every step keeps the invariant.
LEMMA StepSafe == ASSUME TypeOK, TypeOK', IInv, Targets', [Next]_vars PROVE IInv'
<1>1. CASE Save
  BY <1>1, SaveSafe
<1>2. CASE Prune
  BY <1>2, PruneSafe
<1>3. CASE Sweep
  BY <1>3, SweepSafe
<1>4. CASE Saved
  BY <1>4, SavedSafe
<1>5. CASE Receipt
  BY <1>5, ReceiptSafe
<1>6. CASE Reserve
  BY <1>6, ReserveSafe
<1>7. CASE Commit
  BY <1>7, CommitSafe
<1>8. CASE Start
  BY <1>8, StartSafe
<1>9. CASE Fail
  BY <1>9, FailSafe
<1>10. CASE Dispatch
  BY <1>10, DispatchSafe
<1>11. CASE Open
  BY <1>11, OpenSafe
<1>12. CASE Finish
  BY <1>12, FinishSafe
<1>13. CASE Adopt
  BY <1>13, AdoptSafe
<1>14. CASE Crash
  BY <1>14, CrashSafe
<1>15. ASSUME NEW r \in Run, Ask(r) PROVE IInv'
  BY <1>15, AskSafe
<1>16. ASSUME NEW r \in Run, Resume(r) PROVE IInv'
  BY <1>16, ResumeSafe
<1>17. ASSUME NEW r \in Run, Observe(r) PROVE IInv'
  BY <1>17, ObserveSafe
<1>18. ASSUME NEW r \in Run, Deliver(r) PROVE IInv'
  BY <1>18, DeliverSafe
<1>19. ASSUME NEW r \in Run, Retry(r) PROVE IInv'
  BY <1>19, RetrySafe
<1>20. CASE UNCHANGED vars
  BY <1>20, StutterSafe
<1>21. ASSUME NEW r \in Run, Refused(r) PROVE IInv'
  BY <1>21, RefusedSafe
<1> QED
  BY <1>21, <1>1, <1>2, <1>3, <1>4, <1>5, <1>6, <1>7, <1>8, <1>9, <1>10, <1>11, <1>12, <1>13, <1>14, <1>15, <1>16, <1>17, <1>18, <1>19, <1>20 DEF Next

\* The records, the host and the operation under way agree, however failing writes,
\* refused reservations, retention and crashes meet.
THEOREM SafetyInvariant == Spec => [](TypeOK /\ IInv)
<1>1. Init => IInv
  BY InitSafe
<1>2. TypeOK /\ TypeOK' /\ Targets' /\ IInv /\ [Next]_vars => IInv'
  BY StepSafe
<1>3. Spec => [](TypeOK /\ Targets)
  BY TypeCorrect
<1> QED
  BY <1>1, <1>2, <1>3, PTL DEF Spec

-----------------------------------------------------------------------------
(* What follows from it.                                                   *)

\* A run whose record was never dropped and written afresh is resumed once, a
\* continuation never, and the files say so before the successor works.
THEOREM ResumesOnce == Spec => []ResumeSound
<1>1. TypeOK /\ IInv => ResumeSound
  <2> SUFFICES ASSUME TypeOK, IInv PROVE ResumedOnce /\ ReservedBeforeStart
    BY DEF ResumeSound
  <2>1. history.started \subseteq Run
    BY DEF TypeOK, History
  <2>2. ResumedOnce
    BY <2>1 DEF IInv, Lineage, SuccessorsNamed, ResumedOnce
  <2>3. ReservedBeforeStart
    BY <2>1 DEF IInv, SuccessorsNamed, Names, RecordsSound, RecordSound, Stored, ReservedBeforeStart
  <2> QED
    BY <2>2, <2>3
<1> QED
  BY <1>1, SafetyInvariant, PTL

\* What the host shows is on disk or reported as not saved, a run at work has its
\* record, and a completion once marked delivered stays so, with the same exception.
THEOREM RecordsAreDurable == Spec => []RecordsDurable
<1>1. TypeOK /\ IInv => RecordsDurable
  <2> SUFFICES ASSUME TypeOK, IInv PROVE CacheIsDurable /\ LiveOnDisk /\ DeliveredForGood
    BY DEF RecordsDurable
  <2>1. CacheIsDurable
    BY DEF IInv, Mirrored, Free, CacheIsDurable
  <2>2. LiveOnDisk
    BY DEF IInv, LiveRecorded, LiveOnDisk
  <2>3. DeliveredForGood
    BY DEF IInv, RecordsSound, RecordSound, Stored, DeliveredForGood
  <2> QED
    BY <2>1, <2>2, <2>3
<1> QED
  BY <1>1, SafetyInvariant, PTL
-----------------------------------------------------------------------------
(* Sessions.                                                               *)

\* A file that the host does not know of is that of a run pruned while it was
\* resumed, which the commit of that resume has written again.
Orphans == \A x \in Run : disk[x] # NoFile /\ cache[x] = NoFile => disk[x].resumedAs # None
Known == /\ host = "down" => job = Idle
         /\ host # "down" => Orphans

\* A run whose file and record are written together is no orphan, and the others
\* are those that there were.
LEMMA WrittenTogether ==
  ASSUME TypeOK, Orphans, NEW r \in Run, NEW c \in Checkpoint, NEW d \in Checkpoint,
         Write(r, c), cache' = [cache EXCEPT ![r] = d]
  PROVE  Orphans'
<1>1. \A x \in Run : disk'[x] = IF x = r THEN c ELSE disk[x]
  BY Writing
<1>2. \A x \in Run : cache'[x] = IF x = r THEN d ELSE cache[x]
  BY DEF TypeOK
<1>3. d # NoFile
  BY NoFileAssumption
<1> QED
  BY <1>1, <1>2, <1>3 DEF Orphans

\* An operation under way means that there is a host.
LEMMA HostAtWork == ASSUME Known, job.op # "idle" PROVE host # "down" /\ Orphans
  BY DEF Known, Idle

\* What the two longer actions do to the host and to the sessions.
LEMMA AdoptStep == ASSUME Adopt PROVE job.op # "idle" /\ UNCHANGED <<host, session>>
<1>1. job.op = "adopt"
  BY Zenon DEF Adopt
<1>2. UNCHANGED <<host, live, unsaved, receipts, from, session, used, checked, faults>>
  BY Zenon DEF Adopt
<1> QED
  BY <1>1, <1>2
LEMMA FailStep == ASSUME Fail PROVE UNCHANGED <<host, session>>
  BY DEF Fail

\* Every action keeps the orphans resumed.
LEMMA KnownKept == ASSUME TypeOK, Targets, Known, [Next]_vars PROVE Known'
<1>1. CASE Save
  <2>1. job.run \in Run /\ job.state \in {"running", "ended"}
    BY <1>1 DEF TypeOK, Targets, Job, Save
  <2>2. Snapshot(job.run, job.state) \in Checkpoint
    BY <2>1, SnapshotIsRecord
  <2>3. Orphans'
    BY <1>1, <2>1, <2>2, HostAtWork, WrittenTogether DEF Save
  <2> QED
    BY <1>1, <2>3, HostAtWork DEF Known, Save
<1>2. CASE Prune
  <2>1. PICK v \in Ended : /\ disk' = [disk EXCEPT ![v] = NoFile]
                           /\ cache' = [cache EXCEPT ![v] = NoFile]
    BY <1>2 DEF Prune
  <2>2. Orphans'
    BY <1>2, <2>1, HostAtWork DEF Prune, Orphans, TypeOK
  <2> QED
    BY <1>2, <2>2, HostAtWork DEF Known, Prune
<1>3. CASE Sweep \/ Saved \/ Start
  <2>1. Orphans' /\ host' # "down"
    BY <1>3, HostAtWork DEF Orphans, Sweep, Saved, Start
  <2> QED
    BY <2>1 DEF Known
<1>4. CASE Receipt
  <2> DEFINE c == IF cache[job.run] = NoFile THEN NoFile ELSE [cache[job.run] EXCEPT !.delivered = TRUE]
  <2>1. job.run \in Run
    BY <1>4 DEF TypeOK, Targets, Job, Receipt
  <2>2. cache' = [cache EXCEPT ![job.run] = c] /\ host' # "down"
    BY <1>4, HostAtWork DEF Receipt
  <2>3. CASE c = cache[job.run]
    <3>1. UNCHANGED <<disk, cache>>
      BY <1>4, <2>1, <2>2, <2>3 DEF TypeOK, Receipt
    <3> QED
      BY <1>4, <3>1, <2>2, HostAtWork DEF Receipt, Orphans, Known
  <2>4. CASE c # cache[job.run]
    <3>1. c \in Checkpoint /\ Write(job.run, c)
      BY <1>4, <2>1, <2>4, Records, Marked DEF Receipt
    <3>2. Orphans'
      BY <1>4, <2>1, <2>2, <3>1, HostAtWork, WrittenTogether DEF Receipt
    <3> QED
      BY <2>2, <3>2 DEF Known
  <2> QED
    BY <2>3, <2>4
<1>5. CASE Reserve
  <2>1. from[job.run] \in Run /\ cache[from[job.run]] \in Checkpoint
    BY <1>5, Records DEF TypeOK, Targets, Job, Reserve, Underway
  <2> DEFINE f == from[job.run]  c == cache[f]
  <2>2. \A x \in Run : disk'[x] = IF x = from[job.run] THEN cache[from[job.run]] ELSE disk[x]
    <3>1. f \in Run /\ c \in Checkpoint /\ Write(f, c)
      BY <1>5, <2>1 DEF Reserve
    <3> HIDE DEF f, c
    <3>2. \A x \in Run : disk'[x] = IF x = f THEN c ELSE disk[x]
      BY <3>1, Writing
    <3> QED
      BY <3>2 DEF f, c
  <2>3. Orphans'
    BY <1>5, <2>1, <2>2, HostAtWork DEF Reserve, Orphans
  <2> QED
    BY <1>5, <2>3, HostAtWork DEF Known, Reserve
<1>6. CASE Commit
  <2>1. from[job.run] \in Run /\ job.run \in Run /\ job.original \in Checkpoint
    BY <1>6 DEF TypeOK, Targets, Job, File, Commit, Underway
  <2>2. Committed \in Checkpoint /\ Committed.resumedAs # None
    BY <2>1, NoRun DEF Committed, Checkpoint
  <2> DEFINE f == from[job.run]
  <2>3. \A x \in Run : disk'[x] = IF x = from[job.run] THEN Committed ELSE disk[x]
    <3>1. f \in Run /\ Committed \in Checkpoint /\ Write(f, Committed)
      BY <1>6, <2>1, <2>2 DEF Commit
    <3> HIDE DEF f
    <3>2. \A x \in Run : disk'[x] = IF x = f THEN Committed ELSE disk[x]
      BY <3>1, Writing
    <3> QED
      BY <3>2 DEF f
  <2>4. \A x \in Run : x # from[job.run] => cache'[x] = cache[x]
    BY <1>6, <2>1 DEF Commit, CommitInCache, TypeOK
  <2>5. Orphans'
    BY <1>6, <2>2, <2>3, <2>4, HostAtWork DEF Commit, Orphans
  <2> QED
    BY <1>6, <2>5, HostAtWork DEF Known, Commit
<1>7. CASE Fail
  <2>1. job.op # "idle"
    BY <1>7 DEF Fail, Failing
  <2>2. CASE job.op = "commit"
    <3>1. from[job.run] \in Run /\ job.original \in Checkpoint /\ job.run \in Run
      BY <2>2 DEF TypeOK, Targets, Job, File, Underway
    <3>a. Committed # NoFile
      BY <3>1, NoFileAssumption DEF Committed, Checkpoint
    <3>b. cache' = [cache EXCEPT ![from[job.run]] = IF @ = NoFile THEN NoFile ELSE Committed]
      BY <1>7, <2>2 DEF Fail, CommitInCache
    <3>2. \A x \in Run : cache'[x] = NoFile => cache[x] = NoFile
      BY <3>1, <3>a, <3>b DEF TypeOK
    <3> QED
      BY <1>7, <2>1, <3>2, HostAtWork DEF Fail, Orphans, Known
  <2>3. CASE job.op # "commit"
    BY <1>7, <2>1, <2>3, HostAtWork DEF Fail, Orphans, Known
  <2> QED
    BY <2>2, <2>3
<1>8. CASE Dispatch \/ \E r \in Run : Ask(r) \/ Refused(r) \/ Observe(r) \/ Deliver(r) \/ Retry(r)
  <2>1. host = "up" /\ host' = "up" /\ UNCHANGED <<disk, cache>>
    <3>1. CASE Dispatch
      BY <3>1 DEF Dispatch, Free
    <3>2. ASSUME NEW r \in Run, Ask(r) \/ Refused(r) \/ Observe(r) \/ Deliver(r) \/ Retry(r)
          PROVE  host = "up" /\ host' = "up" /\ UNCHANGED <<disk, cache>>
      BY <3>2 DEF Ask, Refused, Observe, Deliver, Retry, Free
    <3> QED
      BY <1>8, <3>1, <3>2
  <2> QED
    BY <2>1 DEF Known, Orphans
<1>9. ASSUME NEW r \in Run, Resume(r) PROVE Known'
  <2>1. host = "up" /\ host' = "up" /\ UNCHANGED disk
    BY <1>9 DEF Resume, Free
  <2>2. cache[r] # NoFile
    BY <1>9 DEF Resume, Admitted, Resumable
  <2>3. \A x \in Run : x # r => cache'[x] = cache[x]
    BY <1>9 DEF Resume, TypeOK
  <2>4. cache' = [cache EXCEPT ![r].pending = used + 1] /\ used + 1 \in Run /\ cache[r] \in Checkpoint
    BY <1>9, <2>2, Records, StoreAssumption, SMTT(25) DEF Resume, TypeOK, Run
  <2>5. cache'[r] \in Checkpoint
    BY <2>4 DEF TypeOK, Checkpoint
  <2>6. \A x \in Run : cache'[x] = NoFile => cache[x] = NoFile
    BY <2>3, <2>5, NoFileAssumption
  <2> QED
    BY <2>1, <2>6 DEF Known, Orphans
<1>10. CASE Open
  BY <1>10 DEF Open, Known, Orphans
<1>11. CASE Finish
  <2>1. host # "down" /\ Orphans /\ host' # "down"
    BY <1>11, HostAtWork DEF Finish
  <2>2. ASSUME NEW r \in Reserved, Write(r, Settled(cache[r])), cache' = [cache EXCEPT ![r] = Settled(cache[r])]
        PROVE  Orphans'
    <3>1. r \in Run /\ cache[r] \in Checkpoint
      BY Records DEF Reserved, Stored
    <3>2. cache[r].pending \in Run
      BY <3>1 DEF Reserved, Checkpoint
    <3>3. Settled(cache[r]) \in Checkpoint
      BY <3>1, <3>2 DEF Settled, Checkpoint
    <3> QED
      BY <2>1, <2>2, <3>1, <3>3, WrittenTogether
  <2>3. UNCHANGED <<disk, cache>> => Orphans'
    BY <2>1 DEF Orphans
  <2> QED
    BY <1>11, <2>1, <2>2, <2>3 DEF Finish, Known
<1>12. CASE Adopt
  <2>1. host # "down" /\ Orphans /\ host' # "down"
    BY <1>12, AdoptStep, HostAtWork
  <2>2. ASSUME NEW r \in job.todo, cache[r] # NoFile, Write(r, [cache[r] EXCEPT !.delivered = TRUE]),
               cache' = [cache EXCEPT ![r].delivered = TRUE]
        PROVE  Orphans'
    <3>1. r \in Run /\ cache[r] \in Checkpoint
      BY <2>2, Records DEF TypeOK, Job
    <3>2. [cache[r] EXCEPT !.delivered = TRUE] \in Checkpoint
      BY <3>1, Marked
    <3> QED
      BY <2>1, <2>2, <3>1, <3>2, WrittenTogether
  <2>3. UNCHANGED <<disk, cache>> => Orphans'
    BY <2>1 DEF Orphans
  <2> QED
    BY <1>12, <2>1, <2>2, <2>3, Zenon DEF Adopt, Known
<1>13. CASE Crash
  BY <1>13 DEF Crash, Known
<1>14. CASE UNCHANGED vars
  BY <1>14 DEF vars, Known, Orphans
<1> QED
  BY <1>1, <1>2, <1>3, <1>4, <1>5, <1>6, <1>7, <1>8, <1>9, <1>10, <1>11, <1>12, <1>13, <1>14 DEF Next

\* The host overlooks no file but that of a run whose resume is committed.
THEOREM OnlyResumedAreOrphans == Spec => [](TypeOK /\ Targets /\ Known)
<1>1. Init => Known
  BY DEF Init, Known
<1>2. TypeOK /\ Targets /\ Known /\ [Next]_vars => Known'
  BY KnownKept
<1> QED
  BY <1>1, <1>2, TypeCorrect, PTL DEF Spec

\* A session goes with the last record that could still be resumed on it: the host
\* looks for one among those it knows of, and what it does not know of is resumed.
THEOREM SessionsGoLast == Spec => SessionGoesLast
<1>1. TypeOK /\ Targets /\ Known /\ [Next]_vars
        => [\A r \in Run : session'[r] = "gone" /\ session[r] # "gone" =>
              \A x \in Stored(disk') : Owner(x) = r => disk'[x].resumedAs # None]_vars
  <2> SUFFICES ASSUME TypeOK, Targets, Known, Next, NEW r \in Run,
                      session'[r] = "gone", session[r] # "gone",
                      NEW x \in Stored(disk'), Owner(x) = r
               PROVE  disk'[x].resumedAs # None
    BY Zenon
  <2>1. ~Start
    BY DEF Start, TypeOK
  <2>2. Sweep
    <3>1. session' # session
      OBVIOUS
    <3>2. /\ Save \/ Saved \/ Reserve \/ Commit => UNCHANGED session
          /\ Prune => UNCHANGED session
          /\ Receipt => UNCHANGED session
          /\ Crash \/ Dispatch \/ Open => UNCHANGED session
      <4>1. Save \/ Saved \/ Reserve \/ Commit => UNCHANGED session
        BY DEF Save, Saved, Reserve, Commit
      <4>2. Prune => UNCHANGED session
        BY DEF Prune
      <4>3. Receipt => UNCHANGED session
        BY DEF Receipt
      <4>4. Crash \/ Dispatch \/ Open => UNCHANGED session
        BY DEF Crash, Dispatch, Open
      <4> QED
        BY <4>1, <4>2, <4>3, <4>4
    <3>3. Fail \/ Finish \/ Adopt => UNCHANGED session
      BY AdoptStep, FailStep DEF Finish
    <3>4. (\E z \in Run : Ask(z) \/ Resume(z) \/ Refused(z) \/ Observe(z) \/ Deliver(z) \/ Retry(z)) => UNCHANGED session
      BY DEF Ask, Resume, Refused, Observe, Deliver, Retry
    <3> QED
      BY <2>1, <3>1, <3>2, <3>3, <3>4, Zenon DEF Next
  <2>3. session' = [session EXCEPT ![Owner(job.victim)] = "gone"] /\ Exclusive(job.victim)
    BY <2>2 DEF Sweep
  <2>4. r = Owner(job.victim)
    BY <2>3 DEF TypeOK
  <2>5. x \in Run /\ disk[x] # NoFile /\ disk' = disk
    BY <2>2 DEF Sweep, Stored
  <2>6. cache[x] = NoFile
    BY <2>3, <2>4, <2>5 DEF Exclusive, Stored
  <2> QED
    BY <2>2, <2>5, <2>6, HostAtWork DEF Sweep, Orphans
<1> QED
  BY <1>1, OnlyResumedAreOrphans, PTL DEF Spec, SessionGoesLast
=============================================================================
