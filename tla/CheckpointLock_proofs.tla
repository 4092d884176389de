------------------------ MODULE CheckpointLock_proofs ------------------------
(***************************************************************************)
(* Proofs about the checkpoint lock, for any number of processes, worker   *)
(* threads and stores.  Then those about the local models, which stand     *)
(* behind a lock too: the instances Local, Hook and Ensure of MCWorkers.   *)
(***************************************************************************)
EXTENDS CheckpointLock, MCWorkers, FiniteSetTheorems, SequenceTheorems, TLAPS

\* Every isolate runs in a process, one of those there are.
LEMMA PidOfType == PidOf \in [Isolate -> Pid] /\ \A i \in Isolate : i \in PidOf[i]
<1>1. ASSUME NEW i \in Isolate PROVE PidOf[i] \in Pid /\ i \in PidOf[i]
  <2>1. PICK q \in Pid : i \in q
    BY DEF Isolate
  <2>2. PidOf[i] = CHOOSE r \in Pid : i \in r
    BY DEF PidOf
  <2> QED
    BY <2>1, <2>2
<1>2. PidOf = [i \in Isolate |-> PidOf[i]]
  BY DEF PidOf
<1> QED
  BY <1>1, <1>2

\* Every variable keeps its type, and an isolate has a token in hand exactly
\* while it builds or closes a store.
THEOREM TypeCorrect == Spec => []TypeOK
<1>1. Init => TypeOK
  <2>1. "idle" \in Labels
    BY DEF Labels
  <2> QED
    BY <2>1 DEF Init, TypeOK
<1>2. TypeOK /\ [Next]_vars => TypeOK'
  <2> SUFFICES ASSUME TypeOK, [Next]_vars PROVE TypeOK'
    OBVIOUS
  <2> USE PidOfType, FileAssumption
  <2>1. ASSUME NEW i \in Isolate, MakeClaim(i) PROVE TypeOK'
    BY <2>1 DEF TypeOK, MakeClaim, Goto, Labels, FreshToken
  <2>2. ASSUME NEW i \in Isolate, Look(i) PROVE TypeOK'
    BY <2>2 DEF TypeOK, Look, Goto, Labels
  <2>3. ASSUME NEW i \in Isolate, Judge(i) PROVE TypeOK'
    BY <2>3 DEF TypeOK, Judge, Goto, Labels
  <2>4. ASSUME NEW i \in Isolate, UnlinkStale(i) PROVE TypeOK'
    BY <2>4 DEF TypeOK, UnlinkStale, Goto, Labels
  <2>5. ASSUME NEW i \in Isolate, Create(i) PROVE TypeOK'
    BY <2>5 DEF TypeOK, Create, Goto, Labels
  <2>6. ASSUME NEW i \in Isolate, Write(i) PROVE TypeOK'
    <3>1. own[i] \in Token
      BY <2>6 DEF TypeOK, Write
    <3>2. [pid |-> PidOf[i], token |-> own[i]] \in Owner
      BY <3>1 DEF Owner
    <3> QED
      BY <2>6, <3>1, <3>2 DEF TypeOK, Write, Goto, Labels
  <2>7. ASSUME NEW i \in Isolate, DropClaim(i) PROVE TypeOK'
    BY <2>7 DEF TypeOK, DropClaim, Goto, Labels
  <2>8. ASSUME NEW i \in Isolate, Close(i) PROVE TypeOK'
    BY <2>8 DEF TypeOK, Close, Goto, Labels
  <2>9. ASSUME NEW i \in Isolate, ReadOwn(i) PROVE TypeOK'
    BY <2>9 DEF TypeOK, ReadOwn, Goto, Labels
  <2>10. ASSUME NEW i \in Isolate, UnlinkOwn(i) PROVE TypeOK'
    BY <2>10 DEF TypeOK, UnlinkOwn, Goto, Labels
  <2>11. ASSUME NEW q \in Pid, Crash(q) PROVE TypeOK'
    BY <2>11 DEF TypeOK, Crash, Labels
  <2>12. ASSUME NEW q \in Pid, Restart(q) PROVE TypeOK'
    BY <2>12 DEF TypeOK, Restart, Labels
  <2>13. CASE UNCHANGED vars
    BY <2>13 DEF TypeOK, vars
  <2> QED
    BY <2>1, <2>2, <2>3, <2>4, <2>5, <2>6, <2>7, <2>8, <2>9, <2>10, <2>11, <2>12, <2>13 DEF Next, Step
<1> QED
  BY <1>1, <1>2, PTL DEF Spec

-----------------------------------------------------------------------------
\* A record that an isolate writes is a proper one, so the file is neither
\* missing nor unreadable while it is there.
LEMMA RecordIsOwner ==
  ASSUME NEW i \in Isolate, NEW t \in Token
  PROVE  /\ [pid |-> PidOf[i], token |-> t] \in Owner
         /\ [pid |-> PidOf[i], token |-> t] \notin {NoFile, Unreadable}
  BY PidOfType, FileAssumption DEF Owner

\* At first nobody owns the directory.
LEMMA InitSafe == Init => IInv
  BY DEF Init, IInv, Claimed, Tidy, TokenOwned, Known, LockNamesWriter, Stale, Creating, Closing, Critical

\* A claim is taken only while nobody has it, with a token that nobody has seen.
LEMMA MakeClaimSafe == ASSUME TypeOK, TypeOK', IInv, NEW i \in Isolate, MakeClaim(i) PROVE IInv'
<1>1. Claimed'
  BY DEF IInv, MakeClaim, Goto, Claimed
<1>2. Tidy'
  BY DEF TypeOK, IInv, MakeClaim, Goto, FreshToken, Tidy
<1>3. TokenOwned'
  BY DEF IInv, MakeClaim, FreshToken, TokenOwned, Known
<1>4. LockNamesWriter'
  BY DEF IInv, MakeClaim, LockNamesWriter
<1>5. Stale'
  BY DEF IInv, MakeClaim, Goto, Stale
<1>6. Creating'
  BY DEF IInv, MakeClaim, Goto, Creating
<1>7. Closing'
  BY DEF IInv, MakeClaim, Goto, Closing
<1> QED
  BY <1>1, <1>2, <1>3, <1>4, <1>5, <1>6, <1>7 DEF IInv

\* What owner.json shows, as seen under the claim.
LEMMA LookSafe == ASSUME TypeOK, TypeOK', IInv, NEW i \in Isolate, Look(i) PROVE IInv'
<1>1. Claimed'
  BY DEF IInv, Look, Goto, Claimed, Critical
<1>2. Tidy'
  BY DEF IInv, Look, Goto, Critical, Tidy, Labels
<1>3. TokenOwned'
  BY DEF IInv, Look, TokenOwned, Known
<1>4. LockNamesWriter'
  BY DEF IInv, Look, LockNamesWriter
<1>5. Stale'
  BY DEF TypeOK, IInv, Look, Goto, Stale
<1>6. Creating'
  BY DEF IInv, Look, Goto, Creating
<1>7. Closing'
  BY DEF IInv, Look, Goto, Closing
<1> QED
  BY <1>1, <1>2, <1>3, <1>4, <1>5, <1>6, <1>7 DEF IInv

\* An owner that Judge finds stale is dead or has closed.
LEMMA JudgeSafe == ASSUME TypeOK, TypeOK', IInv, NEW i \in Isolate, Judge(i) PROVE IInv'
<1>1. Claimed'
  BY DEF IInv, Judge, Goto, Claimed, Critical
<1>2. Tidy'
  BY DEF IInv, Judge, Goto, Critical, Tidy, Labels
<1>3. TokenOwned'
  BY DEF IInv, Judge, TokenOwned, Known
<1>4. LockNamesWriter'
  BY DEF IInv, Judge, LockNamesWriter
<1>5. Stale'
  BY RecordIsOwner DEF TypeOK, IInv, Judge, Goto, Alive, Released, Tidy, TokenOwned, Known,
     LockNamesWriter, Stale, Closing
<1>6. Creating'
  BY DEF IInv, Judge, Goto, Creating
<1>7. Closing'
  BY DEF IInv, Judge, Goto, Closing
<1> QED
  BY <1>1, <1>2, <1>3, <1>4, <1>5, <1>6, <1>7 DEF IInv

\* The takeover removes a record that still names no writer.
LEMMA UnlinkStaleSafe == ASSUME TypeOK, TypeOK', IInv, NEW i \in Isolate, UnlinkStale(i) PROVE IInv'
<1>1. Claimed'
  BY DEF IInv, UnlinkStale, Goto, Claimed, Critical
<1>2. Tidy'
  BY DEF IInv, UnlinkStale, Goto, Critical, Tidy, Labels
<1>3. TokenOwned'
  BY DEF IInv, UnlinkStale, TokenOwned, Known
<1>4. LockNamesWriter'
  BY DEF IInv, UnlinkStale, LockNamesWriter, Stale
<1>5. Stale'
  BY DEF IInv, UnlinkStale, Goto, Stale
<1>6. Creating'
  BY DEF IInv, UnlinkStale, Goto, Claimed, Critical, Creating
<1>7. Closing'
  BY DEF IInv, UnlinkStale, Goto, Stale, Closing
<1> QED
  BY <1>1, <1>2, <1>3, <1>4, <1>5, <1>6, <1>7 DEF IInv

\* The exclusive create succeeds only where no record is.
LEMMA CreateSafe == ASSUME TypeOK, TypeOK', IInv, NEW i \in Isolate, Create(i) PROVE IInv'
<1>1. Claimed'
  BY DEF TypeOK, IInv, Create, Goto, Claimed, Critical
<1>2. Tidy'
  BY DEF TypeOK, IInv, Create, Goto, Critical, Tidy
<1>3. TokenOwned'
  BY DEF IInv, Create, TokenOwned, Known
<1>4. LockNamesWriter'
  BY RecordIsOwner DEF TypeOK, IInv, Create, LockNamesWriter
<1>5. Stale'
  BY DEF TypeOK, IInv, Create, Goto, Claimed, Critical, Stale
<1>6. Creating'
  BY DEF TypeOK, IInv, Create, Goto, Creating
<1>7. Closing'
  BY RecordIsOwner DEF TypeOK, IInv, Create, Goto, Closing
<1> QED
  BY <1>1, <1>2, <1>3, <1>4, <1>5, <1>6, <1>7 DEF IInv

\* The creator puts its own token into the record.
LEMMA WriteSafe == ASSUME TypeOK, TypeOK', IInv, NEW i \in Isolate, Write(i) PROVE IInv'
<1>1. Claimed'
  BY DEF IInv, Write, Goto, Claimed, Critical
<1>2. Tidy'
  BY DEF TypeOK, IInv, Write, Goto, Critical, Tidy
<1>3. TokenOwned'
  BY DEF TypeOK, IInv, Write, TokenOwned, Known
<1>4. LockNamesWriter'
  BY RecordIsOwner DEF TypeOK, IInv, Write, LockNamesWriter, Creating
<1>5. Stale'
  BY DEF IInv, Write, Goto, Claimed, Critical, Stale
<1>6. Creating'
  BY DEF TypeOK, IInv, Write, Goto, Claimed, Critical, Creating
<1>7. Closing'
  BY RecordIsOwner DEF IInv, Write, Goto, Tidy, Labels, Creating, Closing
<1> QED
  BY <1>1, <1>2, <1>3, <1>4, <1>5, <1>6, <1>7 DEF IInv

\* A store is open once its record is written and its claim returned.
LEMMA DropClaimSafe == ASSUME TypeOK, TypeOK', IInv, NEW i \in Isolate, DropClaim(i) PROVE IInv'
<1>1. Claimed'
  BY DEF TypeOK, IInv, DropClaim, Goto, Claimed, Critical
<1>2. Tidy'
  BY DEF TypeOK, IInv, DropClaim, Goto, Critical, Tidy
<1>3. TokenOwned'
  BY DEF IInv, DropClaim, TokenOwned, Known
<1>4. LockNamesWriter'
  BY DEF IInv, DropClaim, LockNamesWriter
<1>5. Stale'
  BY DEF IInv, DropClaim, Goto, Stale
<1>6. Creating'
  BY DEF IInv, DropClaim, Goto, Creating
<1>7. Closing'
  BY DEF IInv, DropClaim, Goto, Closing
<1> QED
  BY <1>1, <1>2, <1>3, <1>4, <1>5, <1>6, <1>7 DEF IInv

\* A closing store writes no more.
LEMMA CloseSafe == ASSUME TypeOK, TypeOK', IInv, NEW i \in Isolate, Close(i) PROVE IInv'
<1>1. Claimed'
  BY DEF IInv, Close, Goto, Claimed, Critical
<1>2. Tidy'
  BY DEF TypeOK, IInv, Close, Goto, Critical, Tidy
<1>3. TokenOwned'
  BY DEF IInv, Close, TokenOwned, Known
<1>4. LockNamesWriter'
  BY DEF IInv, Close, LockNamesWriter
<1>5. Stale'
  BY DEF TypeOK, IInv, Close, Goto, Stale
<1>6. Creating'
  BY DEF IInv, Close, Goto, Creating
<1>7. Closing'
  BY DEF TypeOK, IInv, Close, Goto, LockNamesWriter, Closing
<1> QED
  BY <1>1, <1>2, <1>3, <1>4, <1>5, <1>6, <1>7 DEF IInv

\* It compares the token with its own.
LEMMA ReadOwnSafe == ASSUME TypeOK, TypeOK', IInv, NEW i \in Isolate, ReadOwn(i) PROVE IInv'
<1>1. Claimed'
  BY DEF TypeOK, IInv, ReadOwn, Goto, Claimed, Critical
<1>2. Tidy'
  BY DEF TypeOK, IInv, ReadOwn, Goto, Critical, Tidy
<1>3. TokenOwned'
  BY DEF TypeOK, IInv, ReadOwn, Labels, TokenOwned, Known, LockNamesWriter, Stale, Creating
<1>4. LockNamesWriter'
  BY DEF IInv, ReadOwn, LockNamesWriter
<1>5. Stale'
  BY DEF TypeOK, IInv, ReadOwn, Goto, Stale
<1>6. Creating'
  BY DEF TypeOK, IInv, ReadOwn, Goto, Creating
<1>7. Closing'
  BY DEF TypeOK, IInv, ReadOwn, Goto, Closing
<1> QED
  BY <1>1, <1>2, <1>3, <1>4, <1>5, <1>6, <1>7 DEF IInv

\* The record it removes is its own.
LEMMA UnlinkOwnSafe == ASSUME TypeOK, TypeOK', IInv, NEW i \in Isolate, UnlinkOwn(i) PROVE IInv'
<1>1. Claimed'
  BY DEF IInv, UnlinkOwn, Goto, Claimed, Critical
<1>2. Tidy'
  BY DEF TypeOK, IInv, UnlinkOwn, Critical, Tidy, Labels, TokenOwned, Known, LockNamesWriter, Closing
<1>3. TokenOwned'
  BY DEF IInv, UnlinkOwn, TokenOwned, Known
<1>4. LockNamesWriter'
  BY DEF TypeOK, IInv, UnlinkOwn, Tidy, TokenOwned, Known, LockNamesWriter, Closing
<1>5. Stale'
  BY DEF TypeOK, IInv, UnlinkOwn, Goto, Stale
<1>6. Creating'
  BY RecordIsOwner DEF IInv, UnlinkOwn, Goto, Tidy, Labels, Creating, Closing
<1>7. Closing'
  BY DEF TypeOK, IInv, UnlinkOwn, Goto, Tidy, TokenOwned, Known, Closing
<1> QED
  BY <1>1, <1>2, <1>3, <1>4, <1>5, <1>6, <1>7 DEF IInv

\* A dead process writes no more.
LEMMA CrashSafe == ASSUME TypeOK, TypeOK', IInv, NEW q \in Pid, Crash(q) PROVE IInv'
<1>1. Claimed'
  BY DEF IInv, Crash, Claimed, Critical
<1>2. Tidy'
  BY DEF IInv, Crash, Tidy
<1>3. TokenOwned'
  BY DEF IInv, Crash, Critical, TokenOwned, Known, Creating
<1>4. LockNamesWriter'
  BY DEF IInv, Crash, LockNamesWriter
<1>5. Stale'
  BY DEF IInv, Crash, Stale
<1>6. Creating'
  BY DEF IInv, Crash, Creating
<1>7. Closing'
  BY DEF IInv, Crash, Closing
<1> QED
  BY <1>1, <1>2, <1>3, <1>4, <1>5, <1>6, <1>7 DEF IInv

\* A new process has fresh isolates.
LEMMA RestartSafe == ASSUME TypeOK, TypeOK', IInv, NEW q \in Pid, Restart(q) PROVE IInv'
<1>1. Claimed'
  BY DEF IInv, Restart, Claimed, Critical
<1>2. Tidy'
  BY DEF IInv, Restart, Critical, Tidy
<1>3. TokenOwned'
  BY DEF IInv, Restart, TokenOwned, Known
<1>4. LockNamesWriter'
  BY DEF IInv, Restart, LockNamesWriter
<1>5. Stale'
  BY DEF IInv, Restart, Stale
<1>6. Creating'
  BY DEF IInv, Restart, Creating
<1>7. Closing'
  BY DEF IInv, Restart, Closing
<1> QED
  BY <1>1, <1>2, <1>3, <1>4, <1>5, <1>6, <1>7 DEF IInv

\* Nothing changes when no step is taken.
LEMMA StutterSafe == ASSUME IInv, UNCHANGED vars PROVE IInv'
  BY DEF vars, IInv, Claimed, Tidy, TokenOwned, Known, LockNamesWriter, Stale, Creating, Closing

\* The inductive step, action by action.
LEMMA StepSafe == TypeOK /\ TypeOK' /\ IInv /\ [Next]_vars => IInv'
<1> SUFFICES ASSUME TypeOK, TypeOK', IInv, [Next]_vars PROVE IInv'
  OBVIOUS
<1>1. ASSUME NEW i \in Isolate, MakeClaim(i) \/ Step(i) \/ Close(i) PROVE IInv'
  BY <1>1, MakeClaimSafe, LookSafe, JudgeSafe, UnlinkStaleSafe, CreateSafe, WriteSafe,
     DropClaimSafe, CloseSafe, ReadOwnSafe, UnlinkOwnSafe DEF Step
<1>2. ASSUME NEW q \in Pid, Crash(q) \/ Restart(q) PROVE IInv'
  BY <1>2, CrashSafe, RestartSafe
<1> QED
  BY <1>1, <1>2, StutterSafe DEF Next

-----------------------------------------------------------------------------
\* The inductive invariant holds in every reachable state.
THEOREM SafetyInvariant == Spec => []IInv
  BY InitSafe, StepSafe, TypeCorrect, PTL DEF Spec

\* The inductive invariant in full, types included, at every step of every process:
\* the lock's files and what every constructor has seen of them agree.
THEOREM InductiveHolds == Spec => []Inductive
<1>1. TypeOK /\ IInv => Inductive
  BY DEF Inductive
<1> QED
  BY <1>1, TypeCorrect, SafetyInvariant, PTL

\* One store at a time may write the checkpoints of a session, over all the
\* processes and worker threads that open and take over its directory.
THEOREM OneWriterHolds == Spec => []OneWriter
<1>1. TypeOK /\ IInv => OneWriter
  <2> SUFFICES ASSUME TypeOK, IInv, NEW i \in Isolate, NEW j \in Isolate,
                      NEW s \in stores[i], NEW t \in stores[j]
               PROVE  i = j /\ s = t
    BY DEF OneWriter
  <2>1. [pid |-> PidOf[i], token |-> s] = [pid |-> PidOf[j], token |-> t]
    BY DEF IInv, LockNamesWriter
  <2>2. s = t
    BY <2>1
  <2>3. s \in Known(i) /\ s \in Known(j)
    BY <2>2 DEF Known
  <2> QED
    BY <2>2, <2>3 DEF IInv, TokenOwned
<1> QED
  BY <1>1, SafetyInvariant, TypeCorrect, PTL

\* A store that may write is the one that owner.json names.
THEOREM LockNamesWriterHolds == Spec => []LockNamesWriter
<1>1. IInv => LockNamesWriter
  BY DEF IInv
<1> QED
  BY <1>1, SafetyInvariant, PTL

\* A takeover removes only a record it has judged stale, never the record of a
\* store that may write.
THEOREM TakeoverIsSafe == Spec => []RemovesOnlyStale
<1>1. TypeOK /\ IInv => RemovesOnlyStale
  <2> SUFFICES ASSUME TypeOK, IInv, NEW i \in Isolate, pc[i] = "unlinkStale"
               PROVE  /\ lock \in {NoFile, prior[i]}
                      /\ \A j \in Isolate : \A t \in stores[j] :
                           lock # [pid |-> PidOf[j], token |-> t]
    BY DEF RemovesOnlyStale
  <2>1. /\ lock \in {NoFile, prior[i]}
        /\ \A j \in Isolate : prior[i].token \notin stores[j]
    BY DEF IInv, Stale
  <2>2. ASSUME NEW j \in Isolate, NEW t \in stores[j],
               lock = [pid |-> PidOf[j], token |-> t]
        PROVE  FALSE
    <3>1. t \in Token
      BY DEF TypeOK
    <3>2. lock = prior[i]
      BY <2>1, <2>2, <3>1, RecordIsOwner
    <3> QED
      BY <2>1, <2>2, <3>2
  <2> QED
    BY <2>1, <2>2
<1> QED
  BY <1>1, SafetyInvariant, TypeCorrect, PTL

\* A constructor that ends, whatever its outcome, gives the claim back.
THEOREM ClaimIsReturned == Spec => ClaimReturned
<1>1. TypeOK /\ [Next]_vars
        => [\A i \in Isolate : pc[i] \in Critical /\ pc'[i] \notin Critical \cup {"dead"}
                                 => ~claim']_vars
  <2> SUFFICES ASSUME TypeOK, Next, NEW i \in Isolate, pc[i] \in Critical,
                      pc'[i] \notin Critical \cup {"dead"}
               PROVE  ~claim'
    BY DEF vars
  <2>1. ASSUME NEW j \in Isolate, MakeClaim(j) \/ Close(j) PROVE ~claim'
    BY <2>1 DEF MakeClaim, Close, Goto, TypeOK, Critical
  <2>2. ASSUME NEW j \in Isolate, Step(j), ~DropClaim(j) PROVE ~claim'
    BY <2>2 DEF Step, Look, Judge, UnlinkStale, Create, Write, ReadOwn, UnlinkOwn,
                Goto, TypeOK, Critical
  <2>3. ASSUME NEW j \in Isolate, DropClaim(j) PROVE ~claim'
    BY <2>3 DEF DropClaim
  <2>4. ASSUME NEW q \in Pid, Crash(q) \/ Restart(q) PROVE ~claim'
    BY <2>4 DEF Crash, Restart, TypeOK, Critical
  <2> QED
    BY <2>1, <2>2, <2>3, <2>4 DEF Next
<1> QED
  BY <1>1, TypeCorrect, PTL DEF Spec, ClaimReturned

-----------------------------------------------------------------------------
(* The local models, LocalRuntime, as the instance Local of MCWorkers.     *)

\* LocalRuntime counts with the same operator.
LEMMA LocalSize == \A S : Local!Cardinality(S) = Cardinality(S)
BY DEF Local!Cardinality, Cardinality

\* Nobody plans, starts or stops a server while the lock is free.
LEMMA LocalFree ==
  ASSUME Local!IInv, lLock = "free", NEW q \in Processes
  PROVE  lPc[q] \notin {"plan", "stopping", "spawn", "write", "undo", "halt"}
  BY LocalAssumption DEF Local!IInv, Local!Typed, Local!Locked

\* One at a time does.
LEMMA LocalOne ==
  ASSUME Local!IInv, NEW p \in Processes, NEW q \in Processes,
         {lPc[p], lPc[q]} \subseteq {"plan", "stopping", "spawn", "write", "undo", "halt"}
  PROVE  p = q
  BY DEF Local!IInv, Local!Locked

\* Without a lease but that of one who does not use a server, all users are excused.
LEMMA LocalUnused ==
  ASSUME Local!IInv, NEW P, Local!Holders \subseteq P, P \cap Local!Users = {}
  PROVE  Local!Users \subseteq lExcused
  BY DEF Local!IInv, Local!Typed, Local!Locked, Local!Holders, Local!Users

\* The record is read as it is, or dropped.
LEMMA LocalRecord ==
  ASSUME Local!IInv
  PROVE  Local!Recorded \in {lRecord, Local!None} /\ Local!Recorded \in [sup : 0 .. lMade, server : BOOLEAN]
<1>1. Local!Recorded \in {lRecord, Local!None}
  BY DEF Local!Recorded
<1>2. lRecord \in [sup : 0 .. lMade, server : BOOLEAN] /\ lMade \in Nat
  BY LocalAssumption DEF Local!IInv, Local!Typed
<1>3. Local!None \in [sup : 0 .. lMade, server : BOOLEAN]
  BY <1>2 DEF Local!None
<1> QED
  BY <1>1, <1>2, <1>3

\* Only a supervisor that lives is told.
LEMMA LocalTells ==
  ASSUME Local!IInv, lAsked' = IF Local!Alive(lRecord.sup) THEN lAsked \cup {lRecord.sup} ELSE lAsked, lMade' = lMade
  PROVE  /\ lAsked' \subseteq 1 .. lMade'
         /\ \A i \in lAsked' : i \in lAsked \/ (i = lRecord.sup /\ Local!Alive(i))
         /\ lAsked \subseteq lAsked'
<1>1. CASE Local!Alive(lRecord.sup)
  <2>1. lRecord.sup \in 1 .. lMade /\ lAsked \subseteq 1 .. lMade
    BY <1>1, LocalAssumption DEF Local!IInv, Local!Typed, Local!Alive
  <2>2. lAsked' = lAsked \cup {lRecord.sup}
    BY <1>1
  <2> QED
    <3>1. \A i \in lAsked' : i \in lAsked \/ (i = lRecord.sup /\ Local!Alive(i))
      BY <1>1, <2>2
    <3>2. lAsked' \subseteq 1 .. lMade /\ lAsked \subseteq lAsked'
      BY <2>1, <2>2, Zenon
    <3> QED
      BY <3>1, <3>2
<1>2. CASE ~Local!Alive(lRecord.sup)
  BY <1>2 DEF Local!IInv, Local!Typed
<1> QED
  BY <1>1, <1>2

\* A server that is killed was up, and nothing else about the servers changes.
LEMMA LocalKilled ==
  ASSUME Local!IInv, lServer' = Local!KilledServer
  PROVE  /\ lServer' \in [Local!Sup -> {"none", "up", "killed", "dead"}]
         /\ \A i \in Local!Sup : lServer'[i] = lServer[i] \/ (lServer[i] = "up" /\ lServer'[i] = "killed")
  BY DEF Local!IInv, Local!Typed, Local!KilledServer

LEMMA LocalDegrades ==
  ASSUME Local!IInv, UNCHANGED <<lMade, lSup, lServes, lChild>>,
         \A i \in Local!Sup : lServer'[i] = lServer[i] \/ (lServer[i] = "up" /\ lServer'[i] = "killed")
  PROVE  Local!Owned'
<1>1. \A i, j \in Local!Sup : {lServer'[i], lServer'[j]} \subseteq {"up", "killed"} => i = j
  BY DEF Local!IInv, Local!Owned
<1>2. \A i \in Local!Sup : i <= lMade => lChild[i] \in Local!Sup
  BY LocalAssumption DEF Local!IInv, Local!Typed, Local!Owned, Local!Sup
<1>3. \A i \in Local!Sup : /\ lServer'[i] = "none" <=> lServer[i] = "none"
                           /\ lServer'[i] = "up" => lServer[i] = "up"
  OBVIOUS
<1>4. \A i \in Local!Sup : lSup[i] = "killing" => lServer'[lChild[i]] # "up"
  <2>1. \A i \in Local!Sup : lSup[i] = "killing" => i <= lMade
    BY LocalAssumption DEF Local!IInv, Local!Typed, Local!Owned, Local!Sup
  <2> QED
    BY <1>2, <1>3, <2>1 DEF Local!IInv, Local!Owned
<1> QED
  BY <1>1, <1>3, <1>4 DEF Local!IInv, Local!Owned

\* A supervisor is spawned to start a server or to adopt one that has lost its own.
LEMMA LocalSpawned ==
  ASSUME Local!IInv, NEW m \in Models, NEW c, Local!Spawn(m, c)
  PROVE  /\ lMade \in Nat /\ lMade' = lMade + 1 /\ lMade' \in 0 .. MaxSups /\ lMade' \in Local!Sup
         /\ lSup[lMade'] = "none"
         /\ \A j \in Local!Sup : /\ lSup'[j] = IF j = lMade' THEN "spawned" ELSE lSup[j]
                                 /\ lServes'[j] = IF j = lMade' THEN m ELSE lServes[j]
                                 /\ lChild'[j] = IF j = lMade' THEN c ELSE lChild[j]
                                 /\ j <= lMade' <=> j <= lMade \/ j = lMade'
         /\ lSup' \in [Local!Sup -> {"none", "spawned", "loop", "decided", "killing", "gone"}]
         /\ lServes' \in [Local!Sup -> Models]
         /\ c \in 1 .. lMade' => lChild' \in [Local!Sup -> 0 .. lMade']
<1>1. /\ lMade \in Nat /\ lMade' = lMade + 1 /\ lMade < MaxSups /\ lMade' \in Local!Sup
      /\ lSup' = [lSup EXCEPT ![lMade'] = "spawned"] /\ lServes' = [lServes EXCEPT ![lMade'] = m]
      /\ lChild' = [lChild EXCEPT ![lMade'] = c]
  BY LocalAssumption DEF Local!IInv, Local!Typed, Local!Spawn, Local!Sup
<1>2. lSup[lMade'] = "none"
  BY <1>1 DEF Local!IInv, Local!Owned
<1>3. \A j \in Local!Sup : /\ lSup'[j] = IF j = lMade' THEN "spawned" ELSE lSup[j]
                           /\ lServes'[j] = IF j = lMade' THEN m ELSE lServes[j]
                           /\ lChild'[j] = IF j = lMade' THEN c ELSE lChild[j]
  BY <1>1 DEF Local!IInv, Local!Typed
<1>4. \A j \in Local!Sup : j <= lMade' <=> j <= lMade \/ j = lMade'
  BY <1>1 DEF Local!Sup
<1>5. c \in 1 .. lMade' => lChild' \in [Local!Sup -> 0 .. lMade']
  <2>1. \A j \in Local!Sup : lChild[j] \in 0 .. lMade'
    BY <1>1 DEF Local!IInv, Local!Typed
  <2> QED
    BY <1>1, <2>1 DEF Local!IInv, Local!Typed
<1> QED
  BY <1>1, <1>2, <1>3, <1>4, <1>5, LocalAssumption DEF Local!IInv, Local!Typed

LEMMA LocalStarter ==
  ASSUME Local!IInv, NEW m \in Models, Local!Spawn(m, lMade + 1), UNCHANGED lServer
  PROVE  Local!Owned' /\ \A j \in Local!Sup : lChild'[j] = lMade' <=> j = lMade'
<1>0. lMade \in Nat /\ lMade + 1 \in 1 .. lMade + 1
  BY DEF Local!IInv, Local!Typed
<1>1. \A j \in Local!Sup : lChild[j] # lMade'
  BY LocalSpawned DEF Local!IInv, Local!Typed
<1>2. \A j \in Local!Sup : lChild'[j] = lMade' <=> j = lMade'
  BY <1>1, LocalSpawned
<1>3. \A i, j \in Local!Sup : /\ lChild'[j] = i /\ j # i => lSup'[i] = "gone"
                              /\ lChild'[j] = lChild'[i] /\ i <= lMade' => lServes'[j] = lServes'[i]
  BY <1>1, <1>2, LocalSpawned DEF Local!IInv, Local!Owned
<1>4. \A i \in Local!Sup :
        /\ IF i > lMade' THEN lSup'[i] = "none" /\ lChild'[i] = 0 /\ lServer'[i] = "none"
                        ELSE lSup'[i] # "none" /\ lChild'[i] \in 1 .. i
        /\ lServer'[i] # "none" => lChild'[i] = i /\ lSup'[i] # "spawned"
        /\ lSup'[i] = "killing" => lServer'[lChild'[i]] # "up"
  BY <1>0, LocalSpawned DEF Local!IInv, Local!Owned, Local!Sup
<1>5. \A i, j \in Local!Sup : {lServer'[i], lServer'[j]} \subseteq {"up", "killed"} => i = j
  BY DEF Local!IInv, Local!Owned
<1>6. Local!Owned'
  <2>1. \A i \in Local!Sup : \A j \in Local!Sup :
          /\ lChild'[j] = i /\ j # i => lSup'[i] = "gone"
          /\ lChild'[j] = lChild'[i] /\ i <= lMade' => lServes'[j] = lServes'[i]
          /\ {lServer'[i], lServer'[j]} \subseteq {"up", "killed"} => i = j
    BY <1>3, <1>5, Zenon
  <2> QED
    BY <1>4, <2>1, Zenon DEF Local!Owned
<1> QED
  BY <1>2, <1>6

LEMMA LocalAdopter ==
  ASSUME Local!IInv, NEW o \in Local!Sup, o <= lMade, lSup[o] = "gone", Local!Spawn(lServes[o], lChild[o]), UNCHANGED lServer
  PROVE  Local!Owned' /\ lChild[o] \in 1 .. lMade /\ lChild'[lMade'] = lChild[o] /\ lServes'[lMade'] = lServes[o]
<1>0. lServes[o] \in Models /\ lChild[o] \in 1 .. o /\ lMade \in Nat /\ lChild[o] \in Local!Sup /\ lChild[o] <= lMade
  BY LocalAssumption DEF Local!IInv, Local!Typed, Local!Owned, Local!Sup
<1>1. lChild[o] # lMade' /\ lChild[o] \in 1 .. lMade
  BY <1>0, LocalSpawned
<1>2. lSup[lChild[o]] = "gone"
  BY <1>0 DEF Local!IInv, Local!Owned
<1>3. \A i, j \in Local!Sup : lChild'[j] = i /\ j # i => lSup'[i] = "gone"
  BY <1>0, <1>1, <1>2, LocalSpawned DEF Local!IInv, Local!Owned
<1>5. \A i, j \in Local!Sup : lChild'[j] = lChild'[i] /\ i <= lMade' => lServes'[j] = lServes'[i]
  <2>1. \A j \in Local!Sup : j > lMade /\ j # lMade' => lChild'[j] = 0
    BY <1>0, LocalSpawned DEF Local!IInv, Local!Owned, Local!Sup
  <2>2. \A i \in Local!Sup : i <= lMade' => lChild'[i] # 0
    BY <1>0, LocalSpawned DEF Local!IInv, Local!Owned, Local!Sup
  <2> QED
    BY <1>0, <2>1, <2>2, LocalSpawned DEF Local!IInv, Local!Owned
<1>4. \A i \in Local!Sup :
        /\ IF i > lMade' THEN lSup'[i] = "none" /\ lChild'[i] = 0 /\ lServer'[i] = "none"
                        ELSE lSup'[i] # "none" /\ lChild'[i] \in 1 .. i
        /\ lServer'[i] # "none" => lChild'[i] = i /\ lSup'[i] # "spawned"
        /\ lSup'[i] = "killing" => lServer'[lChild'[i]] # "up"
  BY <1>0, <1>1, LocalSpawned, SMTT(25) DEF Local!IInv, Local!Owned, Local!Sup
<1> QED
  BY <1>0, <1>1, <1>3, <1>4, <1>5, LocalSpawned DEF Local!IInv, Local!Owned

\* A supervisor goes on to its next stage, and may kill its server.
LEMMA LocalStage ==
  ASSUME Local!IInv, NEW i \in Local!Sup, NEW stage \in {"decided", "killing", "gone"},
         Local!Alive(i), lSup' = [lSup EXCEPT ![i] = stage], UNCHANGED <<lMade, lServes, lChild>>,
         \A k \in Local!Sup : lServer'[k] = lServer[k] \/ (lServer[k] = "up" /\ lServer'[k] = "killed"),
         stage = "killing" => lServer'[lChild[i]] # "up"
  PROVE  Local!Owned' /\ \A k \in Local!Sup : lSup'[k] = IF k = i THEN stage ELSE lSup[k]
<1>1. \A k \in Local!Sup : lSup'[k] = IF k = i THEN stage ELSE lSup[k]
  BY DEF Local!IInv, Local!Typed
<1>2. i <= lMade /\ lSup[i] \notin {"none", "gone"} /\ lMade \in Nat
  BY LocalAssumption DEF Local!IInv, Local!Typed, Local!Owned, Local!Alive, Local!Sup
<1>3. \A j \in Local!Sup : lChild[j] = i => j = i
  BY <1>2 DEF Local!IInv, Local!Owned
<1>4. \A k \in Local!Sup : lSup[k] = "killing" => k <= lMade /\ lChild[k] \in Local!Sup
  BY <1>2, LocalAssumption DEF Local!IInv, Local!Typed, Local!Owned, Local!Sup
<1>5. \A k \in Local!Sup : /\ lServer'[k] = "none" <=> lServer[k] = "none"
                           /\ lServer'[k] = "up" => lServer[k] = "up"
                           /\ lServer'[k] = "killed" => lServer[k] \in {"up", "killed"}
  OBVIOUS
<1>6. \A k \in Local!Sup : lSup'[k] = "killing" => lServer'[lChild[k]] # "up"
  BY <1>1, <1>4, <1>5 DEF Local!IInv, Local!Owned
<1>7. \A k, j \in Local!Sup : /\ lChild[j] = k /\ j # k => lSup'[k] = "gone"
                              /\ lChild[j] = lChild[k] /\ k <= lMade => lServes[j] = lServes[k]
  BY <1>1, <1>3 DEF Local!IInv, Local!Owned
<1>8. \A k, j \in Local!Sup : {lServer'[k], lServer'[j]} \subseteq {"up", "killed"} => k = j
  BY <1>5 DEF Local!IInv, Local!Owned
<1>9. \A k \in Local!Sup :
        /\ IF k > lMade THEN lSup'[k] = "none" /\ lChild[k] = 0 /\ lServer'[k] = "none"
                       ELSE lSup'[k] # "none" /\ lChild[k] \in 1 .. k
        /\ lServer'[k] # "none" => lChild[k] = k /\ lSup'[k] # "spawned"
  BY <1>1, <1>2, <1>5 DEF Local!IInv, Local!Owned, Local!Sup
<1> QED
  BY <1>1, <1>6, <1>7, <1>8, <1>9 DEF Local!Owned

\* What is adopted has no supervisor left, and none of its users notices.
LEMMA LocalAdopted ==
  ASSUME Local!IInv, Local!Orphan, Local!Spawn(lServes[lRecord.sup], lChild[lRecord.sup]),
         lRecord' = [sup |-> lMade + 1, server |-> TRUE],
         UNCHANGED <<lPc, lWant, lLock, lLeases, lServer, lAsked, lExcused, lJudged, lLost, lStrays>>,
         \A p \in Processes : lPc[p] \notin {"spawn", "write"}
  PROVE  Local!IInv'
<1>1. lRecord.sup \in Local!Sup /\ lRecord.sup <= lMade /\ lSup[lRecord.sup] = "gone" /\ lMade \in Nat
  <2>1. lRecord.sup \in Local!Sup /\ lRecord.sup <= lMade /\ lMade \in Nat
    BY LocalAssumption DEF Local!Orphan, Local!IInv, Local!Typed, Local!Sup
  <2> QED
    BY <2>1 DEF Local!Orphan, Local!Alive, Local!IInv, Local!Typed, Local!Owned
<1>2. PICK o \in Local!Sup : o = lRecord.sup
  BY <1>1
<1>3. /\ Local!Owned' /\ lChild[o] \in 1 .. lMade /\ lChild'[lMade'] = lChild[o] /\ lServes'[lMade'] = lServes[o]
      /\ lServes[o] \in Models
  BY <1>1, <1>2, LocalAdopter DEF Local!IInv, Local!Typed
<1>4. /\ lMade' = lMade + 1 /\ lMade' \in 0 .. MaxSups /\ lMade' \in Local!Sup
      /\ lSup' \in [Local!Sup -> {"none", "spawned", "loop", "decided", "killing", "gone"}]
      /\ lServes' \in [Local!Sup -> Models] /\ lChild' \in [Local!Sup -> 0 .. lMade']
      /\ \A j \in Local!Sup : /\ lSup'[j] = IF j = lMade' THEN "spawned" ELSE lSup[j]
                              /\ lServes'[j] = IF j = lMade' THEN lServes[o] ELSE lServes[j]
                              /\ lChild'[j] = IF j = lMade' THEN lChild[o] ELSE lChild[j]
  BY <1>1, <1>2, <1>3, LocalSpawned
<1>5. lMade' # 0 /\ lMade' \notin lAsked /\ lRecord'.sup = lMade'
  BY <1>1, <1>4 DEF Local!IInv, Local!Typed
<1>6. Local!Typed'
  <2>1. lRecord' \in [sup : 0 .. lMade', server : BOOLEAN] /\ lAsked' \subseteq 1 .. lMade'
    BY <1>1, <1>4 DEF Local!IInv, Local!Typed
  <2> QED
    BY <1>4, <2>1 DEF Local!IInv, Local!Typed
<1>7. Local!Locked'
  BY DEF Local!IInv, Local!Locked, Local!Users
<1>8. Local!Named'
  <2>1. ASSUME NEW j \in Local!Sup, Local!Alive(j)', lChild'[j] = lChild'[lMade'], j # lMade' PROVE FALSE
    <3>1. Local!Alive(j) /\ lChild[j] = lChild[o]
      BY <1>3, <1>4, <2>1 DEF Local!Alive
    <3>2. j = o
      BY <1>1, <1>2, <3>1 DEF Local!IInv, Local!Named, Local!Orphan
    <3> QED
      BY <1>1, <1>2, <3>1, <3>2 DEF Local!Alive
  <2> QED
    BY <1>5, <2>1 DEF Local!Named
<1>9. Local!Told'
  <2>1. lSup'[lMade'] = "spawned"
    BY <1>4
  <2> QED
    BY <1>5, <2>1 DEF Local!IInv, Local!Told, Local!Users
<1>10. Local!Served'
  <2>1. SUFFICES ASSUME NEW p \in Processes, lPc[p] = "using", p \notin lExcused
                 PROVE  \E i \in Local!Sup : /\ lServer[i] = "up"
                                             /\ \A j \in Local!Sup : lChild'[j] = i =>
                                                  /\ lServes'[j] = lWant[p]
                                                  /\ Local!Alive(j)' => j \notin lAsked /\ lSup'[j] # "decided"
    BY DEF Local!Served
  <2>2. PICK i \in Local!Sup : /\ lServer[i] = "up"
                               /\ \A j \in Local!Sup : lChild[j] = i =>
                                    /\ lServes[j] = lWant[p]
                                    /\ Local!Alive(j) => j \notin lAsked /\ lSup[j] # "decided"
    BY <2>1 DEF Local!IInv, Local!Served
  <2>3. ASSUME NEW j \in Local!Sup, lChild'[j] = i
        PROVE  lServes'[j] = lWant[p] /\ (Local!Alive(j)' => j \notin lAsked /\ lSup'[j] # "decided")
    <3>1. CASE j = lMade'
      BY <1>2, <1>3, <1>4, <1>5, <2>2, <2>3, <3>1
    <3>2. CASE j # lMade'
      <4>1. lChild[j] = i /\ lServes'[j] = lServes[j] /\ lSup'[j] = lSup[j]
        BY <1>4, <2>3, <3>2
      <4> QED
        BY <2>2, <4>1 DEF Local!Alive
    <3> QED
      BY <3>1, <3>2
  <2> QED
    BY <2>2, <2>3
<1> QED
  BY <1>3, <1>6, <1>7, <1>8, <1>9, <1>10 DEF Local!IInv

\* A server that has no user but the excused is killed, and the record goes.
LEMMA LocalStops ==
  ASSUME Local!IInv, lServer' = Local!KilledServer, lRecord' = Local!None, Local!Users \subseteq lExcused,
         UNCHANGED <<lMade, lSup, lServes, lChild, lAsked, lExcused>>,
         lPc' \in [Processes -> {"off", "want", "plan", "stopping", "spawn", "write", "health", "failed", "undo",
                           "using", "release", "halt", "gone"}],
         lWant' = lWant, lLock' \in Processes \cup {"free", "nobody"}, lLeases' \subseteq Processes,
         lJudged' \subseteq Processes, lLost' \in BOOLEAN, lStrays' \subseteq Processes, Local!Users' \subseteq Local!Users,
         \A p \in Processes : lPc'[p] # "write"
  PROVE  Local!Typed' /\ Local!Owned' /\ Local!Named' /\ Local!Told' /\ Local!Served'
<1>1. Local!Typed'
  BY LocalKilled, LocalAssumption DEF Local!IInv, Local!Typed, Local!None
<1>2. Local!Owned'
  BY LocalKilled, LocalDegrades
<1>3. Local!Named'
  BY DEF Local!Named, Local!None
<1>4. Local!Told'
  BY DEF Local!Told, Local!None, Local!Alive
<1>5. Local!Served'
  BY DEF Local!Served, Local!Users
<1> QED
  BY <1>1, <1>2, <1>3, <1>4, <1>5

LEMMA LocalWantSafe == ASSUME Local!IInv, NEW p \in Processes, Local!Want(p) PROVE Local!IInv'
<1>1. Local!Typed'
  BY LocalAssumption DEF Local!Want, Local!kept, Local!To, Local!IInv, Local!Typed, Local!Sup
<1>2. Local!Locked'
  BY DEF Local!Want, Local!kept, Local!To, Local!IInv, Local!Typed, Local!Locked, Local!Users, Local!Sup
<1>3. Local!Owned'
  BY DEF Local!Want, Local!kept, Local!To, Local!IInv, Local!Typed, Local!Owned, Local!Sup
<1>4. Local!Named'
  BY DEF Local!Want, Local!kept, Local!To, Local!IInv, Local!Typed, Local!Owned, Local!Named, Local!Alive,
     Local!None, Local!Sup
<1>5. Local!Told'
  BY DEF Local!Want, Local!kept, Local!To, Local!IInv, Local!Typed, Local!Owned, Local!Named, Local!Told,
     Local!Alive, Local!Users, Local!None, Local!Sup
<1>6. Local!Served'
  BY DEF Local!Want, Local!kept, Local!To, Local!IInv, Local!Typed, Local!Owned, Local!Named, Local!Locked,
     Local!Served, Local!Alive, Local!Users, Local!Sup
<1> QED
  BY <1>1, <1>2, <1>3, <1>4, <1>5, <1>6 DEF Local!IInv

LEMMA LocalLockSafe == ASSUME Local!IInv, NEW p \in Processes, Local!Lock(p) PROVE Local!IInv'
<1>1. Local!Typed'
  <2>1. lRecord' \in [sup : 0 .. lMade, server : BOOLEAN]
    BY LocalRecord DEF Local!Lock, Local!kept
  <2> QED
    BY <2>1 DEF Local!Lock, Local!kept, Local!To, Local!Enter, Local!IInv, Local!Typed
<1>2. Local!Locked'
  BY LocalFree DEF Local!Lock, Local!kept, Local!To, Local!Enter, Local!Recorded, Local!IInv,
     Local!Typed, Local!Locked, Local!Users, Local!Sup
<1>3. Local!Owned'
  BY LocalFree DEF Local!Lock, Local!kept, Local!To, Local!Enter, Local!Recorded, Local!IInv,
     Local!Typed, Local!Owned, Local!Sup
<1>4. Local!Named'
  BY LocalFree DEF Local!Lock, Local!kept, Local!To, Local!Enter, Local!Recorded, Local!IInv,
     Local!Typed, Local!Owned, Local!Named, Local!Alive, Local!None, Local!Sup
<1>5. Local!Told'
  BY LocalFree DEF Local!Lock, Local!kept, Local!To, Local!Enter, Local!Recorded, Local!IInv,
     Local!Typed, Local!Owned, Local!Named, Local!Told, Local!Alive, Local!Users, Local!None, Local!Sup
<1>6. Local!Served'
  BY LocalFree DEF Local!Lock, Local!kept, Local!To, Local!Enter, Local!Recorded, Local!IInv,
     Local!Typed, Local!Owned, Local!Named, Local!Locked, Local!Served, Local!Alive, Local!Users,
     Local!Sup
<1> QED
  BY <1>1, <1>2, <1>3, <1>4, <1>5, <1>6 DEF Local!IInv

LEMMA LocalAdoptSafe == ASSUME Local!IInv, NEW p \in Processes, Local!Adopt(p) PROVE Local!IInv'
<1>1. \A q \in Processes : lPc[q] \notin {"spawn", "write"}
  BY LocalOne DEF Local!Adopt, Local!kept
<1> QED
  BY <1>1, LocalAdopted DEF Local!Adopt, Local!kept

LEMMA LocalAttachSafe == ASSUME Local!IInv, NEW p \in Processes, Local!Attach(p) PROVE Local!IInv'
<1>1. Local!Typed'
  BY LocalAssumption, LocalOne DEF Local!Attach, Local!kept, Local!To, Local!Holders, Local!Doomed, Local!IInv,
     Local!Typed, Local!Sup
<1>2. Local!Locked'
  BY LocalOne DEF Local!Attach, Local!kept, Local!To, Local!Holders, Local!Doomed, Local!IInv, Local!Typed,
     Local!Locked, Local!Users, Local!Sup
<1>3. Local!Owned'
  BY LocalOne DEF Local!Attach, Local!kept, Local!To, Local!Holders, Local!Doomed, Local!IInv, Local!Typed,
     Local!Owned, Local!Sup
<1>4. Local!Named'
  BY LocalOne DEF Local!Attach, Local!kept, Local!To, Local!Holders, Local!Doomed, Local!IInv, Local!Typed,
     Local!Owned, Local!Named, Local!Alive, Local!None, Local!Sup
<1>5. Local!Told'
  BY LocalOne DEF Local!Attach, Local!kept, Local!To, Local!Holders, Local!Doomed, Local!IInv, Local!Typed,
     Local!Owned, Local!Named, Local!Told, Local!Alive, Local!Users, Local!None, Local!Sup
<1>6. Local!Served'
  BY LocalOne DEF Local!Attach, Local!kept, Local!To, Local!Holders, Local!Doomed, Local!IInv, Local!Typed,
     Local!Owned, Local!Named, Local!Locked, Local!Served, Local!Alive, Local!Users, Local!Sup
<1> QED
  BY <1>1, <1>2, <1>3, <1>4, <1>5, <1>6 DEF Local!IInv

LEMMA LocalStopFirstSafe == ASSUME Local!IInv, NEW p \in Processes, Local!StopFirst(p) PROVE Local!IInv'
<1>1. Local!Typed'
  <2>1. lAsked' \subseteq 1 .. lMade'
    BY LocalTells DEF Local!StopFirst, Local!kept, Local!Stopping
  <2>2. lRecord' = lRecord
    BY DEF Local!StopFirst, Local!kept
  <2> QED
    BY <2>1, <2>2 DEF Local!StopFirst, Local!kept, Local!To, Local!IInv, Local!Typed
<1>2. Local!Locked'
  BY LocalUnused, LocalOne DEF Local!StopFirst, Local!kept, Local!To, Local!Orphan, Local!Holders, Local!Unused,
     Local!Stopping, Local!IInv, Local!Typed, Local!Locked, Local!Users, Local!Sup
<1>3. Local!Owned'
  BY LocalUnused, LocalOne DEF Local!StopFirst, Local!kept, Local!To, Local!Orphan, Local!Holders, Local!Unused,
     Local!Stopping, Local!IInv, Local!Typed, Local!Owned, Local!Sup
<1>4. Local!Named'
  BY LocalUnused, LocalOne DEF Local!StopFirst, Local!kept, Local!To, Local!Orphan, Local!Holders, Local!Unused,
     Local!Stopping, Local!IInv, Local!Typed, Local!Owned, Local!Named, Local!Alive, Local!None,
     Local!Sup
<1>5. Local!Told'
  <2>1. Local!Holders = {}
    BY DEF Local!StopFirst, Local!kept, Local!Orphan, Local!Unused
  <2>2. Local!Users \subseteq lExcused
    BY <2>1, LocalUnused
  <2>3. Local!Users' \subseteq Local!Users
    BY DEF Local!StopFirst, Local!kept, Local!To, Local!IInv, Local!Typed, Local!Users
  <2> QED
    BY <2>2, <2>3 DEF Local!StopFirst, Local!kept, Local!Told
<1>6. Local!Served'
  BY LocalUnused, LocalOne DEF Local!StopFirst, Local!kept, Local!To, Local!Orphan, Local!Holders, Local!Unused,
     Local!Stopping, Local!IInv, Local!Typed, Local!Owned, Local!Named, Local!Locked, Local!Served,
     Local!Alive, Local!Users, Local!Sup
<1> QED
  BY <1>1, <1>2, <1>3, <1>4, <1>5, <1>6 DEF Local!IInv

LEMMA LocalRefusePlanSafe == ASSUME Local!IInv, NEW p \in Processes, Local!RefusePlan(p) PROVE Local!IInv'
<1>1. Local!Typed'
  BY LocalAssumption, LocalOne DEF Local!RefusePlan, Local!kept, Local!To, Local!Refuse, Local!IInv, Local!Typed,
     Local!Sup
<1>2. Local!Locked'
  BY LocalOne DEF Local!RefusePlan, Local!kept, Local!To, Local!Refuse, Local!IInv, Local!Typed, Local!Locked,
     Local!Users, Local!Sup
<1>3. Local!Owned'
  BY LocalOne DEF Local!RefusePlan, Local!kept, Local!To, Local!Refuse, Local!IInv, Local!Typed, Local!Owned,
     Local!Sup
<1>4. Local!Named'
  BY LocalOne DEF Local!RefusePlan, Local!kept, Local!To, Local!Refuse, Local!IInv, Local!Typed, Local!Owned,
     Local!Named, Local!Alive, Local!None, Local!Sup
<1>5. Local!Told'
  BY LocalOne DEF Local!RefusePlan, Local!kept, Local!To, Local!Refuse, Local!IInv, Local!Typed, Local!Owned,
     Local!Named, Local!Told, Local!Alive, Local!Users, Local!None, Local!Sup
<1>6. Local!Served'
  BY LocalOne DEF Local!RefusePlan, Local!kept, Local!To, Local!Refuse, Local!IInv, Local!Typed, Local!Owned,
     Local!Named, Local!Locked, Local!Served, Local!Alive, Local!Users, Local!Sup
<1> QED
  BY <1>1, <1>2, <1>3, <1>4, <1>5, <1>6 DEF Local!IInv

LEMMA LocalStoppedSafe == ASSUME Local!IInv, NEW p \in Processes, Local!Stopped(p) PROVE Local!IInv'
<1>1. Local!Users \subseteq lExcused
  BY DEF Local!Stopped, Local!kept, Local!IInv, Local!Told
<1>2. /\ lPc' \in [Processes -> {"off", "want", "plan", "stopping", "spawn", "write", "health", "failed", "undo",
                           "using", "release", "halt", "gone"}]
      /\ Local!Users' \subseteq Local!Users /\ \A q \in Processes : lPc'[q] = IF q = p THEN "spawn" ELSE lPc[q]
  BY DEF Local!Stopped, Local!kept, Local!To, Local!IInv, Local!Typed, Local!Users
<1>3. \A q \in Processes : lPc'[q] # "write"
  BY <1>2, LocalOne DEF Local!Stopped, Local!kept
<1>4. Local!Typed' /\ Local!Owned' /\ Local!Named' /\ Local!Told' /\ Local!Served'
  BY <1>1, <1>2, <1>3, LocalStops DEF Local!Stopped, Local!kept, Local!IInv, Local!Typed
<1>5. Local!Locked'
  BY <1>2 DEF Local!Stopped, Local!kept, Local!IInv, Local!Locked, Local!Users
<1> QED
  BY <1>4, <1>5 DEF Local!IInv

LEMMA LocalSpawnForSafe == ASSUME Local!IInv, NEW p \in Processes, Local!SpawnFor(p) PROVE Local!IInv'
<1>1. lRecord = Local!None /\ lRecord' = Local!None /\ UNCHANGED <<lWant, lServer, lAsked, lExcused>> /\ lRecord.sup = 0
  BY DEF Local!SpawnFor, Local!kept, Local!IInv, Local!Named, Local!None
<1>2. \A q \in Processes : q # p => lPc[q] \notin {"plan", "stopping", "spawn", "write", "undo", "halt"}
  BY LocalOne DEF Local!SpawnFor, Local!kept
<1>3. lPc[p] \in {"spawn", "plan"} /\ lMade \in Nat /\ lAsked \subseteq 1 .. lMade
  BY LocalAssumption DEF Local!SpawnFor, Local!kept, Local!IInv, Local!Typed
<1>4. Local!IInv'
  <2>1. /\ Local!Spawn(lWant[p], lMade + 1) /\ lLeases' = lLeases \cup {p} /\ UNCHANGED <<lLock, lJudged, lLost, lStrays>>
        /\ \A q \in Processes : lPc'[q] = IF q = p THEN "write" ELSE lPc[q]
        /\ lPc' \in [Processes -> {"off", "want", "plan", "stopping", "spawn", "write", "health", "failed", "undo",
                             "using", "release", "halt", "gone"}]
    BY DEF Local!SpawnFor, Local!kept, Local!To, Local!IInv, Local!Typed
  <2>2. lWant[p] \in Models
    BY DEF Local!IInv, Local!Typed
  <2>3. Local!Owned' /\ \A j \in Local!Sup : lChild'[j] = lMade' <=> j = lMade'
    BY <1>1, <2>1, <2>2, LocalStarter
  <2>4. /\ lMade' = lMade + 1 /\ lMade' \in 0 .. MaxSups /\ lMade' \in Local!Sup
        /\ lSup' \in [Local!Sup -> {"none", "spawned", "loop", "decided", "killing", "gone"}]
        /\ lServes' \in [Local!Sup -> Models] /\ lChild' \in [Local!Sup -> 0 .. lMade']
        /\ \A j \in Local!Sup : /\ lSup'[j] = IF j = lMade' THEN "spawned" ELSE lSup[j]
                                /\ lServes'[j] = IF j = lMade' THEN lWant[p] ELSE lServes[j]
                                /\ lChild'[j] = IF j = lMade' THEN lMade' ELSE lChild[j]
    <3>1. lMade + 1 = lMade' /\ lMade + 1 \in 1 .. lMade'
      BY <1>3, <2>1, <2>2, LocalSpawned
    <3> QED
      BY <2>1, <2>2, <3>1, LocalSpawned
  <2>5. Local!Typed'
    <3>1. lRecord' \in [sup : 0 .. lMade', server : BOOLEAN] /\ lAsked' \subseteq 1 .. lMade' /\ lLeases' \subseteq Processes
      BY <1>1, <1>3, <2>1, <2>4 DEF Local!IInv, Local!Typed, Local!None, Local!Holders
    <3> QED
      BY <1>1, <2>1, <2>4, <3>1 DEF Local!IInv, Local!Typed
  <2>6. Local!Locked'
    BY <1>1, <1>2, <1>3, <2>1 DEF Local!IInv, Local!Locked, Local!Users, Local!Holders
  <2>7. Local!Named'
    <3>1. lMade' # 0 /\ lMade' \notin lAsked /\ lSup'[lMade'] = "spawned"
      BY <1>3, <2>4
    <3> QED
      BY <1>1, <2>3, <3>1 DEF Local!Named, Local!None
  <2>8. Local!Told'
    BY <1>1, <1>2, <2>1 DEF Local!Told, Local!Alive, Local!None
  <2>9. Local!Served'
    <3>1. SUFFICES ASSUME NEW q \in Processes, lPc'[q] = "using", q \notin lExcused
                   PROVE  \E i \in Local!Sup : /\ lServer[i] = "up"
                                               /\ \A j \in Local!Sup : lChild'[j] = i =>
                                                    /\ lServes'[j] = lWant[q]
                                                    /\ Local!Alive(j)' => j \notin lAsked /\ lSup'[j] # "decided"
      BY <1>1 DEF Local!Served
    <3>2. lPc[q] = "using"
      BY <2>1, <3>1
    <3>3. PICK i \in Local!Sup : /\ lServer[i] = "up"
                                 /\ \A j \in Local!Sup : lChild[j] = i =>
                                      /\ lServes[j] = lWant[q]
                                      /\ Local!Alive(j) => j \notin lAsked /\ lSup[j] # "decided"
      BY <3>1, <3>2 DEF Local!IInv, Local!Served
    <3>4. i # lMade'
      BY <1>3, <2>4, <3>3 DEF Local!IInv, Local!Owned
    <3>5. \A j \in Local!Sup : lChild'[j] = i => /\ lChild[j] = i /\ lServes'[j] = lServes[j]
                                                 /\ lSup'[j] = lSup[j]
      BY <2>4, <3>4
    <3> QED
      BY <3>3, <3>5 DEF Local!Alive
  <2> QED
    BY <2>3, <2>5, <2>6, <2>7, <2>8, <2>9 DEF Local!IInv
<1> QED
  BY <1>4

LEMMA LocalWriteSafe == ASSUME Local!IInv, NEW p \in Processes, Local!Write(p) PROVE Local!IInv'
<1>1. Local!Typed'
  BY LocalAssumption, LocalOne DEF Local!Write, Local!kept, Local!To, Local!IInv, Local!Typed, Local!Sup
<1>2. Local!Locked'
  BY LocalOne DEF Local!Write, Local!kept, Local!To, Local!IInv, Local!Typed, Local!Locked, Local!Users, Local!Sup
<1>3. Local!Owned'
  BY LocalOne DEF Local!Write, Local!kept, Local!To, Local!IInv, Local!Typed, Local!Owned, Local!Sup
<1>4. Local!Named'
  BY LocalOne DEF Local!Write, Local!kept, Local!To, Local!IInv, Local!Typed, Local!Owned, Local!Named, Local!Alive,
     Local!None, Local!Sup
<1>5. Local!Told'
  BY LocalOne DEF Local!Write, Local!kept, Local!To, Local!IInv, Local!Typed, Local!Owned, Local!Named, Local!Told,
     Local!Alive, Local!Users, Local!None, Local!Sup
<1>6. Local!Served'
  BY LocalOne DEF Local!Write, Local!kept, Local!To, Local!IInv, Local!Typed, Local!Owned, Local!Named,
     Local!Locked, Local!Served, Local!Alive, Local!Users, Local!Sup
<1> QED
  BY <1>1, <1>2, <1>3, <1>4, <1>5, <1>6 DEF Local!IInv

LEMMA LocalHealthySafe == ASSUME Local!IInv, NEW p \in Processes, Local!Healthy(p) PROVE Local!IInv'
<1>1. Local!Typed'
  BY LocalAssumption DEF Local!Healthy, Local!kept, Local!To, Local!Recorded, Local!IInv, Local!Typed, Local!Sup
<1>2. Local!Locked'
  BY DEF Local!Healthy, Local!kept, Local!To, Local!Recorded, Local!IInv, Local!Typed, Local!Locked, Local!Users,
     Local!Sup
<1>3. Local!Owned'
  BY DEF Local!Healthy, Local!kept, Local!To, Local!Recorded, Local!IInv, Local!Typed, Local!Owned, Local!Sup
<1>4. Local!Named'
  BY DEF Local!Healthy, Local!kept, Local!To, Local!Recorded, Local!IInv, Local!Typed, Local!Owned, Local!Named,
     Local!Alive, Local!None, Local!Sup
<1>5. Local!Told'
  BY DEF Local!Healthy, Local!kept, Local!To, Local!Recorded, Local!IInv, Local!Typed, Local!Owned, Local!Named,
     Local!Told, Local!Alive, Local!Users, Local!None, Local!Sup
<1>6. Local!Served'
  <2>1. /\ \A q \in Processes : lPc'[q] = IF q = p THEN "using" ELSE lPc[q]
        /\ lExcused \subseteq lExcused' /\ UNCHANGED <<lWant, lSup, lServes, lChild, lServer, lAsked>>
    BY DEF Local!Healthy, Local!kept, Local!To, Local!IInv, Local!Typed
  <2>2. ASSUME p \notin lExcused'
        PROVE  \E i \in Local!Sup : /\ lServer[i] = "up"
                                    /\ \A j \in Local!Sup : lChild[j] = i =>
                                         /\ lServes[j] = lWant[p]
                                         /\ Local!Alive(j) => j \notin lAsked /\ lSup[j] # "decided"
    <3>1. Local!Serves(lWant[p]) /\ Local!Recorded # Local!None /\ lServer[lChild[lRecord.sup]] = "up" /\ p \notin lExcused
      BY <2>2 DEF Local!Healthy, Local!kept
    <3>2. PICK i \in Local!Sup, k \in Local!Sup : lServer[i] = "up" /\ lChild[k] = i /\ lServes[k] = lWant[p]
      BY <3>1 DEF Local!Serves
    <3>3. lRecord.sup \in Local!Sup /\ lRecord.sup <= lMade /\ lChild[lRecord.sup] \in Local!Sup
      <4>1. lRecord # Local!None
        BY <3>1 DEF Local!Recorded
      <4>2. lRecord.sup \in 1 .. lMade /\ lMade \in 0 .. MaxSups
        BY <4>1, LocalAssumption DEF Local!IInv, Local!Typed, Local!Named
      <4> QED
        BY <4>2, LocalAssumption DEF Local!IInv, Local!Typed, Local!Owned, Local!Sup
    <3>4. lChild[lRecord.sup] = i
      BY <3>1, <3>2, <3>3 DEF Local!IInv, Local!Owned
    <3>5. \A j \in Local!Sup : lChild[j] = i => lServes[j] = lWant[p]
      <4>1. i <= lMade /\ lChild[i] = i
        BY <3>2, LocalAssumption DEF Local!IInv, Local!Typed, Local!Owned, Local!Sup
      <4>2. \A j \in Local!Sup : lChild[j] = lChild[i] => lServes[j] = lServes[i]
        BY <4>1 DEF Local!IInv, Local!Owned
      <4> QED
        BY <3>2, <4>1, <4>2
    <3>6. ASSUME NEW j \in Local!Sup, lChild[j] = i, Local!Alive(j) PROVE j \notin lAsked /\ lSup[j] # "decided"
      <4>1. j = lRecord.sup
        BY <3>3, <3>4, <3>6 DEF Local!IInv, Local!Named, Local!Sup
      <4>2. p \in Local!Users
        BY DEF Local!Healthy, Local!kept, Local!Users
      <4> QED
        BY <3>1, <3>6, <4>1, <4>2 DEF Local!IInv, Local!Told
    <3> QED
      BY <3>2, <3>5, <3>6
  <2> QED
    BY <2>1, <2>2 DEF Local!IInv, Local!Served, Local!Alive
<1> QED
  BY <1>1, <1>2, <1>3, <1>4, <1>5, <1>6 DEF Local!IInv

LEMMA LocalUnhealthySafe == ASSUME Local!IInv, NEW p \in Processes, Local!Unhealthy(p) PROVE Local!IInv'
<1>1. Local!Typed'
  BY LocalAssumption DEF Local!Unhealthy, Local!kept, Local!To, Local!IInv, Local!Typed, Local!Sup
<1>2. Local!Locked'
  BY DEF Local!Unhealthy, Local!kept, Local!To, Local!IInv, Local!Typed, Local!Locked, Local!Users, Local!Sup
<1>3. Local!Owned'
  BY DEF Local!Unhealthy, Local!kept, Local!To, Local!IInv, Local!Typed, Local!Owned, Local!Sup
<1>4. Local!Named'
  BY DEF Local!Unhealthy, Local!kept, Local!To, Local!IInv, Local!Typed, Local!Owned, Local!Named, Local!Alive,
     Local!None, Local!Sup
<1>5. Local!Told'
  BY DEF Local!Unhealthy, Local!kept, Local!To, Local!IInv, Local!Typed, Local!Owned, Local!Named, Local!Told,
     Local!Alive, Local!Users, Local!None, Local!Sup
<1>6. Local!Served'
  BY DEF Local!Unhealthy, Local!kept, Local!To, Local!IInv, Local!Typed, Local!Owned, Local!Named, Local!Locked,
     Local!Served, Local!Alive, Local!Users, Local!Sup
<1> QED
  BY <1>1, <1>2, <1>3, <1>4, <1>5, <1>6 DEF Local!IInv

LEMMA LocalUndoSafe == ASSUME Local!IInv, NEW p \in Processes, Local!Undo(p) PROVE Local!IInv'
<1>1. Local!Typed'
  <2>1. lAsked' \subseteq 1 .. lMade'
    <3>1. CASE lAsked' = lAsked
      BY <3>1 DEF Local!Undo, Local!kept, Local!IInv, Local!Typed
    <3>2. CASE Local!Stopping(lRecord.sup)
      BY <3>2, LocalTells DEF Local!Undo, Local!kept, Local!Stopping
    <3> QED
      BY <3>1, <3>2 DEF Local!Undo, Local!kept
  <2>2. lRecord' \in [sup : 0 .. lMade, server : BOOLEAN]
    BY LocalRecord DEF Local!Undo, Local!kept
  <2> QED
    BY <2>1, <2>2 DEF Local!Undo, Local!kept, Local!To, Local!Enter, Local!Holders, Local!IInv, Local!Typed
<1>2. Local!Locked'
  BY LocalFree, LocalUnused DEF Local!Undo, Local!kept, Local!To, Local!Enter, Local!Recorded,
     Local!Holders, Local!Stopping, Local!IInv, Local!Typed, Local!Locked, Local!Users, Local!Sup
<1>3. Local!Owned'
  BY LocalFree, LocalUnused DEF Local!Undo, Local!kept, Local!To, Local!Enter, Local!Recorded,
     Local!Holders, Local!Stopping, Local!IInv, Local!Typed, Local!Owned, Local!Sup
<1>4. Local!Named'
  BY LocalFree, LocalUnused DEF Local!Undo, Local!kept, Local!To, Local!Enter, Local!Recorded,
     Local!Holders, Local!Stopping, Local!IInv, Local!Typed, Local!Owned, Local!Named, Local!Alive,
     Local!None, Local!Sup
<1>5. Local!Told'
  <2>1. /\ \A q \in Processes : lPc'[q] = IF q = p THEN "undo" ELSE lPc[q]
        /\ Local!Users' = Local!Users /\ UNCHANGED <<lSup, lChild, lServer, lExcused>> /\ p \notin Local!Users
    BY DEF Local!Undo, Local!kept, Local!Enter, Local!To, Local!IInv, Local!Typed, Local!Users
  <2>2. \A q \in Processes : lPc'[q] \notin {"stopping", "halt"}
    BY <2>1, LocalFree DEF Local!Undo, Local!kept, Local!Enter
  <2>3. lRecord'.sup # 0 => lRecord' = lRecord
    BY LocalRecord DEF Local!Undo, Local!kept, Local!None
  <2>4. CASE Local!Others(p) = {}
    <3>1. Local!Users \subseteq lExcused
      BY <2>1, <2>4 DEF Local!IInv, Local!Locked, Local!Users, Local!Others
    <3> QED
      BY <2>1, <3>1 DEF Local!Told
  <2>5. CASE Local!Others(p) # {}
    <3>1. lAsked' = lAsked
      BY <2>5 DEF Local!Undo, Local!kept
    <3> QED
      BY <2>1, <2>2, <2>3, <3>1 DEF Local!IInv, Local!Told, Local!Alive
  <2> QED
    BY <2>4, <2>5
<1>6. Local!Served'
  <2>1. /\ \A q \in Processes : lPc'[q] = IF q = p THEN "undo" ELSE lPc[q]
        /\ UNCHANGED <<lWant, lSup, lServes, lChild, lServer, lExcused>> /\ p \notin Local!Users
    BY DEF Local!Undo, Local!Enter, Local!To, Local!IInv, Local!Typed, Local!Users
  <2>2. CASE Local!Others(p) = {}
    <3>1. Local!Users \subseteq lExcused
      BY <2>1, <2>2 DEF Local!IInv, Local!Locked, Local!Users, Local!Others
    <3> QED
      BY <2>1, <3>1 DEF Local!Served, Local!Users
  <2>3. CASE Local!Others(p) # {}
    <3>1. lAsked' = lAsked
      BY <2>3 DEF Local!Undo
    <3> QED
      BY <2>1, <3>1 DEF Local!IInv, Local!Served, Local!Alive
  <2> QED
    BY <2>2, <2>3
<1> QED
  BY <1>1, <1>2, <1>3, <1>4, <1>5, <1>6 DEF Local!IInv

LEMMA LocalUndoneSafe == ASSUME Local!IInv, NEW p \in Processes, Local!Undone(p) PROVE Local!IInv'
<1>2. /\ lPc' \in [Processes -> {"off", "want", "plan", "stopping", "spawn", "write", "health", "failed", "undo",
                           "using", "release", "halt", "gone"}]
      /\ Local!Users' \subseteq Local!Users /\ \A q \in Processes : lPc'[q] = IF q = p THEN "off" ELSE lPc[q]
  BY DEF Local!Undone, Local!kept, Local!To, Local!IInv, Local!Typed, Local!Users
<1>3. \A q \in Processes : lPc'[q] # "write"
  BY <1>2, LocalOne DEF Local!Undone, Local!kept
<1>4. \A q \in Processes : q # p => lPc[q] \notin {"plan", "stopping", "spawn", "write", "undo", "halt"}
  BY LocalOne DEF Local!Undone, Local!kept
<1>5. Local!Locked'
  BY <1>2, <1>4 DEF Local!Undone, Local!kept, Local!IInv, Local!Locked, Local!Users
<1>6. CASE p \in lMine /\ Local!Holders = {}
  <2>1. Local!Users \subseteq lExcused
    BY <1>6, LocalUnused
  <2>2. Local!Typed' /\ Local!Owned' /\ Local!Named' /\ Local!Told' /\ Local!Served'
    BY <1>2, <1>3, <1>6, <2>1, LocalStops DEF Local!Undone, Local!kept, Local!IInv, Local!Typed
  <2> QED
    BY <1>5, <2>2 DEF Local!IInv
<1>7. CASE ~(p \in lMine /\ Local!Holders = {})
  <2>1. UNCHANGED <<lWant, lLeases, lMade, lRecord, lSup, lServes, lChild, lServer, lAsked, lExcused>>
        /\ UNCHANGED <<lJudged, lLost, lStrays>> /\ lLock' = "free"
    BY <1>7 DEF Local!Undone, Local!kept
  <2>2. Local!Typed' /\ Local!Owned'
    BY <1>2, <2>1 DEF Local!IInv, Local!Typed, Local!Owned
  <2>3. Local!Named'
    BY <1>2, <2>1 DEF Local!IInv, Local!Named, Local!Alive
  <2>4. Local!Told'
    BY <1>2, <2>1 DEF Local!IInv, Local!Told, Local!Alive
  <2>5. Local!Served'
    BY <1>2, <2>1 DEF Local!IInv, Local!Served, Local!Alive
  <2> QED
    BY <1>5, <2>2, <2>3, <2>4, <2>5 DEF Local!IInv
<1> QED
  BY <1>6, <1>7

LEMMA LocalReleaseSafe == ASSUME Local!IInv, NEW p \in Processes, Local!Release(p) PROVE Local!IInv'
<1>1. Local!Typed'
  BY LocalAssumption DEF Local!Release, Local!kept, Local!To, Local!IInv, Local!Typed, Local!Sup
<1>2. Local!Locked'
  BY DEF Local!Release, Local!kept, Local!To, Local!IInv, Local!Typed, Local!Locked, Local!Users, Local!Sup
<1>3. Local!Owned'
  BY DEF Local!Release, Local!kept, Local!To, Local!IInv, Local!Typed, Local!Owned, Local!Sup
<1>4. Local!Named'
  BY DEF Local!Release, Local!kept, Local!To, Local!IInv, Local!Typed, Local!Owned, Local!Named, Local!Alive,
     Local!None, Local!Sup
<1>5. Local!Told'
  BY DEF Local!Release, Local!kept, Local!To, Local!IInv, Local!Typed, Local!Owned, Local!Named, Local!Told,
     Local!Alive, Local!Users, Local!None, Local!Sup
<1>6. Local!Served'
  BY DEF Local!Release, Local!kept, Local!To, Local!IInv, Local!Typed, Local!Owned, Local!Named, Local!Locked,
     Local!Served, Local!Alive, Local!Users, Local!Sup
<1> QED
  BY <1>1, <1>2, <1>3, <1>4, <1>5, <1>6 DEF Local!IInv

LEMMA LocalHealSafe == ASSUME Local!IInv, NEW p \in Processes, Local!Heal(p) PROVE Local!IInv'
<1>1. \A q \in Processes : lPc[q] \notin {"spawn", "write"}
  BY LocalFree DEF Local!Heal, Local!kept
<1> QED
  BY <1>1, LocalAdopted DEF Local!Heal, Local!kept

LEMMA LocalReleasedSafe == ASSUME Local!IInv, NEW p \in Processes, Local!Released(p) PROVE Local!IInv'
<1>1. Local!Typed'
  BY LocalAssumption, LocalFree DEF Local!Released, Local!kept, Local!To, Local!Holders, Local!IInv,
     Local!Typed, Local!Sup
<1>2. Local!Locked'
  BY LocalFree DEF Local!Released, Local!kept, Local!To, Local!Holders, Local!IInv, Local!Typed,
     Local!Locked, Local!Users, Local!Sup
<1>3. Local!Owned'
  BY LocalFree DEF Local!Released, Local!kept, Local!To, Local!Holders, Local!IInv, Local!Typed,
     Local!Owned, Local!Sup
<1>4. Local!Named'
  BY LocalFree DEF Local!Released, Local!kept, Local!To, Local!Holders, Local!IInv, Local!Typed,
     Local!Owned, Local!Named, Local!Alive, Local!None, Local!Sup
<1>5. Local!Told'
  BY LocalFree DEF Local!Released, Local!kept, Local!To, Local!Holders, Local!IInv, Local!Typed,
     Local!Owned, Local!Named, Local!Told, Local!Alive, Local!Users, Local!None, Local!Sup
<1>6. Local!Served'
  BY LocalFree DEF Local!Released, Local!kept, Local!To, Local!Holders, Local!IInv, Local!Typed,
     Local!Owned, Local!Named, Local!Locked, Local!Served, Local!Alive, Local!Users, Local!Sup
<1> QED
  BY <1>1, <1>2, <1>3, <1>4, <1>5, <1>6 DEF Local!IInv

LEMMA LocalOperatorStopSafe == ASSUME Local!IInv, NEW p \in Processes, Local!OperatorStop(p) PROVE Local!IInv'
<1>1. Local!Typed'
  <2>1. lAsked' \subseteq 1 .. lMade'
    BY LocalTells DEF Local!OperatorStop, Local!kept, Local!Stopping
  <2>2. lRecord' = lRecord
    BY DEF Local!OperatorStop, Local!kept
  <2> QED
    BY <2>1, <2>2 DEF Local!OperatorStop, Local!kept, Local!To, Local!Enter, Local!IInv, Local!Typed
<1>2. Local!Locked'
  BY LocalFree DEF Local!OperatorStop, Local!kept, Local!To, Local!Enter, Local!Stopping, Local!IInv,
     Local!Typed, Local!Locked, Local!Users, Local!Sup
<1>3. Local!Owned'
  BY LocalFree DEF Local!OperatorStop, Local!kept, Local!To, Local!Enter, Local!Stopping, Local!IInv,
     Local!Typed, Local!Owned, Local!Sup
<1>4. Local!Named'
  BY LocalFree DEF Local!OperatorStop, Local!kept, Local!To, Local!Enter, Local!Stopping, Local!IInv,
     Local!Typed, Local!Owned, Local!Named, Local!Alive, Local!None, Local!Sup
<1>5. Local!Told'
  BY LocalFree DEF Local!OperatorStop, Local!kept, Local!To, Local!Enter, Local!Stopping, Local!IInv,
     Local!Typed, Local!Owned, Local!Named, Local!Told, Local!Alive, Local!Users, Local!None, Local!Sup
<1>6. Local!Served'
  BY LocalFree DEF Local!OperatorStop, Local!kept, Local!To, Local!Enter, Local!Stopping, Local!IInv,
     Local!Typed, Local!Owned, Local!Named, Local!Locked, Local!Served, Local!Alive, Local!Users,
     Local!Sup
<1> QED
  BY <1>1, <1>2, <1>3, <1>4, <1>5, <1>6 DEF Local!IInv

LEMMA LocalOperatorStoppedSafe == ASSUME Local!IInv, NEW p \in Processes, Local!OperatorStopped(p) PROVE Local!IInv'
<1>1. Local!Users \subseteq lExcused
  BY DEF Local!OperatorStopped, Local!kept, Local!IInv, Local!Told
<1>2. /\ lPc' \in [Processes -> {"off", "want", "plan", "stopping", "spawn", "write", "health", "failed", "undo",
                           "using", "release", "halt", "gone"}]
      /\ Local!Users' \subseteq Local!Users /\ \A q \in Processes : lPc'[q] = IF q = p THEN "off" ELSE lPc[q]
  BY DEF Local!OperatorStopped, Local!kept, Local!To, Local!IInv, Local!Typed, Local!Users
<1>3. \A q \in Processes : lPc'[q] # "write"
  BY <1>2, LocalOne DEF Local!OperatorStopped, Local!kept
<1>4. Local!Typed' /\ Local!Owned' /\ Local!Named' /\ Local!Told' /\ Local!Served'
  BY <1>1, <1>2, <1>3, LocalStops DEF Local!OperatorStopped, Local!kept, Local!IInv, Local!Typed
<1>5. Local!Locked'
  <2>1. \A q \in Processes : q # p => lPc[q] \notin {"plan", "stopping", "spawn", "write", "undo", "halt"}
    BY LocalOne DEF Local!OperatorStopped, Local!kept
  <2>2. lLeases' = {} /\ Local!Users' \subseteq lExcused'
    BY <1>1, <1>2 DEF Local!OperatorStopped, Local!kept
  <2> QED
    BY <1>2, <1>3, <2>1, <2>2 DEF Local!Locked
<1> QED
  BY <1>4, <1>5 DEF Local!IInv

LEMMA LocalJudgeSafe == ASSUME Local!IInv, NEW p \in Processes, Local!Judge(p) PROVE Local!IInv'
<1>1. Local!Typed'
  BY LocalAssumption DEF Local!Judge, Local!Waits, Local!Stale, Local!Trouble, Local!IInv, Local!Typed, Local!Locked, Local!Users, Local!Alive
<1>2. Local!Locked'
  BY LocalAssumption DEF Local!Judge, Local!Waits, Local!Stale, Local!Trouble, Local!IInv, Local!Typed, Local!Locked, Local!Users, Local!Alive
<1>3. Local!Owned'
  BY LocalAssumption DEF Local!Judge, Local!Waits, Local!Stale, Local!Trouble, Local!IInv, Local!Typed, Local!Locked, Local!Users, Local!Alive, Local!Owned
<1>4. Local!Named'
  BY LocalAssumption DEF Local!Judge, Local!Waits, Local!Stale, Local!Trouble, Local!IInv, Local!Typed, Local!Locked, Local!Users, Local!Alive, Local!Named
<1>5. Local!Told'
  BY LocalAssumption DEF Local!Judge, Local!Waits, Local!Stale, Local!Trouble, Local!IInv, Local!Typed, Local!Locked, Local!Users, Local!Alive, Local!Told
<1>6. Local!Served'
  BY LocalAssumption DEF Local!Judge, Local!Waits, Local!Stale, Local!Trouble, Local!IInv, Local!Typed, Local!Locked, Local!Users, Local!Alive, Local!Served
<1> QED
  BY <1>1, <1>2, <1>3, <1>4, <1>5, <1>6 DEF Local!IInv

\* The lock that is removed is nobody's, or one of a process that is gone.
LEMMA LocalRemoveSafe == ASSUME Local!IInv, NEW p \in Processes, Local!Remove(p), ~lLost' PROVE Local!IInv'
<1>1. Local!Typed'
  BY LocalAssumption DEF Local!Remove, Local!Stale, Local!IInv, Local!Typed, Local!Locked, Local!Users, Local!Alive
<1>2. Local!Locked'
  BY LocalAssumption DEF Local!Remove, Local!Stale, Local!IInv, Local!Typed, Local!Locked, Local!Users, Local!Alive
<1>3. Local!Owned'
  BY LocalAssumption DEF Local!Remove, Local!Stale, Local!IInv, Local!Typed, Local!Locked, Local!Users, Local!Alive, Local!Owned
<1>4. Local!Named'
  BY LocalAssumption DEF Local!Remove, Local!Stale, Local!IInv, Local!Typed, Local!Locked, Local!Users, Local!Alive, Local!Named
<1>5. Local!Told'
  BY LocalAssumption DEF Local!Remove, Local!Stale, Local!IInv, Local!Typed, Local!Locked, Local!Users, Local!Alive, Local!Told
<1>6. Local!Served'
  BY LocalAssumption DEF Local!Remove, Local!Stale, Local!IInv, Local!Typed, Local!Locked, Local!Users, Local!Alive, Local!Served
<1> QED
  BY <1>1, <1>2, <1>3, <1>4, <1>5, <1>6 DEF Local!IInv

LEMMA LocalFailsSafe == ASSUME Local!IInv, NEW p \in Processes, Local!Fails(p) PROVE Local!IInv'
<1>1. Local!Typed'
  BY LocalAssumption DEF Local!Fails, Local!Waits, Local!LockBusy, Local!IoError, Local!Stale, Local!Trouble, Local!To, Local!IInv, Local!Typed, Local!Locked, Local!Users, Local!Alive
<1>2. Local!Locked'
  BY LocalAssumption DEF Local!Fails, Local!Waits, Local!LockBusy, Local!IoError, Local!Stale, Local!Trouble, Local!To, Local!IInv, Local!Typed, Local!Locked, Local!Users, Local!Alive
<1>3. Local!Owned'
  BY LocalAssumption DEF Local!Fails, Local!Waits, Local!LockBusy, Local!IoError, Local!Stale, Local!Trouble, Local!To, Local!IInv, Local!Typed, Local!Locked, Local!Users, Local!Alive, Local!Owned
<1>4. Local!Named'
  BY LocalAssumption DEF Local!Fails, Local!Waits, Local!LockBusy, Local!IoError, Local!Stale, Local!Trouble, Local!To, Local!IInv, Local!Typed, Local!Locked, Local!Users, Local!Alive, Local!Named
<1>5. Local!Told'
  BY LocalAssumption DEF Local!Fails, Local!Waits, Local!LockBusy, Local!IoError, Local!Stale, Local!Trouble, Local!To, Local!IInv, Local!Typed, Local!Locked, Local!Users, Local!Alive, Local!Told
<1>6. Local!Served'
  BY LocalAssumption DEF Local!Fails, Local!Waits, Local!LockBusy, Local!IoError, Local!Stale, Local!Trouble, Local!To, Local!IInv, Local!Typed, Local!Locked, Local!Users, Local!Alive, Local!Served
<1> QED
  BY <1>1, <1>2, <1>3, <1>4, <1>5, <1>6 DEF Local!IInv

LEMMA LocalProcCrashSafe == ASSUME Local!IInv, NEW p \in Processes, Local!ProcCrash(p) PROVE Local!IInv'
<1>1. Local!Typed'
  BY LocalAssumption DEF Local!ProcCrash, Local!kept, Local!To, Local!IInv, Local!Typed, Local!Sup
<1>2. Local!Locked'
  BY DEF Local!ProcCrash, Local!kept, Local!To, Local!IInv, Local!Typed, Local!Locked, Local!Users, Local!Sup
<1>3. Local!Owned'
  BY DEF Local!ProcCrash, Local!kept, Local!To, Local!IInv, Local!Typed, Local!Owned, Local!Sup
<1>4. Local!Named'
  BY DEF Local!ProcCrash, Local!kept, Local!To, Local!IInv, Local!Typed, Local!Owned, Local!Named, Local!Alive,
     Local!None, Local!Sup
<1>5. Local!Told'
  BY DEF Local!ProcCrash, Local!kept, Local!To, Local!IInv, Local!Typed, Local!Owned, Local!Named, Local!Told,
     Local!Alive, Local!Users, Local!None, Local!Sup
<1>6. Local!Served'
  BY DEF Local!ProcCrash, Local!kept, Local!To, Local!IInv, Local!Typed, Local!Owned, Local!Named, Local!Locked,
     Local!Served, Local!Alive, Local!Users, Local!Sup
<1> QED
  BY <1>1, <1>2, <1>3, <1>4, <1>5, <1>6 DEF Local!IInv

LEMMA LocalSupStartsSafe == ASSUME Local!IInv, NEW i \in Local!Sup, Local!SupStarts(i) PROVE Local!IInv'
<1>1. /\ \A k \in Local!Sup : lSup'[k] = IF k = i THEN "loop" ELSE lSup[k]
      /\ lSup[i] = "spawned" /\ lMade \in Nat /\ i <= lMade /\ lServer[i] = "none"
      /\ UNCHANGED <<lPc, lWant, lLock, lLeases, lMade, lServes, lChild, lAsked, lExcused>>
      /\ UNCHANGED <<lJudged, lLost, lStrays>>
  BY LocalAssumption DEF Local!SupStarts, Local!kept, Local!IInv, Local!Typed, Local!Owned, Local!Sup
<1>2. \A j \in Local!Sup : lChild[j] = i => j = i
  BY <1>1 DEF Local!IInv, Local!Owned
<1>3. /\ \A k \in Local!Sup : k # i => lServer'[k] = lServer[k]
      /\ lServer'[i] # "none" => lChild[i] = i
      /\ lServer'[i] \in {"none", "up", "dead"} /\ (lServer'[i] = "up" => Local!PortFree)
      /\ lServer' \in [Local!Sup -> {"none", "up", "killed", "dead"}]
  <2>1. CASE lChild[i] = i
    <3>1. lServer' = [lServer EXCEPT ![i] = IF Local!PortFree THEN "up" ELSE "dead"]
      BY <2>1 DEF Local!SupStarts, Local!kept
    <3> QED
      BY <2>1, <3>1 DEF Local!IInv, Local!Typed
  <2>2. CASE lChild[i] # i
    <3>1. lServer' = lServer
      BY <2>2 DEF Local!SupStarts, Local!kept
    <3> QED
      BY <1>1, <3>1 DEF Local!IInv, Local!Typed
  <2> QED
    BY <2>1, <2>2
<1>4. /\ lRecord'.sup = lRecord.sup /\ (lRecord = Local!None => lRecord' = Local!None)
      /\ lRecord' \in [sup : 0 .. lMade, server : BOOLEAN]
  <2>1. CASE lChild[i] = i /\ lRecord # Local!None
    BY <2>1 DEF Local!SupStarts, Local!kept, Local!IInv, Local!Typed
  <2>2. CASE ~(lChild[i] = i /\ lRecord # Local!None)
    BY <2>2 DEF Local!SupStarts, Local!kept, Local!IInv, Local!Typed
  <2> QED
    BY <2>1, <2>2
<1>5. Local!Typed'
  <2>1. lSup' \in [Local!Sup -> {"none", "spawned", "loop", "decided", "killing", "gone"}]
    BY DEF Local!SupStarts, Local!kept, Local!IInv, Local!Typed
  <2> QED
    BY <1>1, <1>3, <1>4, <2>1 DEF Local!IInv, Local!Typed
<1>6. Local!Locked'
  BY <1>1 DEF Local!IInv, Local!Locked, Local!Users
<1>7. Local!Owned'
  <2>1. \A k \in Local!Sup : lSup[k] = "killing" => k <= lMade /\ lChild[k] \in Local!Sup
    BY <1>1, LocalAssumption DEF Local!IInv, Local!Typed, Local!Owned, Local!Sup
  <2>2. \A k \in Local!Sup : lSup'[k] = "killing" => lServer'[lChild[k]] # "up"
    BY <1>1, <1>2, <1>3, <2>1 DEF Local!IInv, Local!Owned
  <2>3. \A k, j \in Local!Sup : /\ lChild[j] = k /\ j # k => lSup'[k] = "gone"
                                /\ lChild[j] = lChild[k] /\ k <= lMade => lServes[j] = lServes[k]
    BY <1>1, <1>2 DEF Local!IInv, Local!Owned
  <2>4. \A k, j \in Local!Sup : {lServer'[k], lServer'[j]} \subseteq {"up", "killed"} => k = j
    BY <1>3 DEF Local!IInv, Local!Owned, Local!PortFree
  <2>5. \A k \in Local!Sup :
          /\ IF k > lMade THEN lSup'[k] = "none" /\ lChild[k] = 0 /\ lServer'[k] = "none"
                         ELSE lSup'[k] # "none" /\ lChild[k] \in 1 .. k
          /\ lServer'[k] # "none" => lChild[k] = k /\ lSup'[k] # "spawned"
    BY <1>1, <1>3 DEF Local!IInv, Local!Owned, Local!Sup
  <2> QED
    BY <1>1, <2>2, <2>3, <2>4, <2>5 DEF Local!Owned
<1>8. Local!Named'
  <2>1. \A j \in Local!Sup : Local!Alive(j)' => Local!Alive(j)
    BY <1>1 DEF Local!Alive
  <2>2. lRecord'.sup = 0 => lRecord' = Local!None
    BY <1>4 DEF Local!IInv, Local!Named
  <2>3. ASSUME NEW p \in Processes, lPc[p] = "write", lSup'[lMade] = "decided" PROVE lServer'[lMade] # "up"
    <3>1. lMade # i /\ lSup[lMade] = "decided" /\ lServer'[lMade] = lServer[lMade]
      BY <1>1, <1>3, <2>3, LocalAssumption DEF Local!IInv, Local!Typed, Local!Named, Local!Sup
    <3> QED
      BY <2>3, <3>1 DEF Local!IInv, Local!Named
  <2> QED
    BY <1>1, <1>4, <2>1, <2>2, <2>3 DEF Local!IInv, Local!Named
<1>9. Local!Told'
  <2>1. ASSUME Local!Alive(lRecord.sup)', lSup'[lRecord.sup] = "decided", lServer'[lChild[lRecord.sup]] = "up"
        PROVE  Local!Alive(lRecord.sup) /\ lSup[lRecord.sup] = "decided" /\ lServer[lChild[lRecord.sup]] = "up"
    <3>1. lRecord.sup \in Local!Sup /\ lRecord.sup # i
      BY <1>1, <1>4, <2>1, LocalAssumption DEF Local!IInv, Local!Typed, Local!Alive, Local!Sup
    <3>2. lSup[lRecord.sup] = "decided" /\ lChild[lRecord.sup] # i
      BY <1>1, <1>2, <2>1, <3>1
    <3>3. lChild[lRecord.sup] \in Local!Sup
      BY <1>1, <3>1, <3>2, LocalAssumption DEF Local!IInv, Local!Typed, Local!Owned, Local!Sup
    <3> QED
      BY <1>3, <1>4, <2>1, <3>1, <3>2, <3>3 DEF Local!Alive
  <2>2. Local!Alive(lRecord.sup)' => Local!Alive(lRecord.sup)
    BY <1>1, <1>4, LocalAssumption DEF Local!IInv, Local!Typed, Local!Alive, Local!Sup
  <2> QED
    BY <1>1, <1>4, <2>1, <2>2 DEF Local!IInv, Local!Told, Local!Users, Local!Alive
<1>10. Local!Served'
  <2>1. SUFFICES ASSUME NEW p \in Processes, lPc[p] = "using", p \notin lExcused
                 PROVE  \E k \in Local!Sup : /\ lServer'[k] = "up"
                                             /\ \A j \in Local!Sup : lChild[j] = k =>
                                                  /\ lServes[j] = lWant[p]
                                                  /\ Local!Alive(j)' => j \notin lAsked /\ lSup'[j] # "decided"
    BY <1>1 DEF Local!Served
  <2>2. PICK k \in Local!Sup : /\ lServer[k] = "up"
                               /\ \A j \in Local!Sup : lChild[j] = k =>
                                    /\ lServes[j] = lWant[p]
                                    /\ Local!Alive(j) => j \notin lAsked /\ lSup[j] # "decided"
    BY <2>1 DEF Local!IInv, Local!Served
  <2>3. lServer'[k] = "up"
    BY <1>1, <1>3, <2>2
  <2>4. \A j \in Local!Sup : /\ Local!Alive(j)' => Local!Alive(j)
                             /\ lSup'[j] = "decided" => lSup[j] = "decided"
    BY <1>1 DEF Local!Alive
  <2> QED
    BY <2>2, <2>3, <2>4
<1> QED
  BY <1>5, <1>6, <1>7, <1>8, <1>9, <1>10 DEF Local!IInv

LEMMA LocalDecideSafe == ASSUME Local!IInv, NEW i \in Local!Sup, Local!Decide(i) PROVE Local!IInv'
<1>1. Local!Typed'
  BY LocalAssumption, LocalUnused DEF Local!Decide, Local!kept, Local!Idle, Local!Holders, Local!IInv, Local!Typed,
     Local!Sup
<1>2. Local!Locked'
  BY LocalUnused DEF Local!Decide, Local!kept, Local!Idle, Local!Holders, Local!IInv, Local!Typed, Local!Locked,
     Local!Users, Local!Sup
<1>3. Local!Owned'
  BY LocalUnused DEF Local!Decide, Local!kept, Local!Idle, Local!Holders, Local!IInv, Local!Typed, Local!Owned,
     Local!Sup
<1>4. Local!Named'
  <2>1. \A k \in Local!Sup : lSup'[k] = IF k = i THEN "decided" ELSE lSup[k]
    BY DEF Local!Decide, Local!kept, Local!IInv, Local!Typed
  <2>2. \A j \in Local!Sup : Local!Alive(j)' => Local!Alive(j)
    BY <2>1 DEF Local!Decide, Local!kept, Local!Alive
  <2>3. ASSUME NEW p \in Processes, lPc[p] = "write", lSup'[lMade] = "decided" PROVE lServer[lMade] # "up"
    <3>1. lMade \in Local!Sup /\ lMade \notin lAsked /\ lChild[lMade] = lMade /\ Local!Holders # {}
      BY <2>3, LocalAssumption DEF Local!IInv, Local!Typed, Local!Named, Local!Locked, Local!Sup,
         Local!Holders
    <3>2. CASE lMade = i
      BY <3>1, <3>2 DEF Local!Decide, Local!kept, Local!Idle
    <3>3. CASE lMade # i
      BY <2>1, <2>3, <3>1, <3>3 DEF Local!IInv, Local!Named
    <3> QED
      BY <3>2, <3>3
  <2> QED
    BY <2>2, <2>3 DEF Local!Decide, Local!kept, Local!IInv, Local!Named
<1>5. Local!Told'
  <2>1. \A k \in Local!Sup : lSup'[k] = IF k = i THEN "decided" ELSE lSup[k]
    BY DEF Local!Decide, Local!kept, Local!IInv, Local!Typed
  <2>2. /\ UNCHANGED <<lPc, lRecord, lChild, lServer, lAsked, lExcused>> /\ lSup[i] = "loop" /\ Local!Users' = Local!Users
        /\ Local!Holders = {} => Local!Users \subseteq lExcused
    BY LocalUnused DEF Local!Decide, Local!kept, Local!Users
  <2>3. CASE lRecord.sup = i
    BY <2>1, <2>2, <2>3 DEF Local!Decide, Local!kept, Local!Idle, Local!IInv, Local!Told, Local!Alive
  <2>4. CASE lRecord.sup # i
    <3>1. Local!Alive(lRecord.sup)' => lRecord.sup \in Local!Sup /\ Local!Alive(lRecord.sup) /\ lSup'[lRecord.sup] = lSup[lRecord.sup]
      BY <2>1, <2>2, <2>4, LocalAssumption DEF Local!IInv, Local!Typed, Local!Alive, Local!Sup
    <3> QED
      BY <2>2, <3>1 DEF Local!IInv, Local!Told, Local!Alive
  <2> QED
    BY <2>3, <2>4
<1>6. Local!Served'
  BY LocalUnused, SMTT(25) DEF Local!Decide, Local!kept, Local!Idle, Local!Holders, Local!IInv,
     Local!Typed, Local!Owned,
     Local!Named, Local!Locked, Local!Served, Local!Alive, Local!Users, Local!Sup
<1> QED
  BY <1>1, <1>2, <1>3, <1>4, <1>5, <1>6 DEF Local!IInv

LEMMA LocalSupKillsSafe == ASSUME Local!IInv, NEW i \in Local!Sup, Local!SupKills(i) PROVE Local!IInv'
<1>1. Local!Typed'
  BY LocalAssumption DEF Local!SupKills, Local!kept, Local!IInv, Local!Typed, Local!Sup
<1>2. Local!Locked'
  BY DEF Local!SupKills, Local!kept, Local!IInv, Local!Typed, Local!Locked, Local!Users, Local!Sup
<1>3. Local!Owned'
  <2>1. lChild[i] \in Local!Sup /\ i # 0 /\ lSup[i] = "decided"
    BY LocalAssumption DEF Local!SupKills, Local!kept, Local!IInv, Local!Typed, Local!Owned, Local!Sup
  <2>2. /\ \A k \in Local!Sup : lServer'[k] = lServer[k] \/ (lServer[k] = "up" /\ lServer'[k] = "killed")
        /\ lServer'[lChild[i]] # "up"
    BY <2>1 DEF Local!SupKills, Local!kept, Local!IInv, Local!Typed
  <2> QED
    BY <2>1, <2>2, LocalStage DEF Local!SupKills, Local!kept, Local!Alive
<1>4. Local!Named'
  BY DEF Local!SupKills, Local!kept, Local!IInv, Local!Typed, Local!Owned, Local!Named, Local!Alive, Local!None,
     Local!Sup
<1>5. Local!Told'
  BY DEF Local!SupKills, Local!kept, Local!IInv, Local!Typed, Local!Owned, Local!Named, Local!Told, Local!Alive,
     Local!Users, Local!None, Local!Sup
<1>6. Local!Served'
  BY DEF Local!SupKills, Local!kept, Local!IInv, Local!Typed, Local!Owned, Local!Named, Local!Locked, Local!Served,
     Local!Alive, Local!Users, Local!Sup
<1> QED
  BY <1>1, <1>2, <1>3, <1>4, <1>5, <1>6 DEF Local!IInv

LEMMA LocalSupEndsSafe == ASSUME Local!IInv, NEW i \in Local!Sup, Local!SupEnds(i) PROVE Local!IInv'
<1>1. Local!Typed'
  <2>1. lRecord' \in [sup : 0 .. lMade, server : BOOLEAN]
    BY LocalAssumption DEF Local!SupEnds, Local!kept, Local!IInv, Local!Typed, Local!None
  <2> QED
    BY <2>1 DEF Local!SupEnds, Local!kept, Local!IInv, Local!Typed
<1>2. Local!Locked'
  BY DEF Local!SupEnds, Local!kept, Local!IInv, Local!Typed, Local!Locked, Local!Users, Local!Sup
<1>3. Local!Owned'
  BY DEF Local!SupEnds, Local!kept, Local!IInv, Local!Typed, Local!Owned, Local!Sup
<1>4. Local!Named'
  BY DEF Local!SupEnds, Local!kept, Local!IInv, Local!Typed, Local!Owned, Local!Named, Local!Alive, Local!None,
     Local!Sup
<1>5. Local!Told'
  BY DEF Local!SupEnds, Local!kept, Local!IInv, Local!Typed, Local!Owned, Local!Named, Local!Told, Local!Alive,
     Local!Users, Local!None, Local!Sup
<1>6. Local!Served'
  BY DEF Local!SupEnds, Local!kept, Local!IInv, Local!Typed, Local!Owned, Local!Named, Local!Locked, Local!Served,
     Local!Alive, Local!Users, Local!Sup
<1> QED
  BY <1>1, <1>2, <1>3, <1>4, <1>5, <1>6 DEF Local!IInv

LEMMA LocalDiesSafe == ASSUME Local!IInv, NEW i \in Local!Sup, Local!Dies(i) PROVE Local!IInv'
<1>1. Local!Typed'
  BY LocalAssumption DEF Local!Dies, Local!kept, Local!IInv, Local!Typed, Local!Sup
<1>2. Local!Locked'
  BY DEF Local!Dies, Local!kept, Local!IInv, Local!Typed, Local!Locked, Local!Users, Local!Sup
<1>3. Local!Owned'
  BY DEF Local!Dies, Local!kept, Local!IInv, Local!Typed, Local!Owned, Local!Sup
<1>4. Local!Named'
  BY DEF Local!Dies, Local!kept, Local!IInv, Local!Typed, Local!Owned, Local!Named, Local!Alive, Local!None, Local!Sup
<1>5. Local!Told'
  BY DEF Local!Dies, Local!kept, Local!IInv, Local!Typed, Local!Owned, Local!Named, Local!Told, Local!Alive,
     Local!Users, Local!None, Local!Sup
<1>6. Local!Served'
  BY DEF Local!Dies, Local!kept, Local!IInv, Local!Typed, Local!Owned, Local!Named, Local!Locked, Local!Served,
     Local!Alive, Local!Users, Local!Sup
<1> QED
  BY <1>1, <1>2, <1>3, <1>4, <1>5, <1>6 DEF Local!IInv

LEMMA LocalWatchdogSafe == ASSUME Local!IInv, NEW i \in Local!Sup, Local!Watchdog(i) PROVE Local!IInv'
<1>1. Local!Typed'
  BY LocalAssumption DEF Local!Watchdog, Local!kept, Local!IInv, Local!Typed, Local!Sup
<1>2. Local!Locked'
  BY DEF Local!Watchdog, Local!kept, Local!IInv, Local!Typed, Local!Locked, Local!Users, Local!Sup
<1>3. Local!Owned'
  BY DEF Local!Watchdog, Local!kept, Local!IInv, Local!Typed, Local!Owned, Local!Sup
<1>4. Local!Named'
  BY DEF Local!Watchdog, Local!kept, Local!IInv, Local!Typed, Local!Owned, Local!Named, Local!Alive, Local!None,
     Local!Sup
<1>5. Local!Told'
  BY DEF Local!Watchdog, Local!kept, Local!IInv, Local!Typed, Local!Owned, Local!Named, Local!Told, Local!Alive,
     Local!Users, Local!None, Local!Sup
<1>6. Local!Served'
  BY DEF Local!Watchdog, Local!kept, Local!IInv, Local!Typed, Local!Owned, Local!Named, Local!Locked, Local!Served,
     Local!Alive, Local!Users, Local!Sup
<1> QED
  BY <1>1, <1>2, <1>3, <1>4, <1>5, <1>6 DEF Local!IInv

LEMMA LocalSupCrashSafe == ASSUME Local!IInv, NEW i \in Local!Sup, Local!SupCrash(i) PROVE Local!IInv'
<1>1. Local!Typed'
  BY LocalAssumption DEF Local!SupCrash, Local!kept, Local!Trouble, Local!IInv, Local!Typed, Local!Sup
<1>2. Local!Locked'
  BY DEF Local!SupCrash, Local!kept, Local!Trouble, Local!IInv, Local!Typed, Local!Locked, Local!Users, Local!Sup
<1>3. Local!Owned'
  BY LocalStage DEF Local!SupCrash, Local!kept, Local!Alive, Local!Sup
<1>4. Local!Named'
  BY DEF Local!SupCrash, Local!kept, Local!Trouble, Local!IInv, Local!Typed, Local!Owned, Local!Named, Local!Alive,
     Local!None, Local!Sup
<1>5. Local!Told'
  BY DEF Local!SupCrash, Local!kept, Local!Trouble, Local!IInv, Local!Typed, Local!Owned, Local!Named, Local!Told,
     Local!Alive, Local!Users, Local!None, Local!Sup
<1>6. Local!Served'
  BY DEF Local!SupCrash, Local!kept, Local!Trouble, Local!IInv, Local!Typed, Local!Owned, Local!Named, Local!Locked,
     Local!Served, Local!Alive, Local!Users, Local!Sup
<1> QED
  BY <1>1, <1>2, <1>3, <1>4, <1>5, <1>6 DEF Local!IInv

\* The invariant holds at the start.
LEMMA LocalInit == ASSUME Local!Init PROVE Local!IInv
<1>1. Local!Typed
  <2>1. (CHOOSE m \in Models : TRUE) \in Models
    BY LocalAssumption
  <2>2. lRecord \in [sup : 0 .. lMade, server : BOOLEAN] /\ lMade \in 0 .. MaxSups /\ lAsked \subseteq 1 .. lMade
    BY LocalAssumption DEF Local!Init, Local!None
  <2>3. lChild \in [Local!Sup -> 0 .. lMade]
    BY DEF Local!Init
  <2> QED
    BY <2>1, <2>2, <2>3 DEF Local!Init, Local!Typed
<1>2. Local!Locked /\ Local!Told /\ Local!Served
  BY DEF Local!Init, Local!Locked, Local!Told, Local!Served, Local!Users, Local!None, Local!Alive
<1>3. Local!Owned /\ Local!Named
  BY DEF Local!Init, Local!Owned, Local!Named, Local!None, Local!Sup
<1> QED
  BY <1>1, <1>2, <1>3 DEF Local!IInv

\* No step breaks the invariant, but the one that removes a lock that is in use.
LEMMA LocalNextSafe == ASSUME Local!IInv, [Local!Next]_(Local!vars) PROVE lLost' \/ Local!IInv'
<1>1. ASSUME NEW p \in Processes,
             \/ Local!Want(p) \/ Local!Lock(p) \/ Local!Adopt(p) \/ Local!Attach(p) \/ Local!StopFirst(p) \/ Local!RefusePlan(p) \/ Local!Stopped(p)
             \/ Local!SpawnFor(p) \/ Local!Write(p) \/ Local!Healthy(p)
      PROVE  Local!IInv'
  BY <1>1, LocalWantSafe, LocalLockSafe, LocalAdoptSafe, LocalAttachSafe, LocalStopFirstSafe,
     LocalRefusePlanSafe, LocalStoppedSafe, LocalSpawnForSafe, LocalWriteSafe, LocalHealthySafe
<1>2. ASSUME NEW p \in Processes,
             \/ Local!Unhealthy(p) \/ Local!Undo(p) \/ Local!Undone(p)
             \/ Local!Release(p) \/ Local!Heal(p) \/ Local!Released(p) \/ Local!OperatorStop(p) \/ Local!OperatorStopped(p) \/ Local!ProcCrash(p)
             \/ Local!Judge(p) \/ Local!Remove(p) \/ Local!Fails(p)
      PROVE  lLost' \/ Local!IInv'
  BY <1>2, LocalUnhealthySafe, LocalUndoSafe, LocalUndoneSafe, LocalReleaseSafe, LocalHealSafe,
     LocalReleasedSafe, LocalOperatorStopSafe, LocalOperatorStoppedSafe,
     LocalProcCrashSafe, LocalJudgeSafe, LocalRemoveSafe, LocalFailsSafe
<1>3. ASSUME NEW i \in Local!Sup,
             \/ Local!SupStarts(i) \/ Local!Decide(i) \/ Local!SupKills(i) \/ Local!SupEnds(i) \/ Local!Dies(i) \/ Local!Watchdog(i)
             \/ Local!SupCrash(i)
      PROVE  Local!IInv'
  BY <1>3, LocalSupStartsSafe, LocalDecideSafe, LocalSupKillsSafe, LocalSupEndsSafe, LocalDiesSafe,
     LocalWatchdogSafe, LocalSupCrashSafe
<1>4. CASE UNCHANGED Local!vars
  BY <1>4 DEF Local!vars, Local!kept, Local!IInv, Local!Typed, Local!Locked, Local!Owned, Local!Named, Local!Told,
     Local!Served, Local!Users, Local!Alive
<1> QED
  BY <1>1, <1>2, <1>3, <1>4 DEF Local!Next

\* A behaviour ends with the loss of a lock.
LEMMA LocalKeeps ==
  ASSUME lLost \/ Local!IInv, [Local!Next]_(Local!vars)
  PROVE  (lLost \/ Local!IInv)'
<1>1. CASE lLost
  BY <1>1 DEF Local!Next, Local!vars, Local!kept
<1>2. CASE ~lLost
  BY <1>2, LocalNextSafe
<1> QED
  BY <1>1, <1>2

LEMMA LocalImplies == ASSUME Local!IInv PROVE Local!LocalSound
<1>1. Local!TypeOK
  BY DEF Local!IInv, Local!Typed, Local!TypeOK
<1>2. Local!UsersAreServed
  <2>1. SUFFICES ASSUME NEW p \in Processes, lPc[p] = "using", p \notin lExcused
                 PROVE  p \in lLeases /\ Local!Serves(lWant[p])
    BY DEF Local!UsersAreServed
  <2>2. PICK i \in Local!Sup : lServer[i] = "up" /\ \A j \in Local!Sup : lChild[j] = i => lServes[j] = lWant[p]
    BY <2>1 DEF Local!IInv, Local!Served
  <2>3. lChild[i] = i
    BY <2>2 DEF Local!IInv, Local!Owned
  <2>4. p \in lLeases
    BY <2>1 DEF Local!IInv, Local!Locked, Local!Users
  <2> QED
    BY <2>2, <2>3, <2>4 DEF Local!Serves
<1>3. Local!OneServer
  <2>1. CASE \E i \in Local!Sup : lServer[i] = "up"
    <3>1. PICK i \in Local!Sup : lServer[i] = "up"
      BY <2>1
    <3>2. {j \in Local!Sup : lServer[j] = "up"} = {i}
      BY <3>1 DEF Local!IInv, Local!Owned
    <3>3. Cardinality({i}) = 1
      BY FS_Singleton
    <3> QED
      BY <3>2, <3>3, LocalSize DEF Local!OneServer
  <2>2. CASE ~\E i \in Local!Sup : lServer[i] = "up"
    <3>1. {j \in Local!Sup : lServer[j] = "up"} = {}
      BY <2>2
    <3>2. Cardinality({}) = 0
      BY FS_EmptySet
    <3> QED
      BY <3>1, <3>2, LocalSize DEF Local!OneServer
  <2> QED
    BY <2>1, <2>2
<1>4. Local!LeasesReturned
  BY DEF Local!IInv, Local!Locked, Local!LeasesReturned
<1> QED
  BY <1>1, <1>2, <1>3, <1>4 DEF Local!LocalSound

\* A process that uses a model is served by it, whatever the others do, unless it is
\* excused; two servers never run side by side; no lease outlives its use: as long as no
\* lock was taken from a process that works under it.
THEOREM ServersAreSound == Local!Spec => []Local!LocalSound
<1> DEFINE Kept == lLost \/ Local!IInv
<1>1. Local!Init => Kept
  BY LocalInit
<1>2. Kept /\ [Local!Next]_(Local!vars) => Kept'
  BY LocalKeeps
<1>3. Kept => Local!LocalSound
  BY LocalImplies DEF Local!LocalSound
<1> QED
  BY <1>1, <1>2, <1>3, PTL DEF Local!Spec

-----------------------------------------------------------------------------
(* The queue of the local extension, LocalHook, as the instance Hook.      *)

\* A step comes last in the queue, and leaves it from the front.
LEMMA HookQueues ==
  ASSUME Hook!TypeOK, NEW e \in [kind : Hook!Kinds, model : Hook!Wanted], hQueue' = Append(hQueue, e)
  PROVE  /\ hQueue' \in Seq([kind : Hook!Kinds, model : Hook!Wanted]) /\ hQueue' # <<>>
         /\ Len(hQueue) \in Nat /\ Len(hQueue') = Len(hQueue) + 1
         /\ DOMAIN hQueue = 1 .. Len(hQueue) /\ DOMAIN hQueue' = 1 .. Len(hQueue) + 1
         /\ \A i \in 1 .. Len(hQueue) : hQueue'[i] = hQueue[i]
         /\ hQueue'[Len(hQueue) + 1] = e
         /\ hQueue # <<>> => 1 \in 1 .. Len(hQueue)
  BY DEF Hook!TypeOK
LEMMA HookLeaves ==
  ASSUME Hook!TypeOK, hQueue # <<>>, hQueue' = Tail(hQueue)
  PROVE  /\ hQueue' \in Seq([kind : Hook!Kinds, model : Hook!Wanted])
         /\ Len(hQueue) \in Nat \ {0} /\ Len(hQueue') = Len(hQueue) - 1
         /\ DOMAIN hQueue = 1 .. Len(hQueue) /\ DOMAIN hQueue' = 1 .. Len(hQueue) - 1
         /\ \A i \in 1 .. Len(hQueue) - 1 : hQueue'[i] = hQueue[i + 1]
         /\ Hook!Head1 = hQueue[1] /\ Hook!Head1 \in [kind : Hook!Kinds, model : Hook!Wanted]
         /\ Len(hQueue) = 1 => hQueue' = <<>>
<1> DEFINE S == [kind : Hook!Kinds, model : Hook!Wanted]
<1>1. hQueue \in Seq(S)
  BY DEF Hook!TypeOK
<1> HIDE DEF S
<1>2. /\ hQueue' \in Seq(S)
      /\ Len(hQueue) \in Nat \ {0} /\ Len(hQueue') = Len(hQueue) - 1
      /\ DOMAIN hQueue = 1 .. Len(hQueue) /\ DOMAIN hQueue' = 1 .. Len(hQueue) - 1
      /\ \A i \in 1 .. Len(hQueue) - 1 : hQueue'[i] = hQueue[i + 1]
      /\ Hook!Head1 = hQueue[1] /\ Hook!Head1 \in S
  BY <1>1 DEF Hook!Head1
<1>3. Len(hQueue) = 1 => hQueue' = <<>>
  BY <1>2, EmptySeq
<1> QED
  BY <1>2, <1>3 DEF S

\* A lease that is let go of is off the record, or counted among those that are left.
LEMMA HookLetsGo ==
  ASSUME Hook!IInv, hHeld' \in {Hook!None, hHeld},
         IF hHeld # hHeld' THEN Hook!LetsGo ELSE UNCHANGED Hook!leases
  PROVE  /\ hRefs' \in Nat /\ hLeft' \in Nat /\ hCleared' \in BOOLEAN
         /\ Hook!BeliefIsTrue' /\ (hCleared' => hRefs' = 0 /\ hLeft' = 0)
<1>1. hRefs \in Nat /\ hLeft \in Nat /\ Hook!BeliefIsTrue
  BY DEF Hook!IInv, Hook!TypeOK, Hook!Settled
<1>2. hCleared \in BOOLEAN /\ (hCleared => hRefs = 0 /\ hLeft = 0)
  BY DEF Hook!IInv, Hook!TypeOK, Hook!Settled
<1>3. CASE hHeld = hHeld'
  <2>1. UNCHANGED Hook!leases
    BY <1>3
  <2> QED
    BY <1>1, <1>2, <1>3, <2>1 DEF Hook!leases, Hook!BeliefIsTrue
<1>4. CASE hHeld # hHeld'
  <2>1. hHeld # Hook!None /\ hHeld' = Hook!None /\ Hook!LetsGo
    BY <1>4
  <2>2. hCleared' = FALSE
    BY <2>1 DEF Hook!LetsGo
  <2>3. hRefs = 0 => hLeft = 0
    BY <1>1, <1>2, <2>1 DEF Hook!BeliefIsTrue
  <2>4. hRefs # 0 => hRefs = hLeft + 1
    BY <1>1, <1>2, <2>1 DEF Hook!BeliefIsTrue
  <2>5. hRefs' \in Nat /\ hLeft' \in Nat /\ hRefs' = hLeft'
    BY <1>1, <2>1, <2>3, <2>4 DEF Hook!LetsGo
  <2> QED
    BY <2>1, <2>2, <2>5 DEF Hook!BeliefIsTrue
<1> QED
  BY <1>3, <1>4

LEMMA HookWarmedOnly ==
  ASSUME Hook!IInv, hHeld = Hook!None, hHeld' = Hook!None, Hook!TakenAndLeft
  PROVE  /\ hRefs' \in Nat /\ hLeft' \in Nat /\ hCleared' \in BOOLEAN
         /\ Hook!BeliefIsTrue' /\ (hCleared' => hRefs' = 0 /\ hLeft' = 0)
<1>1. hRefs \in Nat /\ hLeft \in Nat /\ hRefs = hLeft
  BY DEF Hook!IInv, Hook!TypeOK, Hook!Settled, Hook!BeliefIsTrue
<1>2. hCleared' = FALSE
  BY DEF Hook!TakenAndLeft
<1>3. PICK n \in {0, Hook!Taken} : hRefs' = hRefs + n /\ hLeft' = hLeft + n
  BY DEF Hook!TakenAndLeft
<1>4. n \in {0, 1}
  BY <1>3, Zenon DEF Hook!Taken
<1> QED
  <2>1. hRefs' \in Nat /\ hLeft' \in Nat /\ hRefs' = hLeft'
    BY <1>1, <1>3, <1>4
  <2>2. Hook!BeliefIsTrue'
    BY <2>1, <1>2, Zenon DEF Hook!BeliefIsTrue
  <2> QED
    BY <1>2, <2>1, <2>2

\* A run that has its model held is served.
LEMMA HookServesNext ==
  ASSUME Hook!BeliefIsTrue', hLeft' \in Nat,
         hRun'.at = "on" /\ hRun'.model # Hook!None /\ ~hSwitched' => hHeld' = hRun'.model
  PROVE  Hook!RunIsServed'
<1>1. hHeld' # Hook!None /\ ~hCleared' => hRefs' = hLeft' + 1
  BY Zenon DEF Hook!BeliefIsTrue, Hook!None
<1>2. hHeld' # Hook!None => hCleared' \/ hRefs' > hLeft'
  <2>1. \A n \in Nat : n + 1 > n
    OBVIOUS
  <2>2. hLeft' + 1 > hLeft'
    BY <2>1, Zenon
  <2> QED
    BY <1>1, <2>2, Zenon
<1> QED
  BY <1>2, Zenon DEF Hook!RunIsServed, Hook!None

LEMMA HookSelectSafe == ASSUME Hook!IInv, NEW m \in Hook!Wanted, Hook!Select(m) PROVE Hook!IInv'
<1> USE DEF Hook!Select, Hook!leases
<1>1. /\ UNCHANGED <<hHeld, hCompacting, hStep, hRefs, hLeft, hCleared, hRun, hRefusal, hCompact>>
      /\ hModel' \in Hook!Wanted /\ hWarmed' \in Hook!Wanted /\ hEvents' \in 0 .. HookEvents
      /\ hSwitched' \in BOOLEAN
  BY HookAssumption DEF Hook!IInv, Hook!TypeOK, Hook!Event
<1>s. hRun.at # "none" => hSwitched'
  BY Zenon
<1>2. \/ hQueue' = hQueue
      \/ Hook!Queued("select", m)
  BY DEF Hook!IInv
<1>3. CASE hQueue' = hQueue
  BY <1>1, <1>s, <1>3 DEF Hook!IInv, Hook!TypeOK, Hook!Ordered, Hook!Settled, Hook!BeliefIsTrue, Hook!LetGo, Hook!RunIsServed
<1>4. CASE Hook!Queued("select", m)
  <2>1. Hook!TypeOK
    BY DEF Hook!IInv
  <2>q. PICK e \in [kind : Hook!Kinds, model : Hook!Wanted] :
          hQueue' = Append(hQueue, e) /\ e = [kind |-> "select", model |-> m]
    BY <1>4 DEF Hook!Queued, Hook!Kinds
  <2>2. Hook!TypeOK'
    BY <1>1, <1>4, <2>1, <2>q, HookQueues DEF Hook!IInv, Hook!TypeOK
  <2>3. Hook!Ordered'
    BY <1>1, <1>s, <2>1, <2>q, HookQueues DEF Hook!IInv, Hook!Ordered, Hook!Takes, Hook!TypeOK
  <2>4. Hook!Settled'
    BY <1>1, <1>4, <2>1, <2>q, HookQueues DEF Hook!IInv, Hook!Settled, Hook!BeliefIsTrue
  <2>5. Hook!LetGo'
    <3>1. \A i \in DOMAIN hQueue : i \in DOMAIN hQueue' /\ hQueue'[i] = hQueue[i]
      BY <1>4, <2>1, <2>q, HookQueues
    <3>2. \A i \in DOMAIN hQueue : \A j \in 1 .. i : j \in DOMAIN hQueue
      BY <1>4, <2>1, <2>q, HookQueues
    <3> QED
      BY <1>1, <3>1, <3>2 DEF Hook!IInv, Hook!LetGo
  <2>6. Hook!RunIsServed'
    BY <1>1 DEF Hook!IInv, Hook!RunIsServed
  <2> QED
    BY <2>2, <2>3, <2>4, <2>5, <2>6 DEF Hook!IInv
<1> QED
  BY <1>2, <1>3, <1>4

LEMMA HookRunStartsSafe == ASSUME Hook!IInv, Hook!RunStarts PROVE Hook!IInv'
<1> USE DEF Hook!RunStarts, Hook!leases
<1>1. /\ Hook!TypeOK /\ Hook!None \in Hook!Wanted /\ hModel \in Hook!Wanted
      /\ \E e \in [kind : Hook!Kinds, model : Hook!Wanted] :
           hQueue' = Append(hQueue, e) /\ e = [kind |-> "start", model |-> hModel]
  BY DEF Hook!IInv, Hook!TypeOK, Hook!Kinds, Hook!Wanted, Hook!Queued
<1>0. PICK e \in [kind : Hook!Kinds, model : Hook!Wanted] :
        hQueue' = Append(hQueue, e) /\ e = [kind |-> "start", model |-> hModel]
  BY <1>1
<1>2. Hook!TypeOK'
  <2>1. hRun' \in [at : {"none", "starting", "on", "off"}, model : Hook!Wanted] /\ hEvents' \in 0 .. HookEvents
    BY <1>1, HookAssumption DEF Hook!TypeOK, Hook!Event
  <2>2. hQueue' \in Seq([kind : Hook!Kinds, model : Hook!Wanted])
    BY <1>1, <1>0, HookQueues
  <2> QED
    BY <1>1, <2>1, <2>2 DEF Hook!TypeOK
<1>3. Hook!Ordered'
  BY <1>1, <1>0, HookQueues DEF Hook!IInv, Hook!Ordered, Hook!Takes
<1>4. Hook!Settled'
  BY <1>1, <1>0, HookQueues DEF Hook!IInv, Hook!Settled, Hook!BeliefIsTrue
<1>5. Hook!LetGo'
  <2>1. \A i \in DOMAIN hQueue : i \in DOMAIN hQueue' /\ hQueue'[i] = hQueue[i]
    BY <1>1, <1>0, HookQueues
  <2>2. \A i \in DOMAIN hQueue : \A j \in 1 .. i : j \in DOMAIN hQueue
    BY <1>1, <1>0, HookQueues
  <2> QED
    BY <2>1, <2>2 DEF Hook!IInv, Hook!LetGo
<1>6. Hook!RunIsServed'
  BY DEF Hook!RunIsServed
<1> QED
  BY <1>2, <1>3, <1>4, <1>5, <1>6 DEF Hook!IInv

LEMMA HookMessageEndsSafe == ASSUME Hook!IInv, Hook!MessageEnds PROVE Hook!IInv'
<1> USE DEF Hook!MessageEnds, Hook!leases
<1>2. Hook!TypeOK'
  BY DEF Hook!IInv, Hook!TypeOK, Hook!None, Hook!Wanted
<1>3. Hook!Settled'
  BY DEF Hook!IInv, Hook!Settled, Hook!BeliefIsTrue
<1>4. Hook!Ordered' /\ Hook!LetGo' /\ Hook!RunIsServed'
  BY DEF Hook!IInv, Hook!Ordered, Hook!LetGo, Hook!RunIsServed
<1> QED
  BY <1>2, <1>3, <1>4 DEF Hook!IInv

LEMMA HookRunSettlesSafe == ASSUME Hook!IInv, Hook!RunSettles PROVE Hook!IInv'
<1> USE DEF Hook!RunSettles, Hook!leases
<1>1. /\ Hook!TypeOK /\ Hook!None \in Hook!Wanted /\ hModel \in Hook!Wanted
      /\ \E e \in [kind : Hook!Kinds, model : Hook!Wanted] :
           hQueue' = Append(hQueue, e) /\ e = [kind |-> "settle", model |-> Hook!None]
  BY DEF Hook!IInv, Hook!TypeOK, Hook!Kinds, Hook!Wanted, Hook!Queued
<1>0. PICK e \in [kind : Hook!Kinds, model : Hook!Wanted] :
        hQueue' = Append(hQueue, e) /\ e = [kind |-> "settle", model |-> Hook!None]
  BY <1>1
<1>2. Hook!TypeOK'
  <2>1. hRun' \in [at : {"none", "starting", "on", "off"}, model : Hook!Wanted]
    BY <1>1
  <2>2. /\ {hModel', hHeld', hWarmed', hRefusal'} \subseteq Hook!Wanted
        /\ hCompacting' \in BOOLEAN /\ hSwitched' \in BOOLEAN /\ hStep' \in {"idle", "ensuring"}
        /\ hCompact' \in {"none", "asked", "on"} /\ hEvents' \in 0 .. HookEvents
        /\ hRefs' \in Nat /\ hLeft' \in Nat /\ hCleared' \in BOOLEAN
    BY <1>1 DEF Hook!TypeOK
  <2> QED
    BY <1>1, <1>0, <2>1, <2>2, HookQueues DEF Hook!TypeOK
<1>3. Hook!Ordered'
  BY <1>1, <1>0, HookQueues DEF Hook!IInv, Hook!Ordered, Hook!Takes
<1>4. Hook!Settled'
  BY <1>1, <1>0, HookQueues DEF Hook!IInv, Hook!Settled, Hook!BeliefIsTrue
<1>5. Hook!LetGo'
  <2>1. \A i \in DOMAIN hQueue : hQueue[i].kind \notin Hook!Takes
    BY DEF Hook!IInv, Hook!Ordered, Hook!Settled, Hook!BeliefIsTrue, Hook!Takes
  <2>2. \A j \in 1 .. Len(hQueue) + 1 : hQueue'[j].kind \notin Hook!Takes
    BY <1>1, <2>1, <1>0, HookQueues DEF Hook!Takes
  <2>3. Len(hQueue) + 1 \in DOMAIN hQueue' /\ hQueue'[Len(hQueue) + 1].kind = "settle"
    BY <1>1, <1>0, HookQueues
  <2> QED
    BY <2>2, <2>3 DEF Hook!LetGo
<1>6. Hook!RunIsServed'
  BY DEF Hook!RunIsServed
<1> QED
  BY <1>2, <1>3, <1>4, <1>5, <1>6 DEF Hook!IInv

LEMMA HookAskedSafe == ASSUME Hook!IInv, Hook!CompactionAsked PROVE Hook!IInv'
<1> USE DEF Hook!CompactionAsked, Hook!leases
<1>1. /\ Hook!TypeOK /\ Hook!None \in Hook!Wanted /\ hModel \in Hook!Wanted
      /\ \E e \in [kind : Hook!Kinds, model : Hook!Wanted] :
           hQueue' = Append(hQueue, e) /\ e = [kind |-> "compact", model |-> hModel]
  BY DEF Hook!IInv, Hook!TypeOK, Hook!Kinds, Hook!Wanted, Hook!Queued
<1>0. PICK e \in [kind : Hook!Kinds, model : Hook!Wanted] :
        hQueue' = Append(hQueue, e) /\ e = [kind |-> "compact", model |-> hModel]
  BY <1>1
<1>2. Hook!TypeOK'
  <2>1. hEvents' \in 0 .. HookEvents
    BY <1>1, HookAssumption DEF Hook!TypeOK, Hook!Event
  <2> QED
    BY <1>1, <1>0, <2>1, HookQueues DEF Hook!TypeOK
<1>3. Hook!Ordered'
  BY <1>1, <1>0, HookQueues DEF Hook!IInv, Hook!Ordered, Hook!Takes
<1>4. Hook!Settled'
  BY <1>1, <1>0, HookQueues DEF Hook!IInv, Hook!Settled, Hook!BeliefIsTrue
<1>5. Hook!LetGo'
  <2>1. \A i \in DOMAIN hQueue : i \in DOMAIN hQueue' /\ hQueue'[i] = hQueue[i]
    BY <1>1, <1>0, HookQueues
  <2>2. \A i \in DOMAIN hQueue : \A j \in 1 .. i : j \in DOMAIN hQueue
    BY <1>1, <1>0, HookQueues
  <2> QED
    BY <2>1, <2>2 DEF Hook!IInv, Hook!LetGo
<1>6. Hook!RunIsServed'
  BY DEF Hook!RunIsServed
<1> QED
  BY <1>2, <1>3, <1>4, <1>5, <1>6 DEF Hook!IInv

LEMMA HookCompactedSafe == ASSUME Hook!IInv, Hook!Compacted PROVE Hook!IInv'
<1> USE DEF Hook!Compacted, Hook!leases
<1>1. CASE ~hCompacting
  BY <1>1 DEF Hook!IInv, Hook!TypeOK, Hook!Ordered, Hook!Settled, Hook!BeliefIsTrue, Hook!LetGo, Hook!RunIsServed
<1>2. CASE hCompacting
  <2>1. /\ Hook!TypeOK /\ Hook!None \in Hook!Wanted /\ hModel \in Hook!Wanted
        /\ \E e \in [kind : Hook!Kinds, model : Hook!Wanted] :
             hQueue' = Append(hQueue, e) /\ e = [kind |-> "compacted", model |-> Hook!None]
        /\ ~hCompacting'
    BY <1>2 DEF Hook!IInv, Hook!TypeOK, Hook!Kinds, Hook!Wanted, Hook!Queued
  <2>q. PICK e \in [kind : Hook!Kinds, model : Hook!Wanted] :
          hQueue' = Append(hQueue, e) /\ e = [kind |-> "compacted", model |-> Hook!None]
    BY <2>1
  <2>2. Hook!TypeOK'
    BY <2>1, <2>q, HookQueues DEF Hook!TypeOK
  <2>3. Hook!Ordered'
    BY <2>1, <2>q, HookQueues DEF Hook!IInv, Hook!Ordered, Hook!Takes, Hook!Settled, Hook!BeliefIsTrue, Hook!TypeOK
  <2>4. Hook!Settled'
    BY <2>1, <2>q, HookQueues DEF Hook!IInv, Hook!Settled, Hook!BeliefIsTrue
  <2>5. Hook!LetGo'
    <3>1. \A i \in DOMAIN hQueue : hQueue[i].kind \notin Hook!Takes
      BY DEF Hook!IInv, Hook!Ordered, Hook!Settled, Hook!BeliefIsTrue, Hook!Takes
    <3>2. \A j \in 1 .. Len(hQueue) + 1 : hQueue'[j].kind \notin Hook!Takes
      BY <2>1, <3>1, <2>q, HookQueues DEF Hook!Takes
    <3>3. Len(hQueue) + 1 \in DOMAIN hQueue' /\ hQueue'[Len(hQueue) + 1].kind = "compacted"
      BY <2>1, <2>q, HookQueues
    <3> QED
      BY <3>2, <3>3 DEF Hook!LetGo
  <2>6. Hook!RunIsServed'
    BY DEF Hook!IInv, Hook!RunIsServed
  <2> QED
    BY <2>2, <2>3, <2>4, <2>5, <2>6 DEF Hook!IInv
<1> QED
  BY <1>1, <1>2

LEMMA HookOperatorStopsSafe == ASSUME Hook!IInv, Hook!OperatorStops PROVE Hook!IInv'
<1> USE DEF Hook!OperatorStops
<1>1. hRefs' = 0 /\ hLeft' = 0 /\ hHeld' = hHeld
  OBVIOUS
<1>2. hCleared' \in BOOLEAN
  BY Zenon DEF Hook!IInv, Hook!TypeOK
<1>3. Hook!TypeOK'
  BY <1>1, <1>2, HookAssumption DEF Hook!IInv, Hook!TypeOK, Hook!Event
<1>4. hHeld # Hook!None => hCleared'
  <2>1. CASE hStep = "ensuring"
    BY <1>1, <2>1 DEF Hook!IInv, Hook!Settled
  <2>2. CASE hStep # "ensuring"
    <3>1. hCleared' = (hHeld # Hook!None)
      BY <2>2
    <3> QED
      BY <3>1, Zenon
  <2> QED
    BY <2>1, <2>2
<1>5. Hook!BeliefIsTrue'
  BY <1>1, <1>4 DEF Hook!BeliefIsTrue
<1>6. Hook!Settled'
  BY <1>1, <1>5 DEF Hook!IInv, Hook!Settled
<1>7. Hook!Ordered' /\ Hook!LetGo'
  BY DEF Hook!IInv, Hook!Ordered, Hook!LetGo
<1>8. Hook!RunIsServed'
  <2>1. SUFFICES ASSUME hRun.at = "on", hRun.model # Hook!None, ~hSwitched
                 PROVE  hHeld = hRun.model /\ hCleared'
    BY DEF Hook!RunIsServed
  <2>2. hHeld = hRun.model /\ hHeld' # Hook!None
    BY <2>1 DEF Hook!IInv, Hook!RunIsServed
  <2>3. hCleared'
    BY <1>1, <1>4, <2>2
  <2> QED
    BY <2>2, <2>3
<1> QED
  BY <1>3, <1>6, <1>7, <1>8 DEF Hook!IInv

\* The host hears of a step that is through.
LEMMA HookResolves ==
  ASSUME Hook!IInv, hQueue # <<>>, hQueue' = Tail(hQueue), NEW refused \in BOOLEAN, Hook!Resolved(refused),
         UNCHANGED <<hModel, hSwitched>>
  PROVE  /\ hQueue' \in Seq([kind : Hook!Kinds, model : Hook!Wanted]) /\ hRefusal' \in Hook!Wanted
         /\ hRun' \in [at : {"none", "starting", "on", "off"}, model : Hook!Wanted]
         /\ hCompact' \in {"none", "asked", "on"}
         /\ Hook!Head1.kind \in Hook!Kinds /\ Hook!Head1.model \in Hook!Wanted
         /\ Hook!Ordered' /\ (hRun'.at # "none" => hCompact' = "none")
         /\ Hook!Head1.kind = "start" => hRun'.at \in {"on", "off"} /\ hCompact' = "none"
         /\ Hook!Head1.kind = "start" /\ hRun'.at = "on" /\ ~hSwitched => ~refused /\ hRun'.model = Hook!Head1.model
         /\ Hook!Head1.kind = "compact" => /\ hCompact = "asked" /\ hRun'.at = "none"
                                           /\ hCompact' = IF refused THEN "none" ELSE "on"
         /\ Hook!Head1.kind # "start" => hRun' = hRun
         /\ Hook!Head1.kind \notin Hook!Takes => hRun' = hRun /\ hCompact' = hCompact
<1>1. Hook!TypeOK
  BY DEF Hook!IInv
<1>2. Hook!Head1 = hQueue[1] /\ 1 \in DOMAIN hQueue /\ Hook!Head1.kind \in Hook!Kinds /\ Hook!Head1.model \in Hook!Wanted
  BY <1>1, HookLeaves
<1>3. CASE Hook!Head1.kind = "start"
  <2>1. hRun.at = "starting" /\ hCompact = "none"
    BY <1>2, <1>3 DEF Hook!IInv, Hook!Ordered, Hook!Settled, Hook!BeliefIsTrue
  <2>2. /\ hCompact' = hCompact /\ hRun' \in [at : {"on", "off"}, model : {hRun.model}]
        /\ hRefusal' \in Hook!Wanted /\ hRun'.model = hRun.model
        /\ hRun'.at = "on" => ~refused \/ hModel # Hook!Head1.model
    BY <1>1, <1>2, <1>3 DEF Hook!Resolved, Hook!TypeOK, Hook!None, Hook!Wanted
  <2>3. ~hSwitched => Len(hQueue) = 1 /\ hModel = hRun.model /\ Hook!Head1.model = hRun.model
    BY <1>1, <1>2, <1>3, <2>1, HookLeaves DEF Hook!IInv, Hook!Ordered, Hook!Takes
  <2>4. Hook!Ordered'
    BY <1>1, <1>2, <1>3, <2>1, <2>2, <2>3, HookLeaves DEF Hook!IInv, Hook!Ordered, Hook!Takes
  <2> QED
    BY <1>1, <1>2, <1>3, <2>1, <2>2, <2>3, <2>4, HookLeaves DEF Hook!TypeOK, Hook!Takes
<1>4. CASE Hook!Head1.kind # "start"
  <2>1. hRun' = hRun /\ hRefusal' = hRefusal
        /\ (Hook!Head1.kind # "compact" => hCompact' = hCompact)
        /\ (Hook!Head1.kind = "compact" => hCompact' = IF refused THEN "none" ELSE "on")
    BY <1>4 DEF Hook!Resolved
  <2>2. Hook!Head1.kind = "compact" => hCompact = "asked" /\ hRun.at = "none"
    BY <1>1, <1>2 DEF Hook!IInv, Hook!Ordered, Hook!Settled, Hook!BeliefIsTrue, Hook!TypeOK
  <2>3. Hook!Ordered'
    BY <1>1, <1>2, <1>4, <2>1, <2>2, HookLeaves DEF Hook!IInv, Hook!Ordered, Hook!Takes
  <2> QED
    BY <1>1, <1>2, <1>4, <2>1, <2>2, <2>3, HookLeaves DEF Hook!IInv, Hook!TypeOK, Hook!Settled, Hook!BeliefIsTrue, Hook!Takes
<1> QED
  BY <1>3, <1>4

\* What comes before the steps that take a lease still does when the first has left,
\* unless it was the first.
LEMMA HookStillDue ==
  ASSUME Hook!IInv, hQueue # <<>>, hQueue' = Tail(hQueue), Hook!Head1.kind \notin {"settle", "compacted"},
         NEW i \in DOMAIN hQueue, hQueue[i].kind \in {"settle", "compacted"},
         \A j \in 1 .. i : hQueue[j].kind \notin Hook!Takes
  PROVE  Hook!Head1.kind \notin Hook!Takes
         /\ \E k \in DOMAIN hQueue' : /\ hQueue'[k].kind \in {"settle", "compacted"}
                                      /\ \A j \in 1 .. k : hQueue'[j].kind \notin Hook!Takes
<1>1. Hook!TypeOK
  BY DEF Hook!IInv
<1>2. i # 1 /\ i \in 1 .. Len(hQueue) /\ Len(hQueue) \in Nat /\ Hook!Head1 = hQueue[1]
  BY <1>1, HookLeaves
<1>3. i - 1 \in DOMAIN hQueue' /\ hQueue'[i - 1] = hQueue[i]
  BY <1>1, <1>2, HookLeaves
<1>4. \A j \in 1 .. i - 1 : hQueue'[j].kind \notin Hook!Takes
  BY <1>1, <1>2, HookLeaves
<1> QED
  BY <1>2, <1>3, <1>4

\* A step that asks for nothing is through at once.
LEMMA HookStepBeginsSafe == ASSUME Hook!IInv, Hook!StepBegins PROVE Hook!IInv'
<1> USE DEF Hook!StepBegins, Hook!leases
<1>1. Hook!TypeOK /\ hQueue # <<>> /\ UNCHANGED <<hModel, hWarmed, hCompacting, hSwitched, hEvents>>
  BY DEF Hook!IInv
<1>2. hHeld' = Hook!Kept /\ Hook!Kept \in {Hook!None, hHeld} /\ hHeld' \in Hook!Wanted
  BY DEF Hook!Kept, Hook!IInv, Hook!TypeOK, Hook!None, Hook!Wanted
<1>c. /\ hRefs' \in Nat /\ hLeft' \in Nat /\ hCleared' \in BOOLEAN
      /\ Hook!BeliefIsTrue' /\ (hCleared' => hRefs' = 0 /\ hLeft' = 0)
  BY <1>2, HookLetsGo
<1>3. CASE Hook!Asks
  <2>1. hStep' = "ensuring" /\ UNCHANGED <<hQueue, hRun, hRefusal, hCompact>>
    BY <1>3
  <2>2. 1 \in DOMAIN hQueue /\ Hook!Head1 = hQueue[1]
    BY <1>1 DEF Hook!TypeOK, Hook!Head1
  <2>3. hHeld' = Hook!None
    BY <1>2, <1>3 DEF Hook!Asks, Hook!Kept, Hook!Drops, Hook!Stale
  <2>4. hRun.at = "on" => hRun.model = Hook!None \/ hSwitched
    BY <2>2, <1>1 DEF Hook!IInv, Hook!Ordered
  <2>5. Hook!TypeOK'
    BY <1>1, <1>2, <1>c, <2>1 DEF Hook!TypeOK
  <2>6. Hook!Ordered'
    BY <1>1, <2>1 DEF Hook!IInv, Hook!Ordered
  <2>7. Hook!Settled'
    <3>1. hQueue' # <<>> /\ hQueue'[1].model # Hook!None
      BY <1>1, <1>3, <2>1, <2>2 DEF Hook!Asks
    <3> QED
      BY <1>1, <1>2, <1>c, <2>1, <2>3, <3>1 DEF Hook!IInv, Hook!Settled
  <2>8. Hook!LetGo' /\ Hook!RunIsServed'
    BY <1>1, <1>2, <2>1, <2>3, <2>4 DEF Hook!IInv, Hook!LetGo, Hook!RunIsServed
  <2> QED
    BY <2>5, <2>6, <2>7, <2>8 DEF Hook!IInv
<1>4. CASE ~Hook!Asks
  <2>1. hQueue' = Tail(hQueue) /\ Hook!Resolved(FALSE) /\ hStep' = hStep /\ hStep = "idle"
    BY <1>4
  <2>2. Hook!TypeOK'
    BY <1>1, <1>2, <1>c, <2>1, HookResolves DEF Hook!TypeOK
  <2>3. Hook!Ordered'
    BY <1>1, <2>1, HookResolves
  <2>4. Hook!Head1.kind = "compact" => hHeld = Hook!None
    <3>1. SUFFICES ASSUME Hook!Head1.kind = "compact", hHeld # Hook!None PROVE FALSE
      OBVIOUS
    <3>2. hCompact = "asked" /\ hRun.at = "none" /\ hRun.at \notin {"on", "off"} /\ ~hCompacting
      BY <1>1, <2>1, <3>1, HookResolves DEF Hook!IInv, Hook!Settled, Hook!BeliefIsTrue
    <3>3. PICK i \in DOMAIN hQueue : \A j \in 1 .. i : hQueue[j].kind \notin Hook!Takes
      BY <3>1, <3>2 DEF Hook!IInv, Hook!LetGo
    <3>4. 1 \in 1 .. i /\ Hook!Head1 = hQueue[1]
      BY <1>1, <2>1, <3>3, HookLeaves
    <3> QED
      BY <3>1, <3>3, <3>4 DEF Hook!Takes
  <2>5. Hook!Settled'
    <3>1. hCompacting => hCompact' = "on"
      <4>1. hCompacting => Hook!Head1.kind \notin Hook!Takes
        BY <1>1, <2>1, HookResolves, HookLeaves DEF Hook!IInv, Hook!Settled, Hook!BeliefIsTrue, Hook!Ordered, Hook!Takes
      <4> QED
        BY <1>1, <2>1, <4>1, HookResolves DEF Hook!IInv, Hook!Settled, Hook!BeliefIsTrue
    <3>2. hRun'.at # "none" => hCompact' = "none"
      BY <1>1, <2>1, HookResolves
    <3>3. hCompacting' => hCompact' = "on"
      <4>1. hCompacting' => hCompacting
        BY <1>1
      <4> QED
        BY <3>1, <4>1
    <3> QED
      BY <1>c, <2>1, <3>2, <3>3 DEF Hook!Settled
  <2>6. Hook!LetGo'
    <3>1. SUFFICES ASSUME hHeld' # Hook!None, hRun'.at \notin {"on", "off"}, ~hCompacting
                   PROVE  \E k \in DOMAIN hQueue' : /\ hQueue'[k].kind \in {"settle", "compacted"}
                                                    /\ \A j \in 1 .. k : hQueue'[j].kind \notin Hook!Takes
      BY <1>1 DEF Hook!LetGo
    <3>2. hHeld # Hook!None /\ Hook!Head1.kind \notin {"settle", "compacted"}
      BY <1>2, <3>1 DEF Hook!Kept, Hook!Drops
    <3>3. hRun' = hRun
      BY <1>1, <2>1, <3>1, HookResolves
    <3>4. PICK i \in DOMAIN hQueue : /\ hQueue[i].kind \in {"settle", "compacted"}
                                     /\ \A j \in 1 .. i : hQueue[j].kind \notin Hook!Takes
      BY <3>1, <3>2, <3>3 DEF Hook!IInv, Hook!LetGo
    <3> QED
      BY <1>1, <2>1, <3>2, <3>4, HookStillDue
  <2>7. Hook!RunIsServed'
    <3>1. SUFFICES ASSUME hRun'.at = "on", hRun'.model # Hook!None, ~hSwitched
                   PROVE  hHeld' = hRun'.model
      BY <1>1, <1>c, HookServesNext
    <3>2. CASE Hook!Head1.kind = "start"
      <4>1. hRun'.model = Hook!Head1.model
        BY <1>1, <2>1, <3>1, <3>2, HookResolves
      <4>2. Hook!Kept = Hook!Head1.model
        BY <1>4, <3>1, <3>2, <4>1 DEF Hook!Asks
      <4> QED
        BY <1>2, <4>1, <4>2
    <3>3. CASE Hook!Head1.kind # "start"
      <4>1. hRun' = hRun
        BY <1>1, <2>1, <3>3, HookResolves
      <4> QED
        BY <1>1, <3>1, <4>1 DEF Hook!IInv, Hook!Ordered
    <3> QED
      BY <3>2, <3>3
  <2> QED
    BY <2>2, <2>3, <2>5, <2>6, <2>7 DEF Hook!IInv
<1> QED
  BY <1>3, <1>4

\* The runtime has the model up, or refuses it.
LEMMA HookEnsuredSafe == ASSUME Hook!IInv, Hook!Ensured PROVE Hook!IInv'
<1> USE DEF Hook!Ensured, Hook!leases
<1>1. /\ Hook!TypeOK /\ hQueue # <<>> /\ hHeld = Hook!None
      /\ hStep' = "idle" /\ hQueue' = Tail(hQueue) /\ Hook!Resolved(FALSE)
      /\ UNCHANGED <<hModel, hSwitched, hEvents>>
  BY DEF Hook!IInv, Hook!Settled, Hook!BeliefIsTrue
<1>2. Hook!Head1.kind \in Hook!Kinds /\ Hook!Head1.model \in Hook!Wanted /\ Hook!Head1.model # Hook!None
  BY <1>1, HookResolves, HookLeaves DEF Hook!IInv, Hook!Settled
<1>3. /\ hWarmed' \in Hook!Wanted /\ hHeld' \in Hook!Wanted /\ hCompacting' \in BOOLEAN
      /\ hHeld' \in {Hook!None, Hook!Head1.model}
      /\ Hook!Head1.kind \in Hook!Takes => hHeld' = Hook!Head1.model
      /\ Hook!Head1.kind \notin Hook!Takes => hHeld' = Hook!None
      /\ hCompacting' <=> hCompacting \/ Hook!Head1.kind = "compact"
  BY <1>1, <1>2 DEF Hook!TypeOK, Hook!Holds, Hook!Takes, Hook!None, Hook!Wanted
<1>c. /\ hRefs' \in Nat /\ hLeft' \in Nat /\ hCleared' \in BOOLEAN
      /\ Hook!BeliefIsTrue' /\ (hCleared' => hRefs' = 0 /\ hLeft' = 0)
  <2>1. CASE Hook!Holds
    <3>1. hHeld' # Hook!None /\ hRefs' = hRefs + Hook!Taken /\ UNCHANGED <<hLeft, hCleared>>
      BY <1>2, <2>1
    <3>2. /\ hRefs \in Nat /\ hLeft \in Nat /\ hCleared \in BOOLEAN /\ hRefs = hLeft
          /\ hCleared => hRefs = 0 /\ hLeft = 0
      BY <1>1 DEF Hook!IInv, Hook!TypeOK, Hook!Settled, Hook!BeliefIsTrue
    <3> QED
      BY <3>1, <3>2 DEF Hook!Taken, Hook!BeliefIsTrue
  <2>2. CASE ~Hook!Holds
    BY <1>1, <2>2, HookWarmedOnly
  <2> QED
    BY <2>1, <2>2
<1>4. Hook!TypeOK'
  BY <1>1, <1>3, <1>c, HookResolves DEF Hook!TypeOK
<1>5. Hook!Ordered'
  BY <1>1, HookResolves
<1>6. hCompacting' => hCompact' = "on"
  <2>1. hCompacting => Hook!Head1.kind \notin Hook!Takes
    BY <1>1, HookLeaves DEF Hook!IInv, Hook!Settled, Hook!BeliefIsTrue, Hook!Ordered, Hook!Takes
  <2> QED
    BY <1>1, <1>3, <2>1, HookResolves DEF Hook!IInv, Hook!Settled, Hook!BeliefIsTrue
<1>7. Hook!Settled'
  BY <1>1, <1>c, <1>6, HookResolves DEF Hook!Settled
<1>8. Hook!LetGo'
  BY <1>1, <1>3, HookResolves DEF Hook!LetGo, Hook!Takes
<1>9. Hook!RunIsServed'
  <2>1. SUFFICES ASSUME hRun'.at = "on", hRun'.model # Hook!None, ~hSwitched
                 PROVE  hHeld' = hRun'.model
    BY <1>1, <1>c, HookServesNext
  <2>2. CASE Hook!Head1.kind = "start"
    BY <1>1, <1>3, <2>1, <2>2, HookResolves DEF Hook!Takes
  <2>3. CASE Hook!Head1.kind # "start"
    <3>1. hRun' = hRun
      BY <1>1, <2>3, HookResolves
    <3> QED
      BY <1>1, <2>1, <3>1 DEF Hook!IInv, Hook!Ordered
  <2> QED
    BY <2>2, <2>3
<1> QED
  BY <1>4, <1>5, <1>7, <1>8, <1>9 DEF Hook!IInv

LEMMA HookRefusedSafe == ASSUME Hook!IInv, Hook!EnsureRefused PROVE Hook!IInv'
<1> USE DEF Hook!EnsureRefused, Hook!leases
<1>1. /\ Hook!TypeOK /\ hQueue # <<>> /\ hHeld = Hook!None
      /\ hStep' = "idle" /\ hQueue' = Tail(hQueue) /\ Hook!Resolved(TRUE)
      /\ UNCHANGED <<hModel, hHeld, hCompacting, hSwitched, hEvents>>
  BY DEF Hook!IInv, Hook!Settled, Hook!BeliefIsTrue
<1>2. hWarmed' \in Hook!Wanted
  BY <1>1 DEF Hook!TypeOK, Hook!None, Hook!Wanted
<1>c. /\ hRefs' \in Nat /\ hLeft' \in Nat /\ hCleared' \in BOOLEAN
      /\ Hook!BeliefIsTrue' /\ (hCleared' => hRefs' = 0 /\ hLeft' = 0)
  BY <1>1, HookWarmedOnly
<1>3. Hook!TypeOK'
  BY <1>1, <1>2, <1>c, HookResolves DEF Hook!TypeOK
<1>4. Hook!Ordered'
  BY <1>1, HookResolves
<1>5. hCompacting => hCompact' = "on"
  <2>1. hCompacting => Hook!Head1.kind \notin Hook!Takes
    BY <1>1, HookLeaves DEF Hook!IInv, Hook!Settled, Hook!BeliefIsTrue, Hook!Ordered, Hook!Takes
  <2> QED
    BY <1>1, <2>1, HookResolves DEF Hook!IInv, Hook!Settled, Hook!BeliefIsTrue
<1>6. Hook!Settled'
  <2>1. hRun'.at # "none" => hCompact' = "none"
    BY <1>1, HookResolves
  <2>2. hCompacting' => hCompact' = "on"
    <3>1. hCompacting' => hCompacting
      BY <1>1
    <3> QED
      BY <1>5, <3>1
  <2> QED
    BY <1>1, <1>c, <2>1, <2>2 DEF Hook!Settled
<1>7. Hook!LetGo'
  BY <1>1 DEF Hook!LetGo
<1>8. Hook!RunIsServed'
  <2>1. SUFFICES ASSUME hRun'.at = "on", hRun'.model # Hook!None, ~hSwitched
                 PROVE  FALSE
    BY DEF Hook!RunIsServed
  <2>2. Hook!Head1.kind # "start"
    BY <1>1, <2>1, HookResolves
  <2>3. hRun' = hRun
    BY <1>1, <2>2, HookResolves
  <2> QED
    BY <1>1, <2>1, <2>3 DEF Hook!IInv, Hook!Ordered
<1> QED
  BY <1>3, <1>4, <1>6, <1>7, <1>8 DEF Hook!IInv

\* The invariant holds at the start.
LEMMA HookInit == ASSUME Hook!Init PROVE Hook!IInv
<1>1. Hook!TypeOK
  <2>1. /\ hModel \in Hook!Wanted /\ hHeld \in Hook!Wanted /\ hWarmed \in Hook!Wanted /\ hRefusal \in Hook!Wanted
        /\ hCompacting \in BOOLEAN /\ hSwitched \in BOOLEAN /\ hStep \in {"idle", "ensuring"}
        /\ hCompact \in {"none", "asked", "on"} /\ hEvents = 0
        /\ hRun = [at |-> "none", model |-> Hook!None] /\ Hook!None \in Hook!Wanted
        /\ hRefs \in Nat /\ hLeft \in Nat /\ hCleared \in BOOLEAN
    BY DEF Hook!Init, Hook!Wanted
  <2>2. hQueue \in Seq([kind : Hook!Kinds, model : Hook!Wanted])
    BY EmptySeq DEF Hook!Init
  <2> QED
    BY <2>1, <2>2, HookAssumption DEF Hook!TypeOK
<1>2. Hook!Ordered /\ Hook!Settled /\ Hook!LetGo /\ Hook!RunIsServed
  BY DEF Hook!Init, Hook!Ordered, Hook!Settled, Hook!BeliefIsTrue, Hook!LetGo, Hook!RunIsServed
<1> QED
  BY <1>1, <1>2 DEF Hook!IInv

\* No step breaks the invariant.
LEMMA HookNextSafe == ASSUME Hook!IInv, [Hook!Next]_(Hook!vars) PROVE Hook!IInv'
<1>1. CASE Hook!Next
  BY <1>1, HookSelectSafe, HookRunStartsSafe, HookMessageEndsSafe, HookRunSettlesSafe, HookAskedSafe,
     HookCompactedSafe, HookOperatorStopsSafe, HookStepBeginsSafe, HookEnsuredSafe, HookRefusedSafe DEF Hook!Next
<1>2. CASE UNCHANGED Hook!vars
  BY <1>2 DEF Hook!vars, Hook!leases, Hook!IInv, Hook!TypeOK, Hook!Ordered, Hook!Settled, Hook!BeliefIsTrue, Hook!LetGo, Hook!RunIsServed
<1> QED
  BY <1>1, <1>2

LEMMA HookImplies == ASSUME Hook!IInv PROVE Hook!HookSound
<1>1. Hook!IdleHoldsNothing
  BY DEF Hook!IInv, Hook!TypeOK, Hook!Settled, Hook!BeliefIsTrue, Hook!LetGo, Hook!IdleHoldsNothing
<1> QED
  BY <1>1 DEF Hook!IInv, Hook!Settled, Hook!HookSound, Hook!BeliefIsTrue

\* A run has the lease on its model until another is selected or the operator stops the
\* server, and a process that uses no local model has none but those that a failed release
\* has left.
THEOREM HookIsSound == Hook!Spec => []Hook!HookSound
<1>1. Hook!Init => Hook!IInv
  BY HookInit
<1>2. Hook!IInv /\ [Hook!Next]_(Hook!vars) => Hook!IInv'
  BY HookNextSafe
<1>3. Hook!IInv => Hook!HookSound
  BY HookImplies
<1> QED
  BY <1>1, <1>2, <1>3, PTL DEF Hook!Spec

-----------------------------------------------------------------------------
(* Launches on a profile, ProfileEnsure, as the instance Ensure of MCWorkers. *)

\* ProfileEnsure counts with the same operator.
LEMMA EnsureSize == \A S : Ensure!Cardinality(S) = Cardinality(S)
BY DEF Ensure!Cardinality, Cardinality

\* A turn that is given up leaves the others as they stand.
LEMMA EnsureOpens ==
  ASSUME Ensure!IInv, NEW l \in Launches, Ensure!InLine(l), eLine' = Ensure!Opened(l)
  PROVE  /\ eLine' \in Seq(Launches)
         /\ \A i, j \in DOMAIN eLine' : eLine'[i] = eLine'[j] => i = j
         /\ \A k \in Launches : Ensure!InLine(k)' <=> Ensure!InLine(k) /\ k # l
         /\ \A k \in Launches : Ensure!MyTurn(k) /\ k # l => Ensure!MyTurn(k)'
<1> DEFINE n == Len(eLine)
<1>1. eLine \in Seq(Launches) /\ n \in Nat /\ DOMAIN eLine = 1 .. n
  BY DEF Ensure!IInv, Ensure!EnsureSound, Ensure!TypeOK
<1>2. PICK p \in 1 .. n : eLine[p] = l /\ eLine' = [i \in 1 .. n - 1 |-> IF i < p THEN eLine[i] ELSE eLine[i + 1]]
  BY <1>1 DEF Ensure!Opened, Ensure!InLine
<1>3. \A i, j \in 1 .. n : eLine[i] \in Launches /\ (eLine[i] = eLine[j] => i = j)
  BY <1>1 DEF Ensure!IInv, Ensure!Queued
<1>4. eLine' \in Seq(Launches) /\ Len(eLine') = n - 1 /\ DOMAIN eLine' = 1 .. n - 1
  <2>1. n - 1 \in Nat
    BY <1>1, <1>2
  <2>2. eLine' \in [1 .. n - 1 -> Launches]
    BY <1>1, <1>2, <1>3
  <2> QED
    BY <2>1, <2>2, SeqDef
<1> HIDE DEF n
<1>5. \A i \in 1 .. n - 1 : /\ i < p => eLine'[i] = eLine[i]
                            /\ i >= p => eLine'[i] = eLine[i + 1]
  BY <1>1, <1>2
<1>6. \A i, j \in DOMAIN eLine' : eLine'[i] = eLine'[j] => i = j
  <2>1. SUFFICES ASSUME NEW i \in 1 .. n - 1, NEW j \in 1 .. n - 1, eLine'[i] = eLine'[j] PROVE i = j
    BY <1>4
  <2>2. PICK a \in 1 .. n : a = IF i < p THEN i ELSE i + 1
    BY <1>1
  <2>3. PICK b \in 1 .. n : b = IF j < p THEN j ELSE j + 1
    BY <1>1
  <2>4. eLine'[i] = eLine[a] /\ eLine'[j] = eLine[b]
    BY <1>1, <1>5, <2>2, <2>3
  <2>5. a = b
    BY <1>3, <2>1, <2>4
  <2> QED
    BY <1>1, <2>2, <2>3, <2>5
<1>7. ASSUME NEW k \in Launches PROVE Ensure!InLine(k)' <=> Ensure!InLine(k) /\ k # l
  <2>1. ASSUME Ensure!InLine(k)' PROVE Ensure!InLine(k) /\ k # l
    <3>1. PICK i \in 1 .. n - 1 : eLine'[i] = k
      BY <1>4, <2>1 DEF Ensure!InLine
    <3>2. PICK a \in 1 .. n : a = IF i < p THEN i ELSE i + 1
      BY <1>1
    <3>3. eLine[a] = k /\ a # p
      BY <1>1, <1>5, <3>1, <3>2
    <3> QED
      BY <1>1, <1>2, <1>3, <3>3 DEF Ensure!InLine
  <2>2. ASSUME Ensure!InLine(k), k # l PROVE Ensure!InLine(k)'
    <3>1. PICK a \in 1 .. n : eLine[a] = k /\ a # p
      BY <1>1, <1>2, <2>2 DEF Ensure!InLine
    <3>2. PICK i \in 1 .. n - 1 : i = IF a < p THEN a ELSE a - 1
      BY <1>1, <3>1
    <3>3. eLine'[i] = k
      BY <1>1, <1>5, <3>1, <3>2
    <3> QED
      BY <1>4, <3>3 DEF Ensure!InLine
  <2> QED
    BY <2>1, <2>2
<1>8. ASSUME NEW k \in Launches, Ensure!MyTurn(k), k # l PROVE Ensure!MyTurn(k)'
  <2>1. eLine # <<>> /\ eLine[1] = k
    BY <1>1, <1>8 DEF Ensure!MyTurn
  <2>2. 1 \in 1 .. n /\ p > 1 /\ 1 \in 1 .. n - 1
    BY <1>1, <1>2, <1>8, <2>1 DEF n
  <2>3. eLine'[1] = k /\ eLine' # <<>>
    BY <1>4, <1>5, <2>1, <2>2
  <2> QED
    BY <1>4, <2>3 DEF Ensure!MyTurn
<1> QED
  BY <1>4, <1>6, <1>7, <1>8

\* A new turn comes last.
LEMMA EnsureAsks ==
  ASSUME Ensure!IInv, NEW l \in Launches, ~Ensure!InLine(l), eLine' = Append(eLine, l)
  PROVE  /\ eLine' \in Seq(Launches)
         /\ \A i, j \in DOMAIN eLine' : eLine'[i] = eLine'[j] => i = j
         /\ \A k \in Launches : Ensure!InLine(k)' <=> Ensure!InLine(k) \/ k = l
         /\ \A k \in Launches : Ensure!MyTurn(k) => Ensure!MyTurn(k)'
<1> DEFINE n == Len(eLine)
<1>1. eLine \in Seq(Launches) /\ n \in Nat /\ DOMAIN eLine = 1 .. n
  BY DEF Ensure!IInv, Ensure!EnsureSound, Ensure!TypeOK
<1>2. /\ eLine' \in Seq(Launches) /\ DOMAIN eLine' = 1 .. n + 1
      /\ eLine'[n + 1] = l /\ \A i \in 1 .. n : eLine'[i] = eLine[i]
  BY <1>1
<1>3. \A i, j \in 1 .. n : eLine[i] # l /\ (eLine[i] = eLine[j] => i = j)
  BY <1>1 DEF Ensure!IInv, Ensure!Queued, Ensure!InLine
<1> HIDE DEF n
<1>4. \A i \in 1 .. n + 1 : i = n + 1 \/ i \in 1 .. n
  BY <1>1
<1>5. \A i, j \in 1 .. n + 1 : eLine'[i] = eLine'[j] => i = j
  BY <1>2, <1>3, <1>4
<1>6. ASSUME NEW k \in Launches PROVE Ensure!InLine(k)' <=> Ensure!InLine(k) \/ k = l
  <2>1. n + 1 \in 1 .. n + 1 /\ 1 .. n \subseteq 1 .. n + 1
    BY <1>1
  <2> QED
    BY <1>1, <1>2, <1>4, <2>1 DEF Ensure!InLine
<1>7. ASSUME NEW k \in Launches, Ensure!MyTurn(k) PROVE Ensure!MyTurn(k)'
  <2>1. n > 0 /\ Head(eLine) = eLine[1] /\ Head(eLine) = k
    BY <1>1, <1>7 DEF Ensure!MyTurn, n
  <2>2. eLine' # <<>> /\ Head(eLine') = eLine'[1] /\ eLine'[1] = eLine[1]
    BY <1>1, <1>2, <2>1
  <2> QED
    BY <2>1, <2>2 DEF Ensure!MyTurn
<1> QED
  BY <1>2, <1>5, <1>6, <1>7

\* What runs is the first of the line.
LEMMA EnsureOneCommand == ASSUME Ensure!Queued, Ensure!Placed PROVE Ensure!OneCommandAtATime
<1> DEFINE S == {l \in Launches : eCommand[l] = "running"} \cup {l \in Launches : eAt[l] = "releasing" /\ Ensure!MyTurn(l)}
<1>1. S \subseteq {Head(eLine)}
  BY DEF Ensure!Queued, Ensure!Placed, Ensure!MyTurn
<1>2. IsFiniteSet({Head(eLine)}) /\ Cardinality({Head(eLine)}) = 1
  BY FS_Singleton
<1>3. Cardinality(S) <= 1
  BY <1>1, <1>2, FS_Subset
<1> QED
  BY EnsureSize, <1>3 DEF Ensure!OneCommandAtATime

\* A launch goes to another place, in the line or not.
LEMMA EnsureMoves ==
  ASSUME Ensure!IInv, NEW l \in Launches, NEW place \in Ensure!Places, eAt' = [eAt EXCEPT ![l] = place],
         \/ /\ eLine' = eLine /\ (Ensure!InLine(l) <=> place \in {"waiting", "ensuring", "releasing"})
            /\ place = "ensuring" => Ensure!MyTurn(l)
         \/ eLine' = Append(eLine, l) /\ ~Ensure!InLine(l) /\ place \in {"waiting", "releasing"}
         \/ eLine' = Ensure!Opened(l) /\ Ensure!InLine(l) /\ place \notin {"waiting", "ensuring", "releasing"}
  PROVE  Ensure!Queued' /\ eAt' \in [Launches -> Ensure!Places] /\ eLine' \in Seq(Launches)
<1>1. eAt' \in [Launches -> Ensure!Places] /\ \A k \in Launches : eAt'[k] = IF k = l THEN place ELSE eAt[k]
  BY DEF Ensure!IInv, Ensure!EnsureSound, Ensure!TypeOK
<1>2. CASE eLine' = eLine /\ (Ensure!InLine(l) <=> place \in {"waiting", "ensuring", "releasing"}) /\ (place = "ensuring" => Ensure!MyTurn(l))
  BY <1>1, <1>2 DEF Ensure!IInv, Ensure!EnsureSound, Ensure!TypeOK, Ensure!Queued, Ensure!InLine,
     Ensure!MyTurn
<1>3. CASE eLine' = Append(eLine, l) /\ ~Ensure!InLine(l) /\ place \in {"waiting", "releasing"}
  BY <1>1, <1>3, EnsureAsks DEF Ensure!IInv, Ensure!Queued
<1>4. CASE eLine' = Ensure!Opened(l) /\ Ensure!InLine(l) /\ place \notin {"waiting", "ensuring", "releasing"}
  BY <1>1, <1>4, EnsureOpens DEF Ensure!IInv, Ensure!Queued
<1> QED
  BY <1>1, <1>2, <1>3, <1>4

\* The command is started, signalled, counts in and ends.
LEMMA EnsureCommandSafe ==
  ASSUME Ensure!IInv, NEW l \in Launches, Ensure!Abort(l) \/ Ensure!TimesOut(l) \/ Ensure!CountsIn(l) \/ Ensure!Exits(l)
  PROVE  Ensure!IInv'
<1>1. UNCHANGED <<eAt, eLine, eReceipt, eResult>> /\ eAborted' \subseteq Launches /\ eDying' \subseteq Launches
  BY DEF Ensure!Abort, Ensure!TimesOut, Ensure!CountsIn, Ensure!Exits, Ensure!IInv, Ensure!EnsureSound,
     Ensure!TypeOK
<1>2. /\ \/ eLeases' = eLeases
         \/ eLeases' = eLeases \cup {l} /\ eCommand[l] = "running"
      /\ eLeases' \subseteq Launches
  BY DEF Ensure!Abort, Ensure!TimesOut, Ensure!CountsIn, Ensure!Exits, Ensure!IInv, Ensure!EnsureSound,
     Ensure!TypeOK
<1>3. \/ eCommand' = eCommand
      \/ /\ eCommand[l] = "running" /\ eLeases' = eLeases
         /\ \E c \in {"timeout", "aborted", "ok", "failed"} :
              /\ eCommand' = [eCommand EXCEPT ![l] = c]
              /\ (c = "ok" => l \in eLeases) /\ (c = "failed" => l \notin eLeases)
  <2>1. CASE Ensure!Exits(l)
    <3>1. PICK c \in {"timeout", "aborted", "ok", "failed"} :
            /\ eCommand' = [eCommand EXCEPT ![l] = c]
            /\ (c = "ok" => l \in eLeases) /\ (c = "failed" => l \notin eLeases)
      <4>1. CASE l \in eDying /\ l \notin eAborted
        <5>1. eCommand' = [eCommand EXCEPT ![l] = "timeout"]
          BY <2>1, <4>1 DEF Ensure!Exits
        <5> QED
          BY <5>1
      <4>2. CASE l \in eDying /\ l \in eAborted
        <5>1. eCommand' = [eCommand EXCEPT ![l] = "aborted"]
          BY <2>1, <4>2 DEF Ensure!Exits
        <5> QED
          BY <5>1
      <4>3. CASE l \notin eDying /\ l \in eLeases
        <5>1. eCommand' = [eCommand EXCEPT ![l] = "ok"]
          BY <2>1, <4>3 DEF Ensure!Exits
        <5> QED
          BY <5>1, <4>3
      <4>4. CASE l \notin eDying /\ l \notin eLeases
        <5>1. eCommand' = [eCommand EXCEPT ![l] = "failed"]
          BY <2>1, <4>4 DEF Ensure!Exits
        <5> QED
          BY <5>1, <4>4
      <4> QED
        BY <4>1, <4>2, <4>3, <4>4
    <3> QED
      BY <2>1, <3>1 DEF Ensure!Exits
  <2>2. CASE ~Ensure!Exits(l)
    BY <2>2 DEF Ensure!Abort, Ensure!TimesOut, Ensure!CountsIn
  <2> QED
    BY <2>1, <2>2
<1>4. eCommand' \in [Launches -> Ensure!Ends \cup {"none", "running"}]
  BY <1>3 DEF Ensure!IInv, Ensure!EnsureSound, Ensure!TypeOK, Ensure!Ends
<1>5. Ensure!Queued'
  BY <1>1 DEF Ensure!IInv, Ensure!Queued, Ensure!InLine, Ensure!MyTurn
<1>6. Ensure!Placed'
  BY <1>1, <1>2, <1>3 DEF Ensure!IInv, Ensure!EnsureSound, Ensure!TypeOK, Ensure!Placed, Ensure!Owed,
     Ensure!Ends
<1>7. Ensure!TypeOK'
  BY <1>1, <1>2, <1>4 DEF Ensure!IInv, Ensure!EnsureSound, Ensure!TypeOK
<1>8. Ensure!WorkerIsServed' /\ Ensure!LeasesMatched'
  BY <1>1, <1>2 DEF Ensure!IInv, Ensure!EnsureSound, Ensure!WorkerIsServed, Ensure!LeasesMatched,
     Ensure!Placed
<1>9. Ensure!OneCommandAtATime'
  BY <1>5, <1>6, EnsureOneCommand, PTL
<1> QED
  BY <1>5, <1>6, <1>7, <1>8, <1>9 DEF Ensure!IInv, Ensure!EnsureSound

\* A launch asks for its turn, runs its worker, and asks for a turn to release.
LEMMA EnsurePlaceSafe ==
  ASSUME Ensure!IInv, NEW l \in Launches, Ensure!Ask(l) \/ Ensure!NotServed(l) \/ Ensure!GiveUp(l) \/ Ensure!RunCommand(l) \/ Ensure!WorkerEnds(l) \/ Ensure!AskRelease(l)
  PROVE  Ensure!IInv'
<1>1. UNCHANGED <<eAborted, eLeases>> /\ eDying' \subseteq Launches
  BY DEF Ensure!Ask, Ensure!NotServed, Ensure!GiveUp, Ensure!RunCommand, Ensure!WorkerEnds,
     Ensure!AskRelease, Ensure!IInv, Ensure!EnsureSound, Ensure!TypeOK
<1>2. PICK place \in Ensure!Places :
        /\ eAt' = [eAt EXCEPT ![l] = place]
        /\ \/ /\ eLine' = eLine /\ (Ensure!InLine(l) <=> place \in {"waiting", "ensuring", "releasing"})
              /\ place = "ensuring" => Ensure!MyTurn(l)
           \/ eLine' = Append(eLine, l) /\ ~Ensure!InLine(l) /\ place \in {"waiting", "releasing"}
           \/ eLine' = Ensure!Opened(l) /\ Ensure!InLine(l) /\ place \notin {"waiting", "ensuring", "releasing"}
  BY DEF Ensure!Ask, Ensure!NotServed, Ensure!GiveUp, Ensure!RunCommand, Ensure!WorkerEnds,
     Ensure!AskRelease, Ensure!Places, Ensure!IInv, Ensure!Queued
<1>3. /\ eAt[l] \in {"new", "waiting"} => place \in {"waiting", "ensuring", "done"}
      /\ eAt[l] = "running" => place = "ending"
      /\ eAt[l] = "ending" => place = "releasing"
      /\ eAt[l] \in {"new", "waiting", "running", "ending"}
  BY <1>2 DEF Ensure!Ask, Ensure!NotServed, Ensure!GiveUp, Ensure!RunCommand, Ensure!WorkerEnds,
     Ensure!AskRelease, Ensure!IInv, Ensure!EnsureSound, Ensure!TypeOK, Ensure!Places
<1>4. \/ eCommand' = eCommand /\ place # "ensuring"
      \/ /\ place = "ensuring"
         /\ \E c \in {"running", "unstarted"} : eCommand' = [eCommand EXCEPT ![l] = c]
  BY <1>2 DEF Ensure!Ask, Ensure!NotServed, Ensure!GiveUp, Ensure!RunCommand, Ensure!WorkerEnds,
     Ensure!AskRelease, Ensure!IInv, Ensure!EnsureSound, Ensure!TypeOK, Ensure!Places
<1>5. eReceipt' \in [Launches -> {"none", "ensured", "refused", "released", "release-failed", "both"}]
      /\ \A k \in Launches : eReceipt'[k] = eReceipt[k] \/ (k = l /\ eAt[l] \in {"new", "waiting"})
  BY DEF Ensure!Ask, Ensure!NotServed, Ensure!GiveUp, Ensure!RunCommand, Ensure!WorkerEnds,
     Ensure!AskRelease, Ensure!IInv, Ensure!EnsureSound, Ensure!TypeOK
<1>6. eResult' \in [Launches -> {"none", "ran", "refused"}]
  BY DEF Ensure!Ask, Ensure!NotServed, Ensure!GiveUp, Ensure!RunCommand, Ensure!WorkerEnds,
     Ensure!AskRelease, Ensure!IInv, Ensure!EnsureSound, Ensure!TypeOK
<1>7. Ensure!Queued' /\ eAt' \in [Launches -> Ensure!Places] /\ eLine' \in Seq(Launches)
  BY <1>2, EnsureMoves
<1>8. \A k \in Launches : eAt'[k] = IF k = l THEN place ELSE eAt[k]
  BY <1>2 DEF Ensure!IInv, Ensure!EnsureSound, Ensure!TypeOK
<1>9. /\ eCommand' \in [Launches -> Ensure!Ends \cup {"none", "running"}]
      /\ \A k \in Launches : k # l => eCommand'[k] = eCommand[k]
      /\ place = "ensuring" => eCommand'[l] \in {"running", "unstarted"}
      /\ place # "ensuring" => eCommand'[l] = eCommand[l]
  BY <1>4 DEF Ensure!IInv, Ensure!EnsureSound, Ensure!TypeOK, Ensure!Ends
<1>10. Ensure!Placed'
  <2>1. SUFFICES ASSUME NEW k \in Launches
                 PROVE  /\ eCommand'[k] = "running" => eAt'[k] = "ensuring"
                        /\ eAt'[k] \in {"new", "waiting"} => eCommand'[k] = "none"
                        /\ eAt'[k] = "running" => eCommand'[k] = "ok"
                        /\ eAt'[k] \in {"ending", "releasing"} => Ensure!Owed(eCommand'[k])
                        /\ eCommand'[k] = "ok" /\ eAt'[k] \in {"ensuring", "running"} => k \in eLeases'
                        /\ eCommand'[k] \in {"none", "failed", "unstarted"} => k \notin eLeases'
    BY DEF Ensure!Placed, Ensure!Owed
  <2>2. CASE k # l
    BY <1>1, <1>8, <1>9, <2>2 DEF Ensure!IInv, Ensure!Placed
  <2>3. CASE k = l
    BY <1>1, <1>3, <1>8, <1>9, <2>3 DEF Ensure!IInv, Ensure!Placed, Ensure!Owed
  <2> QED
    BY <2>2, <2>3
<1>11. Ensure!TypeOK'
  BY <1>1, <1>5, <1>6, <1>7, <1>9 DEF Ensure!IInv, Ensure!EnsureSound, Ensure!TypeOK
<1>12. Ensure!WorkerIsServed' /\ Ensure!LeasesMatched'
  BY <1>1, <1>3, <1>5, <1>8 DEF Ensure!IInv, Ensure!EnsureSound, Ensure!WorkerIsServed,
     Ensure!LeasesMatched, Ensure!Placed
<1>13. Ensure!OneCommandAtATime'
  BY <1>7, <1>10, EnsureOneCommand, PTL
<1> QED
  BY <1>7, <1>10, <1>11, <1>12, <1>13 DEF Ensure!IInv, Ensure!EnsureSound

LEMMA EnsureCommandDoneSafe == ASSUME Ensure!IInv, NEW l \in Launches, Ensure!CommandDone(l) PROVE Ensure!IInv'
<1>1. /\ eAt[l] = "ensuring" /\ eCommand[l] \in Ensure!Ends /\ eLine' = Ensure!Opened(l)
      /\ UNCHANGED <<eAborted, eCommand, eDying, eLeases>>
  BY DEF Ensure!CommandDone
<1>2. PICK place \in {"running", "ending", "done"} :
        /\ eAt' = [eAt EXCEPT ![l] = place]
        /\ place = "running" => eCommand[l] = "ok"
        /\ place = "ending" => Ensure!Owed(eCommand[l])
        /\ place = "done" => ~Ensure!Owed(eCommand[l])
  BY DEF Ensure!CommandDone
<1>3. eReceipt' \in [Launches -> {"none", "ensured", "refused", "released", "release-failed", "both"}]
      /\ \A k \in Launches \ {l} : eReceipt'[k] = eReceipt[k]
  BY DEF Ensure!CommandDone, Ensure!IInv, Ensure!EnsureSound, Ensure!TypeOK
<1>4. eResult' \in [Launches -> {"none", "ran", "refused"}]
  BY DEF Ensure!CommandDone, Ensure!IInv, Ensure!EnsureSound, Ensure!TypeOK
<1>5. Ensure!InLine(l)
  BY <1>1 DEF Ensure!IInv, Ensure!Queued
<1>6. Ensure!Queued' /\ eAt' \in [Launches -> Ensure!Places] /\ eLine' \in Seq(Launches)
  BY <1>1, <1>2, <1>5, EnsureMoves DEF Ensure!Places
<1>7. \A k \in Launches : eAt'[k] = IF k = l THEN place ELSE eAt[k]
  BY <1>2 DEF Ensure!IInv, Ensure!EnsureSound, Ensure!TypeOK
<1>8. Ensure!Placed'
  BY <1>1, <1>2, <1>7 DEF Ensure!IInv, Ensure!Placed, Ensure!Owed, Ensure!Ends
<1>9. Ensure!TypeOK'
  BY <1>1, <1>3, <1>4, <1>6 DEF Ensure!IInv, Ensure!EnsureSound, Ensure!TypeOK
<1>10. Ensure!WorkerIsServed' /\ Ensure!LeasesMatched'
  BY <1>1, <1>2, <1>3, <1>7 DEF Ensure!IInv, Ensure!EnsureSound, Ensure!WorkerIsServed,
     Ensure!LeasesMatched, Ensure!Placed, Ensure!Owed, Ensure!Ends
<1>11. Ensure!OneCommandAtATime'
  BY <1>6, <1>8, EnsureOneCommand, PTL
<1> QED
  BY <1>6, <1>8, <1>9, <1>10, <1>11 DEF Ensure!IInv, Ensure!EnsureSound

LEMMA EnsureReleasedSafe == ASSUME Ensure!IInv, NEW l \in Launches, Ensure!Released(l) PROVE Ensure!IInv'
<1>1. /\ eAt[l] = "releasing" /\ eAt' = [eAt EXCEPT ![l] = "done"] /\ eLine' = Ensure!Opened(l)
      /\ UNCHANGED <<eAborted, eCommand, eDying, eResult>>
  BY DEF Ensure!Released
<1>2. \/ eLeases' = eLeases \ {l} /\ eReceipt' = [eReceipt EXCEPT ![l] = Ensure!Receipt(l, TRUE)]
      \/ UNCHANGED eLeases /\ eReceipt' = [eReceipt EXCEPT ![l] = Ensure!Receipt(l, FALSE)]
  BY DEF Ensure!Released
<1>3. /\ eReceipt' \in [Launches -> {"none", "ensured", "refused", "released", "release-failed", "both"}]
      /\ \A k \in Launches \ {l} : eReceipt'[k] = eReceipt[k]
      /\ l \in eLeases' => eReceipt'[l] \in {"release-failed", "both"}
  BY <1>2 DEF Ensure!Receipt, Ensure!IInv, Ensure!EnsureSound, Ensure!TypeOK
<1>4. eLeases' \subseteq Launches /\ \A k \in Launches \ {l} : k \in eLeases' <=> k \in eLeases
  BY <1>2 DEF Ensure!IInv, Ensure!EnsureSound, Ensure!TypeOK
<1>5. Ensure!InLine(l)
  BY <1>1 DEF Ensure!IInv, Ensure!Queued
<1>6. Ensure!Queued' /\ eAt' \in [Launches -> Ensure!Places] /\ eLine' \in Seq(Launches)
  BY <1>1, <1>5, EnsureMoves DEF Ensure!Places
<1>7. \A k \in Launches : eAt'[k] = IF k = l THEN "done" ELSE eAt[k]
  BY <1>1 DEF Ensure!IInv, Ensure!EnsureSound, Ensure!TypeOK
<1>8. Ensure!Placed'
  BY <1>1, <1>4, <1>7 DEF Ensure!IInv, Ensure!Placed, Ensure!Owed
<1>9. Ensure!TypeOK'
  BY <1>1, <1>3, <1>4, <1>6 DEF Ensure!IInv, Ensure!EnsureSound, Ensure!TypeOK
<1>10. Ensure!WorkerIsServed' /\ Ensure!LeasesMatched'
  BY <1>1, <1>3, <1>4, <1>7 DEF Ensure!IInv, Ensure!EnsureSound, Ensure!WorkerIsServed,
     Ensure!LeasesMatched
<1>11. Ensure!OneCommandAtATime'
  BY <1>6, <1>8, EnsureOneCommand, PTL
<1> QED
  BY <1>6, <1>8, <1>9, <1>10, <1>11 DEF Ensure!IInv, Ensure!EnsureSound

LEMMA EnsureInit == Ensure!Init => Ensure!IInv
<1> SUFFICES ASSUME Ensure!Init PROVE Ensure!IInv
  OBVIOUS
<1>1. Ensure!Queued /\ Ensure!Placed
  BY DEF Ensure!Init, Ensure!Queued, Ensure!Placed, Ensure!InLine, Ensure!MyTurn, Ensure!Owed
<1>2. Ensure!TypeOK /\ Ensure!WorkerIsServed /\ Ensure!LeasesMatched
  BY DEF Ensure!Init, Ensure!TypeOK, Ensure!WorkerIsServed, Ensure!LeasesMatched, Ensure!Places,
     Ensure!Ends
<1> QED
  BY <1>1, <1>2, EnsureOneCommand DEF Ensure!IInv, Ensure!EnsureSound

\* No step breaks the invariant.
LEMMA EnsureNextSafe == Ensure!IInv /\ [Ensure!Next]_(Ensure!vars) => Ensure!IInv'
<1>1. Ensure!IInv /\ UNCHANGED Ensure!vars => Ensure!IInv'
  BY DEF Ensure!vars, Ensure!IInv, Ensure!Queued, Ensure!Placed, Ensure!InLine, Ensure!MyTurn,
     Ensure!EnsureSound, Ensure!TypeOK, Ensure!OneCommandAtATime, Ensure!WorkerIsServed,
     Ensure!LeasesMatched
<1> QED
  BY <1>1, EnsureCommandSafe, EnsurePlaceSafe, EnsureCommandDoneSafe, EnsureReleasedSafe DEF Ensure!Next

LEMMA EnsureImplies == Ensure!IInv => Ensure!EnsureSound
BY DEF Ensure!IInv

\* The commands of a profile run one at a time, and its leases are given back or
\* the receipt says that they were not.
THEOREM EnsureIsSound == Ensure!Spec => []Ensure!EnsureSound
<1>1. Ensure!Init => Ensure!IInv
  BY EnsureInit
<1>2. Ensure!IInv /\ [Ensure!Next]_(Ensure!vars) => Ensure!IInv'
  BY EnsureNextSafe
<1>3. Ensure!IInv => Ensure!EnsureSound
  BY EnsureImplies
<1> QED
  BY <1>1, <1>2, <1>3, PTL DEF Ensure!Spec

-----------------------------------------------------------------------------
(* All three, as a run of the model checker sees them.                     *)

\* A step is one of its part, and none of the others.
LEMMA LocalsSteps ==
  ASSUME [MCNext]_allVars
  PROVE  [Local!Next]_(Local!vars) /\ [Hook!Next]_(Hook!vars) /\ [Ensure!Next]_(Ensure!vars)
BY DEF MCNext, Still, allVars, localVars, hookVars, ensureVars,
   Local!vars, Local!kept, Hook!vars, Hook!leases, Ensure!vars

\* Who uses a local model is served by it, through the runtime, through a session's
\* queue of steps and through the command of a profile.
THEOREM LocalIsSound == MCSpec => []LocalSound
<1> DEFINE I == (lLost \/ Local!IInv) /\ Hook!IInv /\ Ensure!IInv
<1>1. MCInit => I
  BY LocalInit, HookInit, EnsureInit DEF MCInit
<1>2. I /\ [MCNext]_allVars => I'
  <2> SUFFICES ASSUME I, [MCNext]_allVars PROVE I'
    OBVIOUS
  <2>1. (lLost \/ Local!IInv)'
    BY LocalsSteps, LocalKeeps
  <2>2. Hook!IInv'
    BY LocalsSteps, HookNextSafe
  <2>3. Ensure!IInv'
    BY LocalsSteps, EnsureNextSafe
  <2> QED
    BY <2>1, <2>2, <2>3
<1>3. I => LocalSound
  BY LocalImplies, HookImplies, EnsureImplies DEF LocalSound, Local!LocalSound
<1> QED
  BY <1>1, <1>2, <1>3, PTL DEF MCSpec
=============================================================================
