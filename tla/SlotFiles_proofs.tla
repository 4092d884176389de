--------------------------- MODULE SlotFiles_proofs ---------------------------
(***************************************************************************)
(* Proofs about the slot files, for every number of processes and slots.   *)
(***************************************************************************)
EXTENDS SlotFiles, TLAPS

\* The stamp a process reports as its lease is one it has published.
Proven == \A p \in Proc : /\ pc[p] = "verify" => mine[p] \in Stamp
                          /\ outcome[p] = "won" => mine[p] \in Stamp

TypeInv == TypeOK /\ Proven

\* The local variables of trySlot stay of their types.
LEMMA ScratchType ==
  ASSUME TypeInv, NEW p \in Proc, Leave(p) \/ NextIndex(p)
  PROVE  /\ pc' \in [Proc -> Labels]
         /\ at' \in [Proc -> Index]
         /\ observed' \in [Proc -> File]
         /\ mine' \in [Proc -> Stamp \cup {NoFile}]
         /\ claimed' \in [Proc -> Stamp \cup {NoFile}]
         /\ outcome' \in [Proc -> {"none", "won", "error"}]
         /\ Proven'
<1>1. /\ observed' \in [Proc -> File]
      /\ mine' \in [Proc -> Stamp \cup {NoFile}]
      /\ claimed' \in [Proc -> Stamp \cup {NoFile}]
      /\ outcome' \in [Proc -> {"none", "won", "error"}]
  BY DEF TypeInv, TypeOK, Leave, NextIndex, Forget, File
<1>2. pc' \in [Proc -> Labels]
  BY DEF TypeInv, TypeOK, Leave, NextIndex, Goto, Labels
<1>3. at' \in [Proc -> Index]
  <2>1. CASE Leave(p)
    BY <2>1 DEF TypeInv, TypeOK, Leave
  <2>2. CASE NextIndex(p) /\ at[p] + 1 < Cap
    <3>1. at[p] + 1 \in Index
      BY <2>2, CapAssumption DEF TypeInv, TypeOK, Index
    <3> QED
      BY <2>2, <3>1 DEF TypeInv, TypeOK, NextIndex
  <2> QED
    BY <2>1, <2>2 DEF NextIndex
<1>4. Proven'
  BY DEF TypeInv, TypeOK, Proven, Leave, NextIndex, Forget, Goto
<1> QED
  BY <1>1, <1>2, <1>3, <1>4

\* So do they, and the leases, when trySlot returns.
LEMMA ReturnType ==
  ASSUME TypeInv, NEW p \in Proc, Return(p)
  PROVE  /\ pc' \in [Proc -> Labels]
         /\ at' \in [Proc -> Index]
         /\ observed' \in [Proc -> File]
         /\ mine' \in [Proc -> Stamp \cup {NoFile}]
         /\ claimed' \in [Proc -> Stamp \cup {NoFile}]
         /\ outcome' \in [Proc -> {"none", "won", "error"}]
         /\ held' \in [Proc -> SUBSET Lease]
         /\ Proven'
<1>1. CASE outcome[p] = "won"
  <2>1. /\ held' = [held EXCEPT ![p] = @ \cup {[index |-> at[p], stamp |-> mine[p]]}]
        /\ Leave(p)
    BY <1>1 DEF Return
  <2>2. [index |-> at[p], stamp |-> mine[p]] \in Lease
    <3>1. at[p] \in Index /\ mine[p] \in Stamp
      BY <1>1 DEF TypeInv, TypeOK, Proven
    <3> QED
      BY <3>1 DEF Lease
  <2> QED
    BY <2>1, <2>2, ScratchType DEF TypeInv, TypeOK
<1>2. CASE outcome[p] # "won"
  BY <1>2, ScratchType DEF Return, TypeInv, TypeOK
<1> QED
  BY <1>1, <1>2

\* Every variable keeps its type: in particular the index a process works on
\* stays below the cap of the bucket.
THEOREM TypeInvariant == Spec => []TypeInv
<1>1. Init => TypeInv
  BY CapAssumption DEF Init, TypeInv, TypeOK, Proven, File, Index, Labels
<1>2. TypeInv /\ [Next]_vars => TypeInv'
  <2> SUFFICES ASSUME TypeInv, [Next]_vars PROVE TypeInv'
    OBVIOUS
  <2>1. CASE UNCHANGED vars
    BY <2>1 DEF TypeInv, TypeOK, Proven, vars
  <2>2. ASSUME NEW p \in Proc, TryBucket(p) PROVE TypeInv'
    BY <2>2, CapAssumption DEF TypeInv, TypeOK, Proven, TryBucket, Goto, files, scratch, Labels, Index
  <2>3. ASSUME NEW p \in Proc, ReadClaim(p) PROVE TypeInv'
    BY <2>3, ScratchType DEF TypeInv, TypeOK, Proven, ReadClaim, Goto, files, scratch, Labels
  <2>4. ASSUME NEW p \in Proc, ReadSlot(p) PROVE TypeInv'
    BY <2>4 DEF TypeInv, TypeOK, Proven, ReadSlot, Goto, files, Labels
  <2>5. ASSUME NEW p \in Proc, Probe(p) PROVE TypeInv'
    BY <2>5, ScratchType DEF TypeInv, TypeOK, Proven, Probe, Goto, files, scratch, Labels
  <2>6. ASSUME NEW p \in Proc, PublishFree(p) PROVE TypeInv'
    BY <2>6, ScratchType DEF TypeInv, TypeOK, Proven, PublishFree, FreshStamp, File, Lease
  <2>7. ASSUME NEW p \in Proc, PublishClaim(p) PROVE TypeInv'
    BY <2>7, ScratchType DEF TypeInv, TypeOK, Proven, PublishClaim, Goto, FreshStamp, Labels
  <2>8. ASSUME NEW p \in Proc, Recheck(p) PROVE TypeInv'
    BY <2>8 DEF TypeInv, TypeOK, Proven, Recheck, Goto, files, scratch, Labels
  <2>9. ASSUME NEW p \in Proc, Unlink(p) PROVE TypeInv'
    BY <2>9 DEF TypeInv, TypeOK, Proven, Unlink, Goto, scratch, Labels, File
  <2>10. ASSUME NEW p \in Proc, Publish(p) PROVE TypeInv'
    BY <2>10 DEF TypeInv, TypeOK, Proven, Publish, Goto, FreshStamp, Labels, File
  <2>11. ASSUME NEW p \in Proc, Verify(p) PROVE TypeInv'
    BY <2>11 DEF TypeInv, TypeOK, Proven, Verify, Goto, files, Labels
  <2>12. ASSUME NEW p \in Proc, ReadOwnClaim(p) PROVE TypeInv'
    <3>1. CASE Goto(p, "unlinkClaim") /\ UNCHANGED <<at, scratch, held>>
      BY <2>12, <3>1 DEF TypeInv, TypeOK, Proven, ReadOwnClaim, Goto, files, scratch, Labels
    <3>2. CASE Return(p)
      BY <2>12, <3>2, ScratchType, ReturnType DEF TypeInv, TypeOK, Proven, ReadOwnClaim, files
    <3> QED
      BY <2>12, <3>1, <3>2 DEF ReadOwnClaim
  <2>13. ASSUME NEW p \in Proc, UnlinkClaim(p) PROVE TypeInv'
    BY <2>13, ReturnType DEF TypeInv, TypeOK, Proven, UnlinkClaim
  <2>14. ASSUME NEW p \in Proc, PublishError(p) PROVE TypeInv'
    BY <2>14, ScratchType DEF TypeInv, TypeOK, Proven, PublishError, Goto, files, Labels
  <2>15. ASSUME NEW p \in Proc, ReleaseLease(p) PROVE TypeInv'
    BY <2>15 DEF TypeInv, TypeOK, Proven, ReleaseLease, Goto, files, scratch, Labels, Lease
  <2>16. ASSUME NEW p \in Proc, UnlinkLease(p) PROVE TypeInv'
    BY <2>16 DEF TypeInv, TypeOK, Proven, UnlinkLease, Goto, scratch, Labels, File
  <2>17. ASSUME NEW p \in Proc, Crash(p) PROVE TypeInv'
    BY <2>17, CapAssumption DEF TypeInv, TypeOK, Proven, Crash, Forget, Goto, files, Labels, File, Index
  <2>18. ASSUME NEW p \in Proc, Restart(p) PROVE TypeInv'
    BY <2>18 DEF TypeInv, TypeOK, Proven, Restart, Goto, files, scratch, Labels
  <2> QED
    BY <2>1, <2>2, <2>3, <2>4, <2>5, <2>6, <2>7, <2>8, <2>9, <2>10, <2>11,
       <2>12, <2>13, <2>14, <2>15, <2>16, <2>17, <2>18 DEF Next, Step
<1> QED
  BY <1>1, <1>2, PTL DEF Spec

\* Every variable keeps its type.
THEOREM TypeCorrect == Spec => []TypeOK
<1>1. TypeInv => TypeOK
  BY DEF TypeInv
<1> QED
  BY <1>1, TypeInvariant, PTL

\* TryBucket keeps the invariant: one step per part.
LEMMA TryBucketSafe ==
  ASSUME TypeInv, TypeInv', IInv, NEW p \in Proc, TryBucket(p)
  PROVE  IInv'
<1>1. StampsOwn'
  BY CapAssumption, FileAssumption DEF TypeInv, TypeOK, IInv, StampsOwn, TryBucket, Goto, files, scratch
<1>2. Tidy'
  BY CapAssumption, FileAssumption DEF TypeInv, TypeOK, IInv, Tidy, TryBucket, Goto, files, scratch
<1>3. ClaimOwned'
  BY CapAssumption, FileAssumption DEF TypeInv, TypeOK, IInv, ClaimOwned, StampsOwn, Critical, TryBucket, Goto, files, scratch
<1>4. Backed'
  BY CapAssumption, FileAssumption DEF TypeInv, TypeOK, IInv, Backed, LeaseBacked, StampsOwn, Tidy, TryBucket, Goto, files, scratch
<1>5. Releasing'
  BY CapAssumption, FileAssumption DEF TypeInv, TypeOK, IInv, Releasing, TryBucket, Goto, files, scratch
<1>6. Stale'
  BY CapAssumption, FileAssumption DEF TypeInv, TypeOK, IInv, Stale, Orphan, Tidy, StampsOwn, TryBucket, Goto, files, scratch
<1> QED
  BY <1>1, <1>2, <1>3, <1>4, <1>5, <1>6 DEF IInv

\* ReadClaim keeps the invariant: one step per part.
LEMMA ReadClaimSafe ==
  ASSUME TypeInv, TypeInv', IInv, NEW p \in Proc, ReadClaim(p)
  PROVE  IInv'
<1>1. StampsOwn'
  BY CapAssumption, FileAssumption DEF TypeInv, TypeOK, IInv, StampsOwn, ReadClaim, NextIndex, Leave, Forget, Goto, files, scratch
<1>2. Tidy'
  BY CapAssumption, FileAssumption DEF TypeInv, TypeOK, IInv, Tidy, ReadClaim, NextIndex, Leave, Forget, Goto, files, scratch
<1>3. ClaimOwned'
  BY CapAssumption, FileAssumption DEF TypeInv, TypeOK, IInv, ClaimOwned, StampsOwn, Critical, ReadClaim, NextIndex, Leave, Forget, Goto, files, scratch
<1>4. Backed'
  BY CapAssumption, FileAssumption DEF TypeInv, TypeOK, IInv, Backed, LeaseBacked, StampsOwn, Tidy, ReadClaim, NextIndex, Leave, Forget, Goto, files, scratch
<1>5. Releasing'
  BY CapAssumption, FileAssumption DEF TypeInv, TypeOK, IInv, Releasing, ReadClaim, NextIndex, Leave, Forget, Goto, files, scratch
<1>6. Stale'
  BY CapAssumption, FileAssumption DEF TypeInv, TypeOK, IInv, Stale, Orphan, Tidy, StampsOwn, ReadClaim, NextIndex, Leave, Forget, Goto, files, scratch
<1> QED
  BY <1>1, <1>2, <1>3, <1>4, <1>5, <1>6 DEF IInv

\* ReadSlot keeps the invariant: one step per part.
LEMMA ReadSlotSafe ==
  ASSUME TypeInv, TypeInv', IInv, NEW p \in Proc, ReadSlot(p)
  PROVE  IInv'
<1>1. StampsOwn'
  BY CapAssumption, FileAssumption DEF TypeInv, TypeOK, IInv, StampsOwn, ReadSlot, Goto, files
<1>2. Tidy'
  BY CapAssumption, FileAssumption DEF TypeInv, TypeOK, IInv, Tidy, ReadSlot, Goto, files
<1>3. ClaimOwned'
  BY CapAssumption, FileAssumption DEF TypeInv, TypeOK, IInv, ClaimOwned, StampsOwn, Critical, ReadSlot, Goto, files
<1>4. Backed'
  BY CapAssumption, FileAssumption DEF TypeInv, TypeOK, IInv, Backed, LeaseBacked, StampsOwn, Tidy, ReadSlot, Goto, files
<1>5. Releasing'
  BY CapAssumption, FileAssumption DEF TypeInv, TypeOK, IInv, Releasing, ReadSlot, Goto, files
<1>6. Stale'
  BY CapAssumption, FileAssumption DEF TypeInv, TypeOK, IInv, Stale, Orphan, Tidy, StampsOwn, ReadSlot, Goto, files
<1> QED
  BY <1>1, <1>2, <1>3, <1>4, <1>5, <1>6 DEF IInv

\* Probe keeps the invariant: one step per part.
LEMMA ProbeSafe ==
  ASSUME TypeInv, TypeInv', IInv, NEW p \in Proc, Probe(p)
  PROVE  IInv'
<1>1. StampsOwn'
  BY CapAssumption, FileAssumption DEF TypeInv, TypeOK, IInv, StampsOwn, Probe, NextIndex, Leave, Forget, Goto, files, scratch
<1>2. Tidy'
  BY CapAssumption, FileAssumption DEF TypeInv, TypeOK, IInv, Tidy, Probe, NextIndex, Leave, Forget, Goto, files, scratch
<1>3. ClaimOwned'
  BY CapAssumption, FileAssumption DEF TypeInv, TypeOK, IInv, ClaimOwned, StampsOwn, Critical, Probe, NextIndex, Leave, Forget, Goto, files, scratch
<1>4. Backed'
  BY CapAssumption, FileAssumption DEF TypeInv, TypeOK, IInv, Backed, LeaseBacked, StampsOwn, Tidy, Probe, NextIndex, Leave, Forget, Goto, files, scratch
<1>5. Releasing'
  BY CapAssumption, FileAssumption DEF TypeInv, TypeOK, IInv, Releasing, Probe, NextIndex, Leave, Forget, Goto, files, scratch
<1>6. Stale'
  <2>1. CASE Reclaimable(observed[p])
    <3>1. observed[p] \in Stamp /\ pc[observed[p].pid] = "dead"
      BY <2>1 DEF Reclaimable, Alive
    <3>2. Orphan(observed[p])
      BY <3>1, FileAssumption DEF TypeInv, TypeOK, IInv, StampsOwn, Tidy, Orphan, Stamp
    <3> QED
      BY <2>1, <3>1, <3>2 DEF TypeInv, TypeOK, IInv, Stale, Orphan, Probe, Goto, files, scratch
  <2>2. CASE ~Reclaimable(observed[p])
    BY <2>2, FileAssumption
       DEF TypeInv, TypeOK, IInv, Stale, Orphan, Tidy, Probe, NextIndex, Leave, Forget, Goto, files
  <2> QED
    BY <2>1, <2>2
<1> QED
  BY <1>1, <1>2, <1>3, <1>4, <1>5, <1>6 DEF IInv

\* PublishFree keeps the invariant: one step per part.
LEMMA PublishFreeSafe ==
  ASSUME TypeInv, TypeInv', IInv, NEW p \in Proc, PublishFree(p)
  PROVE  IInv'
<1>1. StampsOwn'
  BY CapAssumption, FileAssumption DEF TypeInv, TypeOK, IInv, StampsOwn, PublishFree, NextIndex, Leave, Forget, Goto, FreshStamp
<1>2. Tidy'
  BY CapAssumption, FileAssumption DEF TypeInv, TypeOK, IInv, Tidy, PublishFree, NextIndex, Leave, Forget, Goto, FreshStamp
<1>3. ClaimOwned'
  BY CapAssumption, FileAssumption DEF TypeInv, TypeOK, IInv, ClaimOwned, StampsOwn, Critical, PublishFree, NextIndex, Leave, Forget, Goto, FreshStamp
<1>4. Backed'
  <2>1. CASE slot[at[p]] = NoFile
    <3>1. PICK s \in FreshStamp(p) :
             /\ slot' = [slot EXCEPT ![at[p]] = s]
             /\ held' = [held EXCEPT ![p] = @ \cup {[index |-> at[p], stamp |-> s]}]
             /\ Leave(p)
      BY <2>1 DEF PublishFree
    <3>2. \A q \in Proc : \A l \in held[q] : l.index # at[p] /\ l.index \in Index
      BY <2>1, FileAssumption DEF TypeInv, TypeOK, IInv, Backed, LeaseBacked, Lease, Stamp
    <3>3. \A q \in Proc : mine[q] # NoFile => at[q] # at[p]
      BY <2>1 DEF IInv, Backed
    <3>4. LeaseBacked'
      BY <3>1, <3>2 DEF TypeInv, TypeOK, IInv, Backed, LeaseBacked
    <3>5. (\A q \in Proc : mine[q] # NoFile => slot[at[q]] = mine[q])'
      BY <3>1, <3>3 DEF TypeInv, TypeOK, IInv, Backed, Leave, Forget
    <3> QED
      BY <3>4, <3>5 DEF Backed
  <2>2. CASE slot[at[p]] # NoFile
    BY <2>2 DEF TypeInv, TypeOK, IInv, Backed, LeaseBacked, PublishFree, NextIndex, Leave, Forget
  <2> QED
    BY <2>1, <2>2
<1>5. Releasing'
  BY CapAssumption, FileAssumption DEF TypeInv, TypeOK, IInv, Releasing, PublishFree, NextIndex, Leave, Forget, Goto, FreshStamp
<1>6. Stale'
  BY CapAssumption, FileAssumption DEF TypeInv, TypeOK, IInv, Stale, Orphan, Tidy, StampsOwn, PublishFree, NextIndex, Leave, Forget, Goto, FreshStamp
<1> QED
  BY <1>1, <1>2, <1>3, <1>4, <1>5, <1>6 DEF IInv

\* PublishClaim keeps the invariant: one step per part.
LEMMA PublishClaimSafe ==
  ASSUME TypeInv, TypeInv', IInv, NEW p \in Proc, PublishClaim(p)
  PROVE  IInv'
<1>1. StampsOwn'
  BY CapAssumption, FileAssumption DEF TypeInv, TypeOK, IInv, StampsOwn, PublishClaim, NextIndex, Leave, Forget, Goto, FreshStamp
<1>2. Tidy'
  BY CapAssumption, FileAssumption DEF TypeInv, TypeOK, IInv, Tidy, PublishClaim, NextIndex, Leave, Forget, Goto, FreshStamp
<1>3. ClaimOwned'
  <2>1. CASE claim[at[p]] = NoFile
    <3>1. PICK s \in FreshStamp(p) : /\ claim' = [claim EXCEPT ![at[p]] = s]
                                     /\ claimed' = [claimed EXCEPT ![p] = s]
                                     /\ UNCHANGED at
                                     /\ Goto(p, "recheck")
      BY <2>1 DEF PublishClaim
    <3>2. \A q \in Proc : pc[q] \in Critical => at[q] # at[p]
      BY <2>1, FileAssumption DEF IInv, ClaimOwned, Stamp
    <3>3. s \in Stamp
      BY <3>1 DEF FreshStamp
    <3> QED
      BY <3>1, <3>2, <3>3 DEF TypeInv, TypeOK, IInv, ClaimOwned, Goto, Critical
  <2>2. CASE claim[at[p]] # NoFile
    BY <2>2 DEF TypeInv, TypeOK, IInv, ClaimOwned, PublishClaim, NextIndex, Leave, Forget, Goto, Critical
  <2> QED
    BY <2>1, <2>2
<1>4. Backed'
  BY CapAssumption, FileAssumption DEF TypeInv, TypeOK, IInv, Backed, LeaseBacked, StampsOwn, Tidy, PublishClaim, NextIndex, Leave, Forget, Goto, FreshStamp
<1>5. Releasing'
  BY CapAssumption, FileAssumption DEF TypeInv, TypeOK, IInv, Releasing, PublishClaim, NextIndex, Leave, Forget, Goto, FreshStamp
<1>6. Stale'
  BY CapAssumption, FileAssumption DEF TypeInv, TypeOK, IInv, Stale, Orphan, Tidy, StampsOwn, PublishClaim, NextIndex, Leave, Forget, Goto, FreshStamp
<1> QED
  BY <1>1, <1>2, <1>3, <1>4, <1>5, <1>6 DEF IInv

\* Recheck keeps the invariant: one step per part.
LEMMA RecheckSafe ==
  ASSUME TypeInv, TypeInv', IInv, NEW p \in Proc, Recheck(p)
  PROVE  IInv'
<1>1. StampsOwn'
  BY CapAssumption, FileAssumption DEF TypeInv, TypeOK, IInv, StampsOwn, Recheck, Goto, files, scratch
<1>2. Tidy'
  BY FileAssumption DEF TypeInv, TypeOK, Proven, IInv, Tidy, Backed, Stamp, Recheck, Goto, scratch
<1>3. ClaimOwned'
  BY CapAssumption, FileAssumption DEF TypeInv, TypeOK, IInv, ClaimOwned, StampsOwn, Critical, Recheck, Goto, files, scratch
<1>4. Backed'
  BY CapAssumption, FileAssumption DEF TypeInv, TypeOK, IInv, Backed, LeaseBacked, StampsOwn, Tidy, Recheck, Goto, files, scratch
<1>5. Releasing'
  BY CapAssumption, FileAssumption DEF TypeInv, TypeOK, IInv, Releasing, Recheck, Goto, files, scratch
<1>6. Stale'
  BY CapAssumption, FileAssumption DEF TypeInv, TypeOK, IInv, Stale, Orphan, Tidy, StampsOwn, Recheck, Goto, files, scratch
<1> QED
  BY <1>1, <1>2, <1>3, <1>4, <1>5, <1>6 DEF IInv

\* Unlink keeps the invariant: one step per part.
LEMMA UnlinkSafe ==
  ASSUME TypeInv, TypeInv', IInv, NEW p \in Proc, Unlink(p)
  PROVE  IInv'
<1>1. StampsOwn'
  BY CapAssumption, FileAssumption DEF TypeInv, TypeOK, IInv, StampsOwn, Unlink, Goto, scratch
<1>2. Tidy'
  BY CapAssumption, FileAssumption DEF TypeInv, TypeOK, IInv, Tidy, Unlink, Goto, scratch
<1>3. ClaimOwned'
  BY CapAssumption, FileAssumption DEF TypeInv, TypeOK, IInv, ClaimOwned, StampsOwn, Critical, Unlink, Goto, scratch
<1>4. Backed'
  <2>1. /\ pc[p] = "unlink" /\ Orphan(slot[at[p]])
        /\ slot' = [slot EXCEPT ![at[p]] = NoFile]
        /\ UNCHANGED <<at, mine, held>>
    BY DEF Unlink, IInv, Stale, scratch
  <2>2. \A q \in Proc : \A l \in held[q] : l.index # at[p] /\ l.index \in Index
    BY <2>1 DEF TypeInv, TypeOK, IInv, Backed, LeaseBacked, Lease, Orphan
  <2>3. \A q \in Proc : mine[q] # NoFile => at[q] # at[p]
    BY <2>1 DEF IInv, Backed, Orphan
  <2> QED
    BY <2>1, <2>2, <2>3 DEF TypeInv, TypeOK, IInv, Backed, LeaseBacked
<1>5. Releasing'
  BY CapAssumption, FileAssumption DEF TypeInv, TypeOK, IInv, Releasing, Unlink, Goto, scratch
<1>6. Stale'
  <2>1. \A q \in Proc : pc[q] = "unlink" /\ at[q] = at[p] => q = p
    BY FileAssumption DEF Unlink, IInv, ClaimOwned, StampsOwn, Critical, Stamp
  <2> QED
    BY <2>1 DEF TypeInv, TypeOK, IInv, Stale, Orphan, Unlink, Goto, scratch
<1> QED
  BY <1>1, <1>2, <1>3, <1>4, <1>5, <1>6 DEF IInv

\* Publish keeps the invariant: one step per part.
LEMMA PublishSafe ==
  ASSUME TypeInv, TypeInv', IInv, NEW p \in Proc, Publish(p)
  PROVE  IInv'
<1>1. StampsOwn'
  BY CapAssumption, FileAssumption DEF TypeInv, TypeOK, IInv, StampsOwn, Publish, Goto, FreshStamp
<1>2. Tidy'
  BY FileAssumption DEF TypeInv, TypeOK, Proven, IInv, Tidy, Backed, Stamp, Publish, Goto, FreshStamp
<1>3. ClaimOwned'
  BY CapAssumption, FileAssumption DEF TypeInv, TypeOK, IInv, ClaimOwned, StampsOwn, Critical, Publish, Goto, FreshStamp
<1>4. Backed'
  <2>1. CASE slot[at[p]] = NoFile
    <3>1. PICK s \in FreshStamp(p) : /\ slot' = [slot EXCEPT ![at[p]] = s]
                                     /\ mine' = [mine EXCEPT ![p] = s]
                                     /\ UNCHANGED <<at, held>>
      BY <2>1 DEF Publish
    <3>2. \A q \in Proc : \A l \in held[q] : l.index # at[p] /\ l.index \in Index
      BY <2>1, FileAssumption DEF TypeInv, TypeOK, IInv, Backed, LeaseBacked, Lease, Stamp
    <3>3. \A q \in Proc : mine[q] # NoFile => at[q] # at[p]
      BY <2>1 DEF IInv, Backed
    <3> QED
      BY <3>1, <3>2, <3>3 DEF TypeInv, TypeOK, IInv, Backed, LeaseBacked
  <2>2. CASE slot[at[p]] # NoFile
    BY <2>2 DEF TypeInv, TypeOK, IInv, Backed, LeaseBacked, Publish
  <2> QED
    BY <2>1, <2>2
<1>5. Releasing'
  BY CapAssumption, FileAssumption DEF TypeInv, TypeOK, IInv, Releasing, Publish, Goto, FreshStamp
<1>6. Stale'
  BY CapAssumption, FileAssumption DEF TypeInv, TypeOK, IInv, Stale, Orphan, Tidy, StampsOwn, Publish, Goto, FreshStamp
<1> QED
  BY <1>1, <1>2, <1>3, <1>4, <1>5, <1>6 DEF IInv

\* Verify keeps the invariant: one step per part.
LEMMA VerifySafe ==
  ASSUME TypeInv, TypeInv', IInv, NEW p \in Proc, Verify(p)
  PROVE  IInv'
<1>1. StampsOwn'
  BY CapAssumption, FileAssumption DEF TypeInv, TypeOK, IInv, StampsOwn, Verify, Goto, files
<1>2. Tidy'
  BY FileAssumption DEF TypeInv, TypeOK, Proven, IInv, Tidy, Backed, Stamp, Verify, Goto
<1>3. ClaimOwned'
  BY CapAssumption, FileAssumption DEF TypeInv, TypeOK, IInv, ClaimOwned, StampsOwn, Critical, Verify, Goto, files
<1>4. Backed'
  BY CapAssumption, FileAssumption DEF TypeInv, TypeOK, IInv, Backed, LeaseBacked, StampsOwn, Tidy, Verify, Goto, files
<1>5. Releasing'
  BY CapAssumption, FileAssumption DEF TypeInv, TypeOK, IInv, Releasing, Verify, Goto, files
<1>6. Stale'
  BY CapAssumption, FileAssumption DEF TypeInv, TypeOK, IInv, Stale, Orphan, Tidy, StampsOwn, Verify, Goto, files
<1> QED
  BY <1>1, <1>2, <1>3, <1>4, <1>5, <1>6 DEF IInv

\* ReadOwnClaim keeps the invariant: one step per part.
LEMMA ReadOwnClaimSafe ==
  ASSUME TypeInv, TypeInv', IInv, NEW p \in Proc, ReadOwnClaim(p)
  PROVE  IInv'
<1>1. StampsOwn'
  <2>1. CASE Return(p)
    <3>1. CASE outcome[p] = "won"
      <4>1. mine[p] # NoFile /\ mine[p].pid = p
        BY <3>1, FileAssumption DEF TypeInv, Proven, IInv, StampsOwn, Stamp
      <4>2. /\ held' = [held EXCEPT ![p] = @ \cup {[index |-> at[p], stamp |-> mine[p]]}]
            /\ Forget(p)
        BY <2>1, <3>1 DEF Return, Leave
      <4> QED
        BY <4>1, <4>2 DEF TypeInv, TypeOK, IInv, StampsOwn, Forget
    <3>2. CASE outcome[p] # "won"
      BY <2>1, <3>2 DEF TypeInv, TypeOK, IInv, StampsOwn, Return, NextIndex, Leave, Forget
    <3> QED
      BY <3>1, <3>2
  <2>2. CASE Goto(p, "unlinkClaim") /\ UNCHANGED <<at, scratch, held>>
    BY <2>2 DEF IInv, StampsOwn, scratch
  <2> QED
    BY <2>1, <2>2 DEF ReadOwnClaim
<1>2. Tidy'
  BY CapAssumption, FileAssumption DEF TypeInv, TypeOK, IInv, Tidy, ReadOwnClaim, Return, NextIndex, Leave, Forget, Goto, files, scratch
<1>3. ClaimOwned'
  BY CapAssumption, FileAssumption DEF TypeInv, TypeOK, IInv, ClaimOwned, StampsOwn, Critical, ReadOwnClaim, Return, NextIndex, Leave, Forget, Goto, files, scratch
<1>4. Backed'
  BY CapAssumption, FileAssumption DEF TypeInv, TypeOK, IInv, Backed, LeaseBacked, StampsOwn, Tidy, ReadOwnClaim, Return, NextIndex, Leave, Forget, Goto, files, scratch
<1>5. Releasing'
  BY CapAssumption, FileAssumption DEF TypeInv, TypeOK, IInv, Releasing, ReadOwnClaim, Return, NextIndex, Leave, Forget, Goto, files, scratch
<1>6. Stale'
  BY CapAssumption, FileAssumption DEF TypeInv, TypeOK, IInv, Stale, Orphan, Tidy, StampsOwn, ReadOwnClaim, Return, NextIndex, Leave, Forget, Goto, files, scratch
<1> QED
  BY <1>1, <1>2, <1>3, <1>4, <1>5, <1>6 DEF IInv

\* UnlinkClaim keeps the invariant: one step per part.
LEMMA UnlinkClaimSafe ==
  ASSUME TypeInv, TypeInv', IInv, NEW p \in Proc, UnlinkClaim(p)
  PROVE  IInv'
<1>1. StampsOwn'
  <2>1. CASE Return(p)
    <3>1. CASE outcome[p] = "won"
      <4>1. mine[p] # NoFile /\ mine[p].pid = p
        BY <3>1, FileAssumption DEF TypeInv, Proven, IInv, StampsOwn, Stamp
      <4>2. /\ held' = [held EXCEPT ![p] = @ \cup {[index |-> at[p], stamp |-> mine[p]]}]
            /\ Forget(p)
        BY <2>1, <3>1 DEF Return, Leave
      <4> QED
        BY <4>1, <4>2 DEF TypeInv, TypeOK, IInv, StampsOwn, Forget
    <3>2. CASE outcome[p] # "won"
      BY <2>1, <3>2 DEF TypeInv, TypeOK, IInv, StampsOwn, Return, NextIndex, Leave, Forget
    <3> QED
      BY <3>1, <3>2
  <2> QED
    BY <2>1 DEF UnlinkClaim
<1>2. Tidy'
  BY CapAssumption, FileAssumption DEF TypeInv, TypeOK, IInv, Tidy, UnlinkClaim, Return, NextIndex, Leave, Forget, Goto
<1>3. ClaimOwned'
  BY CapAssumption, FileAssumption DEF TypeInv, TypeOK, IInv, ClaimOwned, StampsOwn, Critical, UnlinkClaim, Return, NextIndex, Leave, Forget, Goto
<1>4. Backed'
  BY CapAssumption, FileAssumption DEF TypeInv, TypeOK, IInv, Backed, LeaseBacked, StampsOwn, Tidy, UnlinkClaim, Return, NextIndex, Leave, Forget, Goto
<1>5. Releasing'
  BY CapAssumption, FileAssumption DEF TypeInv, TypeOK, IInv, Releasing, UnlinkClaim, Return, NextIndex, Leave, Forget, Goto
<1>6. Stale'
  BY CapAssumption, FileAssumption DEF TypeInv, TypeOK, IInv, Stale, Orphan, Tidy, StampsOwn, UnlinkClaim, Return, NextIndex, Leave, Forget, Goto
<1> QED
  BY <1>1, <1>2, <1>3, <1>4, <1>5, <1>6 DEF IInv

\* PublishError keeps the invariant: one step per part.
LEMMA PublishErrorSafe ==
  ASSUME TypeInv, TypeInv', IInv, NEW p \in Proc, PublishError(p)
  PROVE  IInv'
<1>1. StampsOwn'
  BY CapAssumption, FileAssumption DEF TypeInv, TypeOK, IInv, StampsOwn, PublishError, Leave, Forget, Goto, files
<1>2. Tidy'
  BY CapAssumption, FileAssumption DEF TypeInv, TypeOK, IInv, Tidy, PublishError, Leave, Forget, Goto, files
<1>3. ClaimOwned'
  BY CapAssumption, FileAssumption DEF TypeInv, TypeOK, IInv, ClaimOwned, StampsOwn, Critical, PublishError, Leave, Forget, Goto, files
<1>4. Backed'
  BY CapAssumption, FileAssumption DEF TypeInv, TypeOK, IInv, Backed, LeaseBacked, StampsOwn, Tidy, PublishError, Leave, Forget, Goto, files
<1>5. Releasing'
  BY CapAssumption, FileAssumption DEF TypeInv, TypeOK, IInv, Releasing, PublishError, Leave, Forget, Goto, files
<1>6. Stale'
  BY CapAssumption, FileAssumption DEF TypeInv, TypeOK, IInv, Stale, Orphan, Tidy, StampsOwn, PublishError, Leave, Forget, Goto, files
<1> QED
  BY <1>1, <1>2, <1>3, <1>4, <1>5, <1>6 DEF IInv

\* ReleaseLease keeps the invariant: one step per part.
LEMMA ReleaseLeaseSafe ==
  ASSUME TypeInv, TypeInv', IInv, NEW p \in Proc, ReleaseLease(p)
  PROVE  IInv'
<1>1. StampsOwn'
  BY CapAssumption, FileAssumption DEF TypeInv, TypeOK, IInv, StampsOwn, ReleaseLease, Goto, files, scratch
<1>2. Tidy'
  BY CapAssumption, FileAssumption DEF TypeInv, TypeOK, IInv, Tidy, ReleaseLease, Goto, files, scratch
<1>3. ClaimOwned'
  BY CapAssumption, FileAssumption DEF TypeInv, TypeOK, IInv, ClaimOwned, StampsOwn, Critical, ReleaseLease, Goto, files, scratch
<1>4. Backed'
  BY CapAssumption, FileAssumption DEF TypeInv, TypeOK, IInv, Backed, LeaseBacked, StampsOwn, Tidy, ReleaseLease, Goto, files, scratch
<1>5. Releasing'
  BY CapAssumption, FileAssumption DEF TypeInv, TypeOK, IInv, Releasing, ReleaseLease, Goto, files, scratch
<1>6. Stale'
  BY CapAssumption, FileAssumption DEF TypeInv, TypeOK, IInv, Stale, Orphan, Tidy, StampsOwn, ReleaseLease, Goto, files, scratch
<1> QED
  BY <1>1, <1>2, <1>3, <1>4, <1>5, <1>6 DEF IInv

\* UnlinkLease keeps the invariant: one step per part.
LEMMA UnlinkLeaseSafe ==
  ASSUME TypeInv, TypeInv', IInv, NEW p \in Proc, UnlinkLease(p)
  PROVE  IInv'
<1>1. StampsOwn'
  BY CapAssumption, FileAssumption DEF TypeInv, TypeOK, IInv, StampsOwn, UnlinkLease, Goto, scratch
<1>2. Tidy'
  BY CapAssumption, FileAssumption DEF TypeInv, TypeOK, IInv, Tidy, UnlinkLease, Goto, scratch
<1>3. ClaimOwned'
  BY CapAssumption, FileAssumption DEF TypeInv, TypeOK, IInv, ClaimOwned, StampsOwn, Critical, UnlinkLease, Goto, scratch
<1>4. Backed'
  <2>1. PICK m \in held[p] : m.index = at[p]
    BY DEF UnlinkLease, IInv, Releasing
  <2>2. /\ slot' = [slot EXCEPT ![at[p]] = NoFile]
        /\ held' = [held EXCEPT ![p] = {l \in @ : l.index # at[p]}]
        /\ UNCHANGED <<at, mine>>
    BY DEF UnlinkLease, scratch
  <2>3. \A q \in Proc : \A l \in held[q] : l.index \in Index /\ (l.index = at[p] => q = p)
    BY <2>1 DEF TypeInv, TypeOK, IInv, Backed, LeaseBacked, StampsOwn, Lease
  <2>4. \A q \in Proc : mine[q] # NoFile => at[q] # at[p]
    BY <2>1 DEF UnlinkLease, IInv, Backed, LeaseBacked, StampsOwn, Tidy
  <2> QED
    BY <2>2, <2>3, <2>4 DEF TypeInv, TypeOK, IInv, Backed, LeaseBacked
<1>5. Releasing'
  BY CapAssumption, FileAssumption DEF TypeInv, TypeOK, IInv, Releasing, UnlinkLease, Goto, scratch
<1>6. Stale'
  <2>1. PICK m \in held[p] : m.index = at[p] /\ slot[at[p]] = m.stamp
    BY DEF UnlinkLease, IInv, Releasing, Backed, LeaseBacked
  <2>2. \A q \in Proc : pc[q] = "unlink" => at[q] # at[p]
    BY <2>1 DEF IInv, Stale, Orphan
  <2> QED
    BY <2>2 DEF TypeInv, TypeOK, IInv, Stale, Orphan, UnlinkLease, Goto, scratch
<1> QED
  BY <1>1, <1>2, <1>3, <1>4, <1>5, <1>6 DEF IInv

\* Crash keeps the invariant: one step per part.
LEMMA CrashSafe ==
  ASSUME TypeInv, TypeInv', IInv, NEW p \in Proc, Crash(p)
  PROVE  IInv'
<1>1. StampsOwn'
  BY CapAssumption, FileAssumption DEF TypeInv, TypeOK, IInv, StampsOwn, Crash, Forget, Goto, files
<1>2. Tidy'
  BY CapAssumption, FileAssumption DEF TypeInv, TypeOK, IInv, Tidy, Crash, Forget, Goto, files
<1>3. ClaimOwned'
  BY CapAssumption, FileAssumption DEF TypeInv, TypeOK, IInv, ClaimOwned, StampsOwn, Critical, Crash, Forget, Goto, files
<1>4. Backed'
  BY CapAssumption, FileAssumption DEF TypeInv, TypeOK, IInv, Backed, LeaseBacked, StampsOwn, Tidy, Crash, Forget, Goto, files
<1>5. Releasing'
  BY CapAssumption, FileAssumption DEF TypeInv, TypeOK, IInv, Releasing, Crash, Forget, Goto, files
<1>6. Stale'
  BY CapAssumption, FileAssumption DEF TypeInv, TypeOK, IInv, Stale, Orphan, Tidy, StampsOwn, Crash, Forget, Goto, files
<1> QED
  BY <1>1, <1>2, <1>3, <1>4, <1>5, <1>6 DEF IInv

\* Restart keeps the invariant: one step per part.
LEMMA RestartSafe ==
  ASSUME TypeInv, TypeInv', IInv, NEW p \in Proc, Restart(p)
  PROVE  IInv'
<1>1. StampsOwn'
  BY CapAssumption, FileAssumption DEF TypeInv, TypeOK, IInv, StampsOwn, Restart, Goto, files, scratch, Alive
<1>2. Tidy'
  BY CapAssumption, FileAssumption DEF TypeInv, TypeOK, IInv, Tidy, Restart, Goto, files, scratch, Alive
<1>3. ClaimOwned'
  BY CapAssumption, FileAssumption DEF TypeInv, TypeOK, IInv, ClaimOwned, StampsOwn, Critical, Restart, Goto, files, scratch, Alive
<1>4. Backed'
  BY CapAssumption, FileAssumption DEF TypeInv, TypeOK, IInv, Backed, LeaseBacked, StampsOwn, Tidy, Restart, Goto, files, scratch, Alive
<1>5. Releasing'
  BY CapAssumption, FileAssumption DEF TypeInv, TypeOK, IInv, Releasing, Restart, Goto, files, scratch, Alive
<1>6. Stale'
  BY CapAssumption, FileAssumption DEF TypeInv, TypeOK, IInv, Stale, Orphan, Tidy, StampsOwn, Restart, Goto, files, scratch, Alive
<1> QED
  BY <1>1, <1>2, <1>3, <1>4, <1>5, <1>6 DEF IInv

\* The inductive invariant: leases are backed by their files, claims by theirs,
\* and a stamp under the knife is the lease of nobody.
THEOREM SafetyInvariant == Spec => []IInv
<1>1. Init => IInv
  BY FileAssumption DEF Init, IInv, StampsOwn, Tidy, ClaimOwned, Backed, LeaseBacked, Releasing, Stale,
     Critical
<1>2. TypeInv /\ TypeInv' /\ IInv /\ [Next]_vars => IInv'
  <2> SUFFICES ASSUME TypeInv, TypeInv', IInv, [Next]_vars PROVE IInv'
    OBVIOUS
  <2>1. CASE UNCHANGED vars
    BY <2>1 DEF IInv, StampsOwn, Tidy, ClaimOwned, Backed, LeaseBacked, Releasing, Stale, Orphan, vars
  <2>2. CASE Next
    BY <2>2, TryBucketSafe, ReadClaimSafe, ReadSlotSafe, ProbeSafe, PublishFreeSafe,
       PublishClaimSafe, RecheckSafe, UnlinkSafe, PublishSafe, VerifySafe, ReadOwnClaimSafe,
       UnlinkClaimSafe, PublishErrorSafe, ReleaseLeaseSafe, UnlinkLeaseSafe, CrashSafe,
       RestartSafe
       DEF Next, Step
  <2> QED
    BY <2>1, <2>2
<1> QED
  BY <1>1, <1>2, TypeInvariant, PTL DEF Spec

\* The inductive invariant in full, types included, at every step of every process:
\* the slot files, the claims and what every process has seen of them agree.
THEOREM InductiveHolds == Spec => []Inductive
<1>1. TypeOK /\ IInv => Inductive
  BY DEF Inductive
<1> QED
  BY <1>1, TypeCorrect, SafetyInvariant, PTL

\* No index is ever leased twice, by any number of processes that reclaim,
\* crash, and start again under an old pid.
THEOREM AtMostOneHolder == Spec => []OneHolder
<1>1. TypeInv /\ IInv => OneHolder
  <2> SUFFICES ASSUME TypeInv, IInv, NEW p \in Proc, NEW q \in Proc,
                      NEW l \in held[p], NEW m \in held[q], l.index = m.index
               PROVE  p = q /\ l = m
    BY DEF OneHolder
  <2>1. l.stamp = m.stamp
    BY DEF IInv, Backed, LeaseBacked
  <2>2. p = q
    BY <2>1 DEF IInv, StampsOwn
  <2>3. l \in Lease /\ m \in Lease
    BY DEF TypeInv, TypeOK
  <2>4. l = m
    BY <2>1, <2>3 DEF Lease
  <2> QED
    BY <2>2, <2>4
<1> QED
  BY <1>1, TypeInvariant, SafetyInvariant, PTL

\* A live process's lease file is never removed or replaced by a peer.
THEOREM LeasesAreBacked == Spec => []LeaseBacked
<1>1. IInv => LeaseBacked
  BY DEF IInv, Backed
<1> QED
  BY <1>1, SafetyInvariant, PTL

\* One reclaimer per index.
THEOREM ClaimsAreExclusive == Spec => []ClaimExclusive
<1>1. IInv => ClaimExclusive
  BY FileAssumption DEF IInv, ClaimOwned, StampsOwn, ClaimExclusive, Stamp
<1> QED
  BY <1>1, SafetyInvariant, PTL

\* The unlink of a reclaim only ever removes an abandoned stamp.
THEOREM ReclaimsAbandoned == Spec => []UnlinksOnlyAbandoned
<1>1. IInv => UnlinksOnlyAbandoned
  BY DEF IInv, Stale, Orphan, UnlinksOnlyAbandoned
<1> QED
  BY <1>1, SafetyInvariant, PTL

\* A reclaim that does not crash takes its claim file with it.
THEOREM ClaimsAreReturned == Spec => ClaimReturned
<1>1. TypeInv /\ IInv /\ [Next]_vars =>
        [\A p \in Proc : pc[p] \in Critical /\ pc'[p] \notin Critical \cup {"dead"}
                         => claim'[at[p]] = NoFile]_vars
  <2> SUFFICES ASSUME TypeInv, IInv, Next, NEW p \in Proc,
                      pc[p] \in Critical, pc'[p] \notin Critical \cup {"dead"}
               PROVE  claim'[at[p]] = NoFile
    BY DEF vars
  <2>1. claim[at[p]] = claimed[p]
    BY DEF IInv, ClaimOwned
  <2>2. PICK q \in Proc : Step(q) \/ TryBucket(q) \/ ReleaseLease(q)
                            \/ PublishError(q) \/ Crash(q) \/ Restart(q)
    BY DEF Next
  <2>3. q = p
    BY <2>2 DEF TypeInv, TypeOK, Step, TryBucket, ReleaseLease, PublishError, Crash, Restart,
       ReadClaim, ReadSlot, Probe, PublishFree, PublishClaim, Recheck, Unlink, Publish, Verify,
       ReadOwnClaim, UnlinkClaim, UnlinkLease, Return, NextIndex, Leave, Goto
  <2>4. UnlinkClaim(p)
    BY <2>1, <2>2, <2>3 DEF TypeInv, TypeOK, Critical, Step, TryBucket, ReleaseLease,
       PublishError, Crash, Restart, ReadClaim, ReadSlot, Probe, PublishFree, PublishClaim,
       Recheck, Unlink, Publish, Verify, ReadOwnClaim, UnlinkLease, Goto, Alive
  <2> QED
    BY <2>4 DEF UnlinkClaim, TypeInv, TypeOK
<1> QED
  BY <1>1, TypeInvariant, SafetyInvariant, PTL DEF Spec, ClaimReturned

\* A step that neither touches a slot file nor changes who counts on which
\* stamp is invisible in the table.
LEMMA TableStutter ==
  ASSUME UNCHANGED slot,
         \A i \in Index : slot[i] \in Stamp =>
           (LeasedBy(slot[i].pid, i)' <=> LeasedBy(slot[i].pid, i))
  PROVE  UNCHANGED <<Owner, Abandoned>>
BY DEF Owner, Abandoned

\* A process that returns from trySlot keeps the leases it had, and the one it
\* has just won.
LEMMA ReturnKeepsLeases ==
  ASSUME TypeInv, IInv, NEW p \in Proc, pc[p] \in {"readOwnClaim", "unlinkClaim"}, Return(p),
         UNCHANGED slot
  PROVE  UNCHANGED <<Owner, Abandoned>>
<1>1. CASE outcome[p] = "won"
  <2> DEFINE new == [index |-> at[p], stamp |-> mine[p]]
  <2>1. /\ held' = [held EXCEPT ![p] = @ \cup {new}]
        /\ mine' = [mine EXCEPT ![p] = NoFile] /\ UNCHANGED <<slot, at>>
    BY <1>1 DEF Return, Leave, Forget
  <2>2. held'[p] = held[p] \cup {new} /\ new.index = at[p] /\ new.stamp = mine[p]
    BY <2>1 DEF TypeInv, TypeOK
  <2>3. mine'[p] = NoFile
    BY <2>1 DEF TypeInv, TypeOK
  <2> HIDE DEF new
  <2>4. \A i \in Index : slot[i] \in Stamp => (LeasedBy(p, i)' <=> LeasedBy(p, i))
    BY <2>1, <2>2, <2>3, FileAssumption DEF LeasedBy, Stamp
  <2>5. \A q \in Proc \ {p} : \A i \in Index : LeasedBy(q, i)' <=> LeasedBy(q, i)
    BY <2>1 DEF LeasedBy, TypeInv, TypeOK
  <2> QED
    BY <2>1, <2>4, <2>5, TableStutter DEF Stamp
<1>2. CASE outcome[p] # "won"
  <2>1. mine[p] = NoFile /\ UNCHANGED held
    BY <1>2 DEF IInv, Tidy, Return
  <2> QED
    BY <1>2, <2>1, TableStutter, FileAssumption
       DEF Return, NextIndex, Leave, Forget, LeasedBy, TypeInv, TypeOK, Stamp
<1> QED
  BY <1>1, <1>2

\* A process that gives up on an index before it published anything keeps the
\* leases it had.
LEMMA GivingUpKeepsLeases ==
  ASSUME TypeInv, IInv, NEW p \in Proc, mine[p] = NoFile, NextIndex(p) \/ Leave(p),
         UNCHANGED <<slot, held>>
  PROVE  UNCHANGED <<Owner, Abandoned>>
BY TableStutter, FileAssumption DEF NextIndex, Leave, Forget, LeasedBy, TypeInv, TypeOK, Stamp

\* A stamp published into an empty slot is a lease of its publisher.
LEMMA PublishAcquires ==
  ASSUME TypeInv, IInv, NEW p \in Proc, slot[at[p]] = NoFile, NEW s \in FreshStamp(p),
         slot' = [slot EXCEPT ![at[p]] = s],
         UNCHANGED at,
         LeasedBy(p, at[p])',
         \A q \in Proc, i \in Index \ {at[p]} : slot[i] \in Stamp =>
           (LeasedBy(q, i)' <=> LeasedBy(q, i))
  PROVE  Table!Acquire(p, at[p])
<1>1. at[p] \in Index /\ s \in Stamp /\ s.pid = p /\ slot[at[p]] \notin Stamp
  BY FileAssumption DEF TypeInv, TypeOK, FreshStamp, Stamp
<1>2. Owner' = [Owner EXCEPT ![at[p]] = p] /\ Owner[at[p]] = NoFile
  BY <1>1 DEF Owner, TypeInv, TypeOK
<1>3. Abandoned' = Abandoned
  <2>1. at[p] \notin Abandoned /\ at[p] \notin Abandoned'
    BY <1>1 DEF Abandoned, TypeInv, TypeOK
  <2>2. \A i \in Index \ {at[p]} : slot'[i] = slot[i] /\ (slot[i] \in Stamp => slot[i].pid \in Proc)
    BY DEF TypeInv, TypeOK, Stamp
  <2>3. \A i \in Index \ {at[p]} : i \in Abandoned' <=> i \in Abandoned
    BY <2>2 DEF Abandoned
  <2> QED
    BY <2>1, <2>3 DEF Abandoned
<1> QED
  BY <1>2, <1>3 DEF Table!Acquire

\* The slot files implement the table: every step leases a free index, gives a
\* lease back, clears an abandoned index, lets a process die, or stutters.
THEOREM SlotFilesImplementTable == Spec => ImplementsTable
<1>1. Init => Table!Init
  BY FileAssumption DEF Init, Table!Init, Owner, Abandoned, LeasedBy, Stamp
<1>2. TypeInv /\ TypeInv' /\ IInv /\ IInv' /\ [Next]_vars => [Table!Next]_(Table!vars)
  <2> SUFFICES ASSUME TypeInv, TypeInv', IInv, IInv', [Next]_vars
               PROVE  Table!Next \/ UNCHANGED <<Owner, Abandoned>>
    BY DEF Table!vars
  <2>1. CASE UNCHANGED vars
    BY <2>1, TableStutter DEF vars, LeasedBy
  <2>2. ASSUME NEW p \in Proc, TryBucket(p) PROVE UNCHANGED <<Owner, Abandoned>>
    <3>1. mine[p] = NoFile
      BY <2>2 DEF TryBucket, IInv, Tidy
    <3> QED
      BY <2>2, <3>1, TableStutter, FileAssumption
         DEF TryBucket, files, scratch, LeasedBy, TypeInv, TypeOK, Stamp
  <2>3. ASSUME NEW p \in Proc, ReadClaim(p) PROVE UNCHANGED <<Owner, Abandoned>>
    BY <2>3, TableStutter, GivingUpKeepsLeases
       DEF ReadClaim, files, scratch, LeasedBy, IInv, Tidy
  <2>4. ASSUME NEW p \in Proc, ReadSlot(p) PROVE UNCHANGED <<Owner, Abandoned>>
    BY <2>4, TableStutter DEF ReadSlot, files, LeasedBy
  <2>5. ASSUME NEW p \in Proc, Probe(p) PROVE UNCHANGED <<Owner, Abandoned>>
    BY <2>5, TableStutter, GivingUpKeepsLeases
       DEF Probe, files, scratch, LeasedBy, IInv, Tidy
  <2>6. ASSUME NEW p \in Proc, PublishFree(p)
        PROVE  Table!Next \/ UNCHANGED <<Owner, Abandoned>>
    <3>1. mine[p] = NoFile
      BY <2>6 DEF PublishFree, IInv, Tidy
    <3>2. CASE slot[at[p]] = NoFile
      <4>1. PICK s \in FreshStamp(p) :
               /\ slot' = [slot EXCEPT ![at[p]] = s]
               /\ held' = [held EXCEPT ![p] = @ \cup {[index |-> at[p], stamp |-> s]}]
               /\ Leave(p)
        BY <2>6, <3>2 DEF PublishFree
      <4>2. LeasedBy(p, at[p])'
        <5>1. [index |-> at[p], stamp |-> s] \in held'[p] /\ slot'[at[p]] = s
          BY <4>1 DEF TypeInv, TypeOK
        <5>2. UNCHANGED at
          BY <4>1 DEF Leave
        <5> QED
          BY <5>1, <5>2 DEF LeasedBy
      <4>3. \A q \in Proc, i \in Index \ {at[p]} : slot[i] \in Stamp =>
              (LeasedBy(q, i)' <=> LeasedBy(q, i))
        BY <3>1, <4>1, FileAssumption DEF LeasedBy, Leave, Forget, TypeInv, TypeOK, Stamp
      <4>4. Table!Acquire(p, at[p])
        BY <3>2, <4>1, <4>2, <4>3, PublishAcquires DEF Leave
      <4> QED
        BY <4>4 DEF Table!Next, TypeInv, TypeOK
    <3>3. CASE slot[at[p]] # NoFile
      BY <2>6, <3>1, <3>3, GivingUpKeepsLeases DEF PublishFree
    <3> QED
      BY <3>2, <3>3
  <2>7. ASSUME NEW p \in Proc, PublishClaim(p) PROVE UNCHANGED <<Owner, Abandoned>>
    BY <2>7, TableStutter, GivingUpKeepsLeases DEF PublishClaim, LeasedBy, IInv, Tidy
  <2>8. ASSUME NEW p \in Proc, Recheck(p) PROVE UNCHANGED <<Owner, Abandoned>>
    BY <2>8, TableStutter DEF Recheck, files, scratch, LeasedBy
  <2>9. ASSUME NEW p \in Proc, Unlink(p) PROVE Table!Next
    <3>1. /\ slot[at[p]] \in Stamp /\ Orphan(slot[at[p]])
          /\ slot' = [slot EXCEPT ![at[p]] = NoFile] /\ UNCHANGED <<at, mine, held>>
      BY <2>9 DEF Unlink, scratch, IInv, Stale
    <3>2. at[p] \in Index /\ at[p] \in Abandoned
      BY <3>1 DEF Abandoned, LeasedBy, Orphan, TypeInv, TypeOK, Stamp
    <3>3. Owner' = [Owner EXCEPT ![at[p]] = NoFile]
      BY <3>1, <3>2, FileAssumption DEF Owner, TypeInv, TypeOK, Stamp
    <3>4. Abandoned' = Abandoned \ {at[p]}
      BY <3>1, <3>2, FileAssumption DEF Abandoned, LeasedBy, TypeInv, TypeOK, Stamp
    <3> QED
      BY <3>2, <3>3, <3>4 DEF Table!Next, Table!Reclaim
  <2>10. ASSUME NEW p \in Proc, Publish(p) PROVE Table!Next \/ UNCHANGED <<Owner, Abandoned>>
    <3>1. mine[p] = NoFile
      BY <2>10 DEF Publish, IInv, Tidy
    <3>2. CASE slot[at[p]] = NoFile
      <4>1. PICK s \in FreshStamp(p) : /\ slot' = [slot EXCEPT ![at[p]] = s]
                                       /\ mine' = [mine EXCEPT ![p] = s]
                                       /\ UNCHANGED <<at, held>>
        BY <2>10, <3>2 DEF Publish
      <4>2. LeasedBy(p, at[p])'
        BY <4>1 DEF LeasedBy, TypeInv, TypeOK
      <4>3. \A q \in Proc, i \in Index \ {at[p]} : slot[i] \in Stamp =>
              (LeasedBy(q, i)' <=> LeasedBy(q, i))
        BY <3>1, <4>1, FileAssumption DEF LeasedBy, TypeInv, TypeOK, Stamp
      <4>4. Table!Acquire(p, at[p])
        BY <3>2, <4>1, <4>2, <4>3, PublishAcquires DEF Leave
      <4> QED
        BY <4>4 DEF Table!Next, TypeInv, TypeOK
    <3>3. CASE slot[at[p]] # NoFile
      BY <2>10, <3>3, TableStutter DEF Publish, LeasedBy
    <3> QED
      BY <3>2, <3>3
  <2>11. ASSUME NEW p \in Proc, Verify(p) PROVE UNCHANGED <<Owner, Abandoned>>
    BY <2>11, TableStutter DEF Verify, files, LeasedBy
  <2>12. ASSUME NEW p \in Proc, ReadOwnClaim(p) PROVE UNCHANGED <<Owner, Abandoned>>
    BY <2>12, TableStutter, ReturnKeepsLeases DEF ReadOwnClaim, files, scratch, LeasedBy
  <2>13. ASSUME NEW p \in Proc, UnlinkClaim(p) PROVE UNCHANGED <<Owner, Abandoned>>
    BY <2>13, ReturnKeepsLeases DEF UnlinkClaim
  <2>14. ASSUME NEW p \in Proc, PublishError(p) PROVE UNCHANGED <<Owner, Abandoned>>
    BY <2>14, TableStutter, GivingUpKeepsLeases DEF PublishError, files, LeasedBy, IInv, Tidy
  <2>15. ASSUME NEW p \in Proc, ReleaseLease(p) PROVE UNCHANGED <<Owner, Abandoned>>
    <3>1. mine[p] = NoFile
      BY <2>15 DEF ReleaseLease, IInv, Tidy
    <3>2. UNCHANGED <<slot, held, mine>> /\ (\A q \in Proc \ {p} : at'[q] = at[q])
      BY <2>15 DEF ReleaseLease, files, scratch, IInv, Backed, LeaseBacked, TypeInv, TypeOK
    <3> QED
      BY <3>1, <3>2, TableStutter, FileAssumption DEF LeasedBy, TypeInv, TypeOK, Stamp
  <2>16. ASSUME NEW p \in Proc, UnlinkLease(p) PROVE Table!Next
    <3>1. PICK m \in held[p] : m.index = at[p] /\ slot[at[p]] = m.stamp /\ m.stamp.pid = p
      BY <2>16 DEF UnlinkLease, IInv, Releasing, Backed, LeaseBacked, StampsOwn
    <3>2. /\ slot' = [slot EXCEPT ![at[p]] = NoFile]
          /\ held' = [held EXCEPT ![p] = {l \in @ : l.index # at[p]}]
          /\ UNCHANGED <<at, mine>> /\ at[p] \in Index /\ m.stamp \in Stamp
      BY <2>16 DEF UnlinkLease, scratch, TypeInv, TypeOK, Lease
    <3>3. Owner[at[p]] = p /\ at[p] \notin Abandoned
      BY <3>1, <3>2 DEF Owner, Abandoned, LeasedBy
    <3>4. Owner' = [Owner EXCEPT ![at[p]] = NoFile]
      BY <3>2, FileAssumption DEF Owner, TypeInv, TypeOK, Stamp
    <3>5. Abandoned' = Abandoned
      BY <3>2, <3>3, FileAssumption DEF Abandoned, LeasedBy, TypeInv, TypeOK, Stamp
    <3> QED
      BY <3>2, <3>3, <3>4, <3>5 DEF Table!Next, Table!Release
  <2>17. ASSUME NEW p \in Proc, Crash(p) PROVE Table!Next
    <3>1. UNCHANGED slot /\ Owner' = Owner
      BY <2>17 DEF Crash, files, Owner
    <3>2. \A i \in Index : Owner[i] = p <=> slot[i] \in Stamp /\ slot[i].pid = p
      BY FileAssumption DEF Owner, TypeInv, TypeOK, File
    <3>3. \A i \in Index : slot[i] \in Stamp =>
            (LeasedBy(slot[i].pid, i)' <=> slot[i].pid # p /\ LeasedBy(slot[i].pid, i))
      BY <2>17, FileAssumption DEF Crash, Forget, files, LeasedBy, TypeInv, TypeOK, Stamp
    <3>4. Abandoned' = Abandoned \cup {i \in Index : Owner[i] = p}
      BY <3>1, <3>2, <3>3 DEF Abandoned
    <3> QED
      BY <3>1, <3>4 DEF Table!Next, Table!Crash
  <2>18. ASSUME NEW p \in Proc, Restart(p) PROVE UNCHANGED <<Owner, Abandoned>>
    BY <2>18, TableStutter DEF Restart, files, scratch, LeasedBy
  <2> QED
    BY <2>1, <2>2, <2>3, <2>4, <2>5, <2>6, <2>7, <2>8, <2>9, <2>10, <2>11, <2>12, <2>13,
       <2>14, <2>15, <2>16, <2>17, <2>18 DEF Next, Step
<1> QED
  BY <1>1, <1>2, TypeInvariant, SafetyInvariant, PTL DEF Spec, ImplementsTable, Table!Spec
=============================================================================
