-------------------------- MODULE MachineAcquire_proofs --------------------------
(***************************************************************************)
(* Proofs about acquire, for any number of calls, providers and slots.     *)
(***************************************************************************)
EXTENDS MachineAcquire, FiniteSetTheorems, SequenceTheorems, TLAPS

\* A sequence without its k-th element.
LEMMA RemovedAt ==
  ASSUME NEW S, NEW s \in Seq(S), NEW k \in 1 .. Len(s)
  PROVE  /\ RemoveAt(s, k) \in Seq(S)
         /\ Len(RemoveAt(s, k)) = Len(s) - 1
         /\ \A j \in 1 .. Len(s) - 1 : RemoveAt(s, k)[j] = IF j < k THEN s[j] ELSE s[j + 1]
<1> DEFINE u == SubSeq(s, 1, k - 1)
           v == SubSeq(s, k + 1, Len(s))
<1>1. u \in Seq(S) /\ Len(u) = k - 1 /\ \A i \in 1 .. k - 1 : u[i] = s[i]
  BY SubSeqProperties
<1>2. v \in Seq(S) /\ Len(v) = Len(s) - k /\ \A i \in 1 .. Len(s) - k : v[i] = s[k + i]
  BY SubSeqProperties
<1> HIDE DEF u, v
<1>3. /\ u \o v \in Seq(S) /\ Len(u \o v) = Len(s) - 1
      /\ \A j \in 1 .. Len(s) - 1 : (u \o v)[j] = IF j <= k - 1 THEN u[j] ELSE v[j - (k - 1)]
  <2>1. Len(u) + Len(v) = Len(s) - 1
    BY <1>1, <1>2
  <2>2. /\ u \o v \in Seq(S) /\ Len(u \o v) = Len(u) + Len(v)
        /\ \A j \in 1 .. Len(u) + Len(v) : (u \o v)[j] = IF j <= Len(u) THEN u[j] ELSE v[j - Len(u)]
    BY <1>1, <1>2, ConcatProperties
  <2> QED
    BY <1>1, <2>1, <2>2
<1>4. ASSUME NEW j \in 1 .. Len(s) - 1 PROVE (u \o v)[j] = IF j < k THEN s[j] ELSE s[j + 1]
  <2>1. CASE j < k
    BY <1>1, <1>3, <2>1
  <2>2. CASE ~(j < k)
    <3>1. j - (k - 1) \in 1 .. Len(s) - k /\ k + (j - (k - 1)) = j + 1
      BY <2>2
    <3>2. (u \o v)[j] = v[j - (k - 1)]
      BY <1>3, <2>2
    <3> QED
      BY <1>2, <2>2, <3>1, <3>2
  <2> QED
    BY <2>1, <2>2
<1>5. RemoveAt(s, k) = u \o v
  BY DEF RemoveAt, u, v
<1> QED
  BY <1>3, <1>4, <1>5

\* The admission queue has each call at most once.
TurnOK == turn \in Seq(Call) /\ \A i, j \in DOMAIN turn : turn[i] = turn[j] => i = j

\* Leaving the admission queue leaves the order of the others.
LEMMA DropTurnKeeps ==
  ASSUME TurnOK, NEW a \in Call, DropTurn(a)
  PROVE  /\ TurnOK'
         /\ turn # <<>> /\ Head(turn) # a => turn' # <<>> /\ Head(turn') = Head(turn)
<1>1. CASE UNCHANGED turn
  BY <1>1 DEF TurnOK
<1>2. ASSUME NEW k \in DOMAIN turn, turn[k] = a, turn' = RemoveAt(turn, k)
      PROVE  /\ TurnOK'
             /\ turn # <<>> /\ Head(turn) # a => turn' # <<>> /\ Head(turn') = Head(turn)
  <2>1. k \in 1 .. Len(turn)
    BY DEF TurnOK
  <2>2. /\ turn' \in Seq(Call) /\ Len(turn') = Len(turn) - 1
        /\ \A j \in 1 .. Len(turn) - 1 : turn'[j] = IF j < k THEN turn[j] ELSE turn[j + 1]
    BY <1>2, <2>1, RemovedAt DEF TurnOK
  <2>3. \A i, j \in DOMAIN turn' : turn'[i] = turn'[j] => i = j
    <3> SUFFICES ASSUME NEW i \in 1 .. Len(turn) - 1, NEW j \in 1 .. Len(turn) - 1, turn'[i] = turn'[j]
                 PROVE  i = j
      BY <2>2
    <3> DEFINE at(x) == IF x < k THEN x ELSE x + 1
    <3>1. turn'[i] = turn[at(i)] /\ turn'[j] = turn[at(j)]
      BY <2>2
    <3>2. at(i) \in DOMAIN turn /\ at(j) \in DOMAIN turn
      BY <2>1 DEF TurnOK
    <3>3. at(i) = at(j)
      BY <3>1, <3>2 DEF TurnOK
    <3> QED
      BY <2>1, <3>3
  <2>4. ASSUME turn # <<>>, Head(turn) # a PROVE turn' # <<>> /\ Head(turn') = Head(turn)
    <3>1. k > 1 /\ Len(turn) > 1
      BY <1>2, <2>1, <2>4 DEF TurnOK
    <3>2. 1 \in 1 .. Len(turn) - 1 /\ turn'[1] = turn[1]
      BY <2>1, <2>2, <3>1 DEF TurnOK
    <3> QED
      BY <2>2, <3>1, <3>2 DEF TurnOK
  <2> QED
    BY <2>2, <2>3, <2>4 DEF TurnOK
<1> QED
  BY <1>1, <1>2 DEF DropTurn

\* Joining the admission queue, or staying in it, leaves the first in front.
LEMMA TakeTurnKeeps ==
  ASSUME TurnOK, NEW a \in Call, TakeTurn(a)
  PROVE  /\ TurnOK'
         /\ turn # <<>> => turn' # <<>> /\ Head(turn') = Head(turn)
<1>1. CASE a \in Range(turn)
  BY <1>1 DEF TakeTurn, TurnOK
<1>2. CASE a \notin Range(turn)
  <2>1. turn' = Append(turn, a) /\ \A i \in DOMAIN turn : turn[i] # a
    BY <1>2 DEF TakeTurn, Range
  <2> QED
    BY <2>1 DEF TurnOK
<1> QED
  BY <1>1, <1>2

\* Every variable keeps its type.
THEOREM TypeCorrect == Spec => []TypeOK
<1>1. Init => TypeOK
  BY DEF Init, TypeOK, Labels
<1>2. TypeOK /\ [Next]_vars => TypeOK'
  <2> SUFFICES ASSUME TypeOK, [Next]_vars PROVE TypeOK'
    OBVIOUS
  <2> USE ProviderAssumption
  <2>0. TurnOK
    BY DEF TypeOK, TurnOK
  <2>1. ASSUME NEW a \in Call, Start(a) PROVE TypeOK'
    <3>1. PICK l \in Labels : Goto(a, l)
      BY <2>1 DEF Start, Labels
    <3>2. pc' \in [Call -> Labels]
      BY <3>1 DEF TypeOK, Goto
    <3> QED
      BY <2>1, <3>2 DEF TypeOK, Start, Queued, storage
  <2>2. ASSUME NEW a \in Call, Register(a) PROVE TypeOK'
    <3>1. TurnOK'
      BY <2>0, <2>2, TakeTurnKeeps DEF Register, TurnOK
    <3> QED
      BY <2>2, <3>1 DEF TypeOK, TurnOK, Register, Goto, storage, Labels, Queued, Bucket
  <2>3. ASSUME NEW a \in Call, RegisterError(a) PROVE TypeOK'
    BY <2>3 DEF TypeOK, RegisterError, Goto, storage, Labels, Queued, Bucket
  <2>4. ASSUME NEW a \in Call, Enter(a) PROVE TypeOK'
    BY <2>4 DEF TypeOK, Enter, Goto, storage, Labels, Queued, Bucket
  <2>5. ASSUME NEW a \in Call, Miss(a) PROVE TypeOK'
    <3>1. PICK l \in Labels : Goto(a, l)
      BY <2>5 DEF Miss, Fail, Labels
    <3>2. pc' \in [Call -> Labels]
      BY <3>1 DEF TypeOK, Goto
    <3>3. TurnOK'
      BY <2>0, <2>5, DropTurnKeeps DEF Miss, Fail, TurnOK
    <3>4. older' \in [Call -> SUBSET Call]
      BY <2>5 DEF TypeOK, Miss, Fail, Dequeue
    <3> QED
      BY <2>5, <3>2, <3>3, <3>4 DEF TypeOK, Miss, TurnOK, storage
  <2>6. ASSUME NEW a \in Call, ReadWaiters(a) PROVE TypeOK'
    <3>1. PICK l \in Labels : Goto(a, l)
      BY <2>6 DEF ReadWaiters, Labels
    <3>2. pc' \in [Call -> Labels]
      BY <3>1 DEF TypeOK, Goto
    <3>3. unjudged' \in [Call -> SUBSET Call] /\ blockedAt' \in [Call -> SUBSET Call]
      <4>1. CASE UNCHANGED <<unjudged, blockedAt>>
        BY <4>1 DEF TypeOK
      <4>2. CASE /\ unjudged' = [unjudged EXCEPT ![a] = older[a]]
                 /\ blockedAt' = [blockedAt EXCEPT ![a] = {x \in older[a] : ~ReallyEligible(x)}]
        BY <4>2 DEF TypeOK
      <4> QED
        BY <2>6, <4>1, <4>2 DEF ReadWaiters
    <3> QED
      BY <2>6, <3>2, <3>3 DEF TypeOK, ReadWaiters, storage
  <2>7. ASSUME NEW a \in Call, Judge(a) PROVE TypeOK'
    <3>1. PICK l \in Labels : Goto(a, l)
      BY <2>7 DEF Judge, Labels
    <3>2. pc' \in [Call -> Labels]
      BY <3>1 DEF TypeOK, Goto
    <3>3. unjudged' \in [Call -> SUBSET Call]
      BY <2>7, SMTT(25) DEF TypeOK, Judge
    <3> QED
      BY <2>7, <3>2, <3>3 DEF TypeOK, Judge, storage
  <2>8. ASSUME NEW a \in Call, GrabProvider(a) PROVE TypeOK'
    <3>1. PICK l \in Labels : Goto(a, l)
      BY <2>8 DEF GrabProvider, Labels
    <3>2. pc' \in [Call -> Labels]
      BY <3>1 DEF TypeOK, Goto
    <3>3. slots' \in [Bucket -> SUBSET Call]
      <4>1. slots' \in {slots, [slots EXCEPT ![ProviderOf(a)] = @ \cup {a}]}
        BY <2>8 DEF GrabProvider
      <4> QED
        BY <4>1 DEF TypeOK
    <3> QED
      BY <2>8, <3>2, <3>3 DEF TypeOK, GrabProvider
  <2>9. ASSUME NEW a \in Call, GrabGlobal(a) PROVE TypeOK'
    <3>1. PICK l \in Labels : Goto(a, l)
      BY <2>9 DEF GrabGlobal, Labels
    <3>2. pc' \in [Call -> Labels]
      BY <3>1 DEF TypeOK, Goto
    <3>3. slots' \in [Bucket -> SUBSET Call]
      <4>1. slots' \in {slots, [slots EXCEPT !["global"] = @ \cup {a}]}
        BY <2>9 DEF GrabGlobal
      <4> QED
        BY <4>1 DEF TypeOK
    <3>4. TurnOK'
      BY <2>0, <2>9, DropTurnKeeps DEF GrabGlobal, TurnOK
    <3>5. older' \in [Call -> SUBSET Call]
      BY <2>9 DEF TypeOK, GrabGlobal, Dequeue
    <3> QED
      BY <2>9, <3>2, <3>3, <3>4, <3>5 DEF TypeOK, GrabGlobal, TurnOK
  <2>10. ASSUME NEW a \in Call, UndoProvider(a) PROVE TypeOK'
    BY <2>10 DEF TypeOK, UndoProvider, Goto, Labels, Queued, Bucket
  <2>11. ASSUME NEW a \in Call, GrabError(a) PROVE TypeOK'
    <3>1. TurnOK'
      BY <2>0, <2>11, DropTurnKeeps DEF GrabError, TurnOK
    <3> QED
      BY <2>11, <3>1 DEF TypeOK, TurnOK, GrabError, Goto, storage, Labels, Queued, Bucket
  <2>12. ASSUME NEW a \in Call, Unwind(a) PROVE TypeOK'
    BY <2>12 DEF TypeOK, Unwind, Goto, Dequeue, Labels, Queued, Bucket
  <2>13. ASSUME NEW a \in Call, Exit(a) PROVE TypeOK'
    <3>1. PICK l \in Labels : Goto(a, l)
      BY <2>13 DEF Exit, Fail, Labels
    <3>2. pc' \in [Call -> Labels]
      BY <3>1 DEF TypeOK, Goto
    <3>3. TurnOK'
      BY <2>0, <2>13, DropTurnKeeps DEF Exit, Fail
    <3>4. older' \in [Call -> SUBSET Call]
      BY <2>13 DEF TypeOK, Exit, Fail, Dequeue
    <3> QED
      BY <2>13, <3>2, <3>3, <3>4 DEF TypeOK, Exit, TurnOK, storage
  <2>14. ASSUME NEW a \in Call, Wake(a) PROVE TypeOK'
    <3>1. PICK l \in Labels : Goto(a, l)
      BY <2>14 DEF Wake, Fail, Labels
    <3>2. pc' \in [Call -> Labels]
      BY <3>1 DEF TypeOK, Goto
    <3>3. TurnOK'
      BY <2>0, <2>14, DropTurnKeeps, TakeTurnKeeps DEF Wake, Fail
    <3>4. older' \in [Call -> SUBSET Call]
      BY <2>14, SMTT(25) DEF TypeOK, Wake, Fail, Dequeue
    <3> QED
      BY <2>14, <3>2, <3>3, <3>4 DEF TypeOK, Wake, TurnOK, storage
  <2>15. ASSUME NEW a \in Call, ReleaseProvider(a) PROVE TypeOK'
    BY <2>15 DEF TypeOK, ReleaseProvider, Goto, Labels, Queued, Bucket
  <2>16. ASSUME NEW a \in Call, ReleaseGlobal(a) PROVE TypeOK'
    BY <2>16 DEF TypeOK, ReleaseGlobal, Goto, Labels, Queued, Bucket
  <2>17. ASSUME NEW a \in Call, Crash(a) PROVE TypeOK'
    <3>1. PICK l \in Labels : Goto(a, l)
      BY <2>17 DEF Crash, Labels
    <3>2. pc' \in [Call -> Labels]
      BY <3>1 DEF TypeOK, Goto
    <3>3. TurnOK'
      BY <2>0, <2>17, DropTurnKeeps DEF Crash
    <3>4. parked' \in [Bucket -> Nat]
      <4>1. UNCHANGED parked \/ \E b \in Bucket : parked' = [parked EXCEPT ![b] = @ + 1]
        BY <2>17 DEF Crash
      <4> QED
        BY <4>1 DEF TypeOK
    <3>5. slots' \in [Bucket -> SUBSET Call]
      BY <2>17 DEF TypeOK, Crash
    <3> QED
      BY <2>17, <3>2, <3>3, <3>4, <3>5 DEF TypeOK, Crash, Dequeue, TurnOK
  <2>18. CASE UNCHANGED vars
    BY <2>18 DEF TypeOK, vars
  <2> QED
    BY <2>1, <2>2, <2>3, <2>4, <2>5, <2>6, <2>7, <2>8, <2>9, <2>10, <2>11, <2>12, <2>13, <2>14, <2>15, <2>16, <2>17, <2>18 DEF Next, Round, Release
<1> QED
  BY <1>1, <1>2, PTL DEF Spec

-----------------------------------------------------------------------------
(* The caps, the slots and the waiters queue.                              *)

\* At first no slot is held.
LEMMA InitSafe == Init => IInv
<1> SUFFICES ASSUME Init PROVE IInv
  OBVIOUS
<1>1. NoSlotLeaked /\ QueueOrdered
  BY DEF Init, NoSlotLeaked, QueueOrdered, Queued, Waiting
<1>2. BucketsWithinCap
  BY CapAssumption, FS_EmptySet DEF Init, BucketsWithinCap, Held, Bucket
<1> QED
  BY <1>1, <1>2 DEF IInv

\* A bucket with room has room for one holder more.
LEMMA OneMore ==
  ASSUME TypeOK, BucketsWithinCap, NEW b \in Bucket, HasRoom(b), NEW a \in Call
  PROVE  IsFiniteSet(slots[b] \cup {a}) /\ Cardinality(slots[b] \cup {a}) + parked[b] <= CapOf(b)
<1>1. IsFiniteSet(slots[b]) /\ Cardinality(slots[b]) \in Nat
  BY FS_CardinalityType DEF BucketsWithinCap
<1>2. parked[b] \in Nat /\ CapOf(b) \in Nat /\ Cardinality(slots[b]) + parked[b] < CapOf(b)
  BY CapAssumption DEF TypeOK, Bucket, HasRoom, Held
<1>3. /\ IsFiniteSet(slots[b] \cup {a})
      /\ Cardinality(slots[b] \cup {a}) \in {Cardinality(slots[b]), Cardinality(slots[b]) + 1}
  BY <1>1, FS_AddElement
<1> QED
  BY <1>1, <1>2, <1>3

\* Without one of its holders a bucket is still within its cap.
LEMMA OneLess ==
  ASSUME TypeOK, BucketsWithinCap, NEW b \in Bucket, NEW a \in Call
  PROVE  /\ IsFiniteSet(slots[b] \ {a})
         /\ Cardinality(slots[b] \ {a}) <= Cardinality(slots[b])
         /\ Cardinality(slots[b] \ {a}) + parked[b] <= CapOf(b)
<1>1. IsFiniteSet(slots[b]) /\ Cardinality(slots[b]) \in Nat
  BY FS_CardinalityType DEF BucketsWithinCap
<1>2. parked[b] \in Nat /\ CapOf(b) \in Nat
  BY CapAssumption DEF TypeOK, Bucket
<1>3. IsFiniteSet(slots[b] \ {a}) /\ Cardinality(slots[b] \ {a}) <= Cardinality(slots[b])
  <2>1. slots[b] \ {a} \in SUBSET slots[b]
    OBVIOUS
  <2> QED
    BY <1>1, <2>1, FS_Subset
<1>4. Cardinality(slots[b] \ {a}) \in Nat
  BY <1>3, FS_CardinalityType
<1> QED
  BY <1>1, <1>2, <1>3, <1>4 DEF BucketsWithinCap, Held

\* A call that stays in the queue, or out of it, leaves its order alone.
LEMMA QueueStays ==
  ASSUME TypeOK, QueueOrdered, NEW a \in Call, NEW l \in Labels, Goto(a, l),
         l \in Waiting <=> pc[a] \in Waiting, UNCHANGED older
  PROVE  QueueOrdered'
<1>1. Queued' = Queued
  BY DEF TypeOK, Queued, Goto
<1> QED
  BY <1>1 DEF QueueOrdered

\* A call that leaves the queue is nobody's predecessor any more.
LEMMA QueueLeft ==
  ASSUME TypeOK, QueueOrdered, NEW a \in Call, NEW l \in Labels \ Waiting, Goto(a, l), Dequeue(a)
  PROVE  QueueOrdered'
<1>1. Queued' = Queued \ {a}
  BY DEF TypeOK, Queued, Goto
<1>2. \A x \in Call : older'[x] = IF x = a THEN {} ELSE older[x] \ {a}
  BY DEF Dequeue
<1>3. ASSUME NEW x \in Call PROVE older'[x] \subseteq Queued'
  <2>1. older[x] \subseteq Queued
    BY DEF QueueOrdered
  <2> HIDE DEF Queued
  <2> QED
    BY <1>1, <1>2, <2>1
<1>4. ASSUME NEW x \in Queued', NEW y \in Queued' \ {x} PROVE y \in older'[x] <=> x \notin older'[y]
  <2>1. x \in Queued /\ x # a /\ x \in Call /\ y \in Queued \ {x} /\ y # a /\ y \in Call
    BY <1>1 DEF Queued
  <2>2. older'[x] = older[x] \ {a} /\ older'[y] = older[y] \ {a}
    BY <1>2, <2>1
  <2>3. y \in older[x] <=> x \notin older[y]
    BY <2>1 DEF QueueOrdered
  <2> QED
    BY <2>1, <2>2, <2>3
<1> QED
  BY <1>3, <1>4 DEF QueueOrdered, Queued

\* A call without slots may go on to any point but the worker's run.
LEMMA NoneHeld ==
  ASSUME TypeOK, NoSlotLeaked, NEW a \in Call, NEW l \in Labels \ {"grabGlobal", "undoProvider", "running"}, Goto(a, l),
         UNCHANGED slots,
         pc[a] \notin {"grabGlobal", "undoProvider", "unwinding", "running", "releasing"}
  PROVE  NoSlotLeaked'
BY ProviderAssumption DEF TypeOK, NoSlotLeaked, Goto, Bucket

\* A round ends in a sleep or a failure, and a sleep in the next round.
LEMMA RoundSafe ==
  ASSUME TypeOK, IInv, NEW a \in Call, pc[a] \in {"top", "exit", "sleeping"}, UNCHANGED <<slots, parked>>,
         \/ Goto(a, "failed") /\ Dequeue(a)
         \/ Goto(a, "sleeping") /\ UNCHANGED older
         \/ Goto(a, "top") /\ UNCHANGED older
  PROVE  IInv'
<1>1. NoSlotLeaked'
  BY NoneHeld DEF IInv, Labels
<1>2. QueueOrdered'
  BY QueueStays, QueueLeft DEF IInv, Labels, Waiting
<1>3. BucketsWithinCap'
  BY DEF IInv, BucketsWithinCap, Held
<1> QED
  BY <1>1, <1>2, <1>3 DEF IInv

\* A call that begins to register is not in the queue yet.
LEMMA StartSafe == ASSUME TypeOK, TypeOK', IInv, NEW a \in Call, Start(a) PROVE IInv'
<1>1. NoSlotLeaked'
  BY NoneHeld DEF IInv, Start, storage, Labels
<1>2. QueueOrdered'
  BY SMTT(25) DEF TypeOK, IInv, QueueOrdered, Queued, Waiting, Start, Goto, storage
<1>3. BucketsWithinCap'
  BY DEF IInv, BucketsWithinCap, Held, Start, storage
<1> QED
  BY <1>1, <1>2, <1>3 DEF IInv

\* A ticket puts its call behind those before it, and before the rest of the queue.
LEMMA RegisterSafe == ASSUME TypeOK, TypeOK', IInv, NEW a \in Call, Register(a) PROVE IInv'
<1>1. NoSlotLeaked'
  BY ProviderAssumption DEF TypeOK, IInv, NoSlotLeaked, Register, Goto, storage, Labels, Bucket
<1>2. QueueOrdered'
  BY DEF TypeOK, IInv, QueueOrdered, Queued, Waiting, Register, Goto, storage
<1>3. BucketsWithinCap'
  BY DEF IInv, BucketsWithinCap, Held, Register, storage
<1> QED
  BY <1>1, <1>2, <1>3 DEF IInv

\* A failed registration leaves nothing behind.
LEMMA RegisterErrorSafe == ASSUME TypeOK, TypeOK', IInv, NEW a \in Call, RegisterError(a) PROVE IInv'
<1>1. NoSlotLeaked'
  BY ProviderAssumption DEF TypeOK, IInv, NoSlotLeaked, RegisterError, Goto, storage, Labels, Bucket
<1>2. QueueOrdered'
  BY DEF TypeOK, IInv, QueueOrdered, Queued, Waiting, RegisterError, Goto, storage
<1>3. BucketsWithinCap'
  BY DEF IInv, BucketsWithinCap, Held, RegisterError, storage
<1> QED
  BY <1>1, <1>2, <1>3 DEF IInv

\* Entering the section takes no slot.
LEMMA EnterSafe == ASSUME TypeOK, TypeOK', IInv, NEW a \in Call, Enter(a) PROVE IInv'
<1>1. NoSlotLeaked'
  BY ProviderAssumption DEF TypeOK, IInv, NoSlotLeaked, Enter, Goto, storage, Labels, Bucket
<1>2. QueueOrdered'
  BY DEF TypeOK, IInv, QueueOrdered, Queued, Waiting, Enter, Goto, storage
<1>3. BucketsWithinCap'
  BY DEF IInv, BucketsWithinCap, Held, Enter, storage
<1> QED
  BY <1>1, <1>2, <1>3 DEF IInv

\* A round that is missed leaves slots alone; a call past its deadline leaves the queue.
LEMMA MissSafe == ASSUME TypeOK, TypeOK', IInv, NEW a \in Call, Miss(a) PROVE IInv'
  BY RoundSafe DEF Miss, Fail, storage

\* Reading the queue changes nothing in it.
LEMMA ReadWaitersSafe == ASSUME TypeOK, TypeOK', IInv, NEW a \in Call, ReadWaiters(a) PROVE IInv'
<1>1. NoSlotLeaked'
  BY NoneHeld DEF IInv, ReadWaiters, storage, Labels
<1>2. QueueOrdered'
  BY QueueStays DEF IInv, ReadWaiters, Labels, Waiting
<1>3. BucketsWithinCap'
  BY DEF IInv, BucketsWithinCap, Held, ReadWaiters, storage
<1> QED
  BY <1>1, <1>2, <1>3 DEF IInv

\* Judging changes nothing in the queue.
LEMMA JudgeSafe == ASSUME TypeOK, TypeOK', IInv, NEW a \in Call, Judge(a) PROVE IInv'
<1>1. PICK l \in {"exit", "judging", "grabProvider"} : Goto(a, l)
  BY DEF Judge
<1>2. NoSlotLeaked'
  BY <1>1, NoneHeld DEF IInv, Judge, storage, Labels
<1>3. QueueOrdered'
  BY <1>1, QueueStays DEF IInv, Judge, Labels, Waiting
<1>4. BucketsWithinCap'
  BY DEF IInv, BucketsWithinCap, Held, Judge, storage
<1> QED
  BY <1>2, <1>3, <1>4 DEF IInv

\* A slot is taken only in a bucket with room.
LEMMA GrabProviderSafe == ASSUME TypeOK, TypeOK', IInv, NEW a \in Call, GrabProvider(a) PROVE IInv'
<1>1. QueueOrdered'
  BY QueueStays DEF IInv, GrabProvider, Labels, Waiting
<1>2. CASE ~HasRoom(ProviderOf(a))
  <2>1. NoSlotLeaked'
    BY <1>2, NoneHeld DEF IInv, GrabProvider, Labels
  <2>2. BucketsWithinCap'
    BY <1>2 DEF IInv, BucketsWithinCap, Held, GrabProvider
  <2> QED
    BY <1>1, <2>1, <2>2 DEF IInv
<1>3. CASE HasRoom(ProviderOf(a))
  <2>1. /\ ProviderOf(a) \in Bucket /\ pc[a] = "grabProvider"
        /\ slots' = [slots EXCEPT ![ProviderOf(a)] = @ \cup {a}]
        /\ pc' = [pc EXCEPT ![a] = "grabGlobal"] /\ UNCHANGED parked
    BY <1>3, ProviderAssumption DEF GrabProvider, Goto, Bucket
  <2>2. NoSlotLeaked'
    BY <2>1 DEF TypeOK, IInv, NoSlotLeaked
  <2>3. BucketsWithinCap'
    BY <1>3, <2>1, OneMore DEF TypeOK, IInv, BucketsWithinCap, Held
  <2> QED
    BY <1>1, <2>2, <2>3 DEF IInv
<1> QED
  BY <1>2, <1>3

\* A call runs only with both slots, and leaves the queue with the second.
LEMMA GrabGlobalSafe == ASSUME TypeOK, TypeOK', IInv, NEW a \in Call, GrabGlobal(a) PROVE IInv'
<1>1. CASE ~HasRoom("global")
  <2>1. /\ pc[a] = "grabGlobal" /\ pc' = [pc EXCEPT ![a] = "undoProvider"]
        /\ UNCHANGED <<slots, parked, older>>
    BY <1>1 DEF GrabGlobal, Goto
  <2>2. NoSlotLeaked'
    BY <2>1 DEF TypeOK, IInv, NoSlotLeaked
  <2>3. QueueOrdered'
    BY <2>1, QueueStays DEF IInv, Labels, Waiting, Goto
  <2>4. BucketsWithinCap'
    BY <2>1 DEF IInv, BucketsWithinCap, Held
  <2> QED
    BY <2>2, <2>3, <2>4 DEF IInv
<1>2. CASE HasRoom("global")
  <2>1. /\ "global" \in Bucket /\ pc[a] = "grabGlobal"
        /\ slots' = [slots EXCEPT !["global"] = @ \cup {a}]
        /\ pc' = [pc EXCEPT ![a] = "running"] /\ Dequeue(a) /\ UNCHANGED parked
    BY <1>2 DEF GrabGlobal, Goto, Bucket
  <2>2. NoSlotLeaked'
    <3> SUFFICES ASSUME NEW x \in Call
                 PROVE  /\ \A b \in Bucket : x \in slots'[b] =>
                             \/ b = ProviderOf(x) /\ pc'[x] \in {"grabGlobal", "undoProvider", "unwinding", "running"}
                             \/ b = "global" /\ pc'[x] \in {"running", "releasing"}
                        /\ pc'[x] \in {"grabGlobal", "undoProvider", "running"} => x \in slots'[ProviderOf(x)]
                        /\ pc'[x] = "running" => x \in slots'["global"]
      BY DEF NoSlotLeaked
    <3>1. CASE x # a
      BY <2>1, <3>1 DEF TypeOK, IInv, NoSlotLeaked
    <3>2. CASE x = a
      BY <2>1, <3>2, ProviderAssumption DEF TypeOK, IInv, NoSlotLeaked
    <3> QED
      BY <3>1, <3>2
  <2>3. QueueOrdered'
    BY <2>1, QueueLeft DEF IInv, Labels, Waiting, Goto
  <2>4. BucketsWithinCap'
    BY <1>2, <2>1, OneMore DEF TypeOK, IInv, BucketsWithinCap, Held
  <2> QED
    BY <2>2, <2>3, <2>4 DEF IInv
<1> QED
  BY <1>1, <1>2

\* The rollback returns the only slot the call has.
LEMMA UndoProviderSafe == ASSUME TypeOK, TypeOK', IInv, NEW a \in Call, UndoProvider(a) PROVE IInv'
<1>1. NoSlotLeaked'
  BY ProviderAssumption DEF TypeOK, IInv, NoSlotLeaked, UndoProvider, Goto, Labels, Bucket
<1>2. QueueOrdered'
  BY DEF TypeOK, IInv, QueueOrdered, Queued, Waiting, UndoProvider, Goto
<1>3. BucketsWithinCap'
  BY OneMore, OneLess, ProviderAssumption DEF TypeOK, IInv, BucketsWithinCap, Held, Bucket, UndoProvider
<1> QED
  BY <1>1, <1>2, <1>3 DEF IInv

\* A failing grab leaves the section with what it holds.
LEMMA GrabErrorSafe == ASSUME TypeOK, TypeOK', IInv, NEW a \in Call, GrabError(a) PROVE IInv'
<1>1. NoSlotLeaked'
  BY ProviderAssumption DEF TypeOK, IInv, NoSlotLeaked, GrabError, Goto, storage, Labels, Bucket
<1>2. QueueOrdered'
  BY DEF TypeOK, IInv, QueueOrdered, Queued, Waiting, GrabError, Goto, storage
<1>3. BucketsWithinCap'
  BY DEF IInv, BucketsWithinCap, Held, GrabError, storage
<1> QED
  BY <1>1, <1>2, <1>3 DEF IInv

\* Then the slot goes, and the ticket.
LEMMA UnwindSafe == ASSUME TypeOK, TypeOK', IInv, NEW a \in Call, Unwind(a) PROVE IInv'
<1>1. NoSlotLeaked'
  BY ProviderAssumption DEF TypeOK, IInv, NoSlotLeaked, Unwind, Goto, Dequeue, Labels, Bucket
<1>2. QueueOrdered'
  BY DEF TypeOK, IInv, QueueOrdered, Queued, Waiting, Unwind, Goto, Dequeue
<1>3. BucketsWithinCap'
  BY OneMore, OneLess, ProviderAssumption DEF TypeOK, IInv, BucketsWithinCap, Held, Bucket, Unwind
<1> QED
  BY <1>1, <1>2, <1>3 DEF IInv

\* Whoever leaves the section without slots has none.
LEMMA ExitSafe == ASSUME TypeOK, TypeOK', IInv, NEW a \in Call, Exit(a) PROVE IInv'
  BY RoundSafe DEF Exit, Fail, storage

\* Sleepers hold no slot.
LEMMA WakeSafe == ASSUME TypeOK, TypeOK', IInv, NEW a \in Call, Wake(a) PROVE IInv'
  BY RoundSafe DEF Wake, Fail, storage

\* The provider's slot is returned first.
LEMMA ReleaseProviderSafe == ASSUME TypeOK, TypeOK', IInv, NEW a \in Call, ReleaseProvider(a) PROVE IInv'
<1>1. NoSlotLeaked'
  BY ProviderAssumption DEF TypeOK, IInv, NoSlotLeaked, ReleaseProvider, Goto, Labels, Bucket
<1>2. QueueOrdered'
  BY QueueStays DEF IInv, ReleaseProvider, Labels, Waiting
<1>3. BucketsWithinCap'
  BY OneMore, OneLess, ProviderAssumption DEF TypeOK, IInv, BucketsWithinCap, Held, Bucket, ReleaseProvider
<1> QED
  BY <1>1, <1>2, <1>3 DEF IInv

\* Then the global one.
LEMMA ReleaseGlobalSafe == ASSUME TypeOK, TypeOK', IInv, NEW a \in Call, ReleaseGlobal(a) PROVE IInv'
<1>1. NoSlotLeaked'
  BY ProviderAssumption DEF TypeOK, IInv, NoSlotLeaked, ReleaseGlobal, Goto, Labels, Bucket
<1>2. QueueOrdered'
  BY DEF TypeOK, IInv, QueueOrdered, Queued, Waiting, ReleaseGlobal, Goto
<1>3. BucketsWithinCap'
  BY OneMore, OneLess, ProviderAssumption DEF TypeOK, IInv, BucketsWithinCap, Held, Bucket, ReleaseGlobal
<1> QED
  BY <1>1, <1>2, <1>3 DEF IInv

\* The slots of the dead are free, but for an index that is lost instead.
LEMMA CrashSafe == ASSUME TypeOK, TypeOK', IInv, NEW a \in Call, Crash(a) PROVE IInv'
<1>1. NoSlotLeaked'
  BY ProviderAssumption DEF TypeOK, IInv, NoSlotLeaked, Crash, Goto, Dequeue, Labels, Bucket
<1>2. QueueOrdered'
  BY DEF TypeOK, IInv, QueueOrdered, Queued, Waiting, Crash, Goto, Dequeue
<1>3. BucketsWithinCap'
  <2> SUFFICES ASSUME NEW b \in Bucket
               PROVE  IsFiniteSet(slots'[b]) /\ Cardinality(slots'[b]) + parked'[b] <= CapOf(b)
    BY DEF BucketsWithinCap, Held
  <2>1. slots'[b] = slots[b] \ {a}
    BY DEF Crash
  <2>2. /\ IsFiniteSet(slots[b] \ {a}) /\ Cardinality(slots[b] \ {a}) <= Cardinality(slots[b])
        /\ Cardinality(slots[b] \ {a}) + parked[b] <= CapOf(b)
    BY OneLess DEF IInv
  <2>3. /\ Cardinality(slots[b] \ {a}) \in Nat /\ Cardinality(slots[b]) \in Nat
        /\ parked[b] \in Nat /\ CapOf(b) \in Nat
    BY <2>2, FS_CardinalityType, CapAssumption DEF TypeOK, Bucket, IInv, BucketsWithinCap
  <2>4. CASE parked'[b] = parked[b]
    BY <2>1, <2>2, <2>4
  <2>5. CASE parked'[b] # parked[b]
    <3>1. HasRoom(b) /\ parked'[b] = parked[b] + 1
      BY <2>5 DEF Crash, TypeOK
    <3> QED
      BY <2>1, <2>2, <2>3, <3>1 DEF HasRoom, Held
  <2> QED
    BY <2>4, <2>5
<1> QED
  BY <1>1, <1>2, <1>3 DEF IInv

\* Nothing changes.
LEMMA StutterSafe == IInv /\ UNCHANGED vars => IInv'
  BY DEF IInv, vars, NoSlotLeaked, QueueOrdered, BucketsWithinCap, Queued, Held

\* Every step preserves the invariant.
LEMMA StepSafe == TypeOK /\ TypeOK' /\ IInv /\ [Next]_vars => IInv'
  BY StartSafe, RegisterSafe, RegisterErrorSafe, EnterSafe, MissSafe, ReadWaitersSafe, JudgeSafe, GrabProviderSafe, GrabGlobalSafe, UndoProviderSafe, GrabErrorSafe, UnwindSafe, ExitSafe, WakeSafe, ReleaseProviderSafe, ReleaseGlobalSafe, CrashSafe, StutterSafe
  DEF Next, Round, Release

\* Slots, queue and progress agree, always.
THEOREM SafetyInvariant == Spec => []IInv
  BY InitSafe, StepSafe, TypeCorrect, PTL DEF Spec

\* The caps hold, no slot leaks, and the queue orders those who wait.
THEOREM SlotsAreAccounted == Spec => []SlotsAccounted
<1>1. TypeOK /\ IInv => WithinCaps
  <2> SUFFICES ASSUME TypeOK, IInv, NEW b \in Bucket
               PROVE  Cardinality({a \in Call : pc[a] = "running" /\ b \in {ProviderOf(a), "global"}})
                        + parked[b] <= CapOf(b)
    BY DEF WithinCaps
  <2> DEFINE R == {a \in Call : pc[a] = "running" /\ b \in {ProviderOf(a), "global"}}
  <2>1. R \in SUBSET slots[b] /\ IsFiniteSet(slots[b]) /\ Held(b) <= CapOf(b)
    BY DEF IInv, NoSlotLeaked, BucketsWithinCap
  <2>2. IsFiniteSet(R) /\ Cardinality(R) <= Cardinality(slots[b])
    BY <2>1, FS_Subset
  <2>3. Cardinality(R) \in Nat /\ Cardinality(slots[b]) \in Nat
    BY <2>1, <2>2, FS_CardinalityType
  <2>4. parked[b] \in Nat /\ CapOf(b) \in Nat
    BY CapAssumption DEF TypeOK, Bucket
  <2> QED
    BY <2>1, <2>2, <2>3, <2>4 DEF Held
<1>2. TypeOK /\ IInv => SlotsAccounted
  BY <1>1 DEF IInv, SlotsAccounted, HeldExactly
<1> QED
  BY <1>2, SafetyInvariant, TypeCorrect, PTL


-----------------------------------------------------------------------------
(* First in, first out.                                                    *)

\* The section is left with the admission ticket, and entered by the first.
LEMMA TurnKept ==
  ASSUME TypeOK, TurnIsFirst, NEW a \in Call, NEW l \in Labels, Goto(a, l),
         \/ UNCHANGED turn /\ (l \in Section => pc[a] \in Section)
         \/ (DropTurn(a) \/ TakeTurn(a)) /\ l \notin Section
  PROVE  TurnIsFirst'
<1> SUFFICES ASSUME NEW x \in Call, pc'[x] \in Section
             PROVE  turn' # <<>> /\ Head(turn') = x
  BY DEF TurnIsFirst
<1>1. TurnOK
  BY DEF TypeOK, TurnOK
<1>2. CASE x = a
  BY <1>2 DEF TypeOK, TurnIsFirst, Goto
<1>3. CASE x # a
  <2>1. turn # <<>> /\ Head(turn) = x
    BY <1>3 DEF TypeOK, TurnIsFirst, Goto
  <2> QED
    BY <1>1, <1>3, <2>1, DropTurnKeeps, TakeTurnKeeps
<1> QED
  BY <1>2, <1>3

\* The section has one call at a time.
LEMMA OneInSection ==
  ASSUME TurnIsFirst, NEW a \in Call, NEW b \in Call, pc[a] \in Section, pc[b] \in Section
  PROVE  a = b
  BY DEF TurnIsFirst

\* The one in the section is the first of the admission queue.
LEMMA TurnStep == ASSUME TypeOK, TurnIsFirst, [Next]_vars PROVE TurnIsFirst'
<1> USE DEF Labels, Section
<1>1. ASSUME NEW a \in Call, Start(a) \/ RegisterError(a) \/ ReleaseProvider(a) \/ ReleaseGlobal(a) \/ Unwind(a)
      PROVE  TurnIsFirst'
  BY <1>1, TurnKept DEF Start, RegisterError, ReleaseProvider, ReleaseGlobal, Unwind
<1>2. ASSUME NEW a \in Call, ReadWaiters(a) \/ Judge(a) \/ GrabProvider(a) \/ UndoProvider(a)
      PROVE  TurnIsFirst'
  BY <1>2, TurnKept DEF ReadWaiters, Judge, GrabProvider, UndoProvider
<1>3. ASSUME NEW a \in Call, Register(a) \/ Miss(a) \/ GrabGlobal(a) \/ GrabError(a) \/ Exit(a) \/ Wake(a) \/ Crash(a)
      PROVE  TurnIsFirst'
  BY <1>3, TurnKept DEF Register, Miss, GrabGlobal, GrabError, Exit, Wake, Crash, Fail
<1>4. ASSUME NEW a \in Call, Enter(a) PROVE TurnIsFirst'
  BY <1>4 DEF TypeOK, TurnIsFirst, Enter, Goto
<1>5. CASE UNCHANGED vars
  BY <1>5 DEF TurnIsFirst, vars
<1> QED
  BY <1>1, <1>2, <1>3, <1>4, <1>5 DEF Next, Round, Release

\* A waiter that could run could also do so once others have returned slots.
LEMMA SettledShrinks ==
  ASSUME TypeOK, IInv, UNCHANGED parked, NEW x \in Call, ReallyEligible(x),
         \A b \in Bucket : \A z \in slots'[b] : pc'[z] \in {"running", "releasing"} =>
           z \in slots[b] /\ pc[z] \in {"running", "releasing"}
  PROVE  ReallyEligible(x)'
<1>1. ASSUME NEW b \in Bucket, Settled(b) < CapOf(b) PROVE Settled(b)' < CapOf(b)
  <2> DEFINE R == {a \in slots[b] : pc[a] \in {"running", "releasing"}}
             T == {a \in slots'[b] : pc'[a] \in {"running", "releasing"}}
  <2>1. R \in SUBSET slots[b] /\ T \in SUBSET R /\ IsFiniteSet(slots[b])
    BY DEF IInv, BucketsWithinCap
  <2>2. IsFiniteSet(R) /\ IsFiniteSet(T) /\ Cardinality(T) <= Cardinality(R)
    BY <2>1, FS_Subset
  <2>3. Cardinality(R) \in Nat /\ Cardinality(T) \in Nat /\ parked[b] \in Nat /\ CapOf(b) \in Nat
    BY <2>2, FS_CardinalityType, CapAssumption DEF TypeOK, Bucket
  <2>4. Settled(b) = Cardinality(R) + parked[b] /\ Settled(b)' = Cardinality(T) + parked[b]
    BY DEF Settled
  <2> QED
    BY <1>1, <2>2, <2>3, <2>4
<1>2. ProviderOf(x) \in Bucket /\ "global" \in Bucket
  BY ProviderAssumption DEF Bucket
<1> QED
  BY <1>1, <1>2 DEF ReallyEligible

\* What somebody else does while a call judges: slots are only given back, and
\* nobody gets in before it.
LEMMA Bystander ==
  ASSUME TypeOK, IInv, TurnIsFirst, JudgedSoundly,
         NEW y \in Call, NEW l \in Labels, Goto(y, l), NEW a \in Call \ {y},
         pc[a] \in {"judging", "grabProvider", "grabGlobal"} => older'[a] \subseteq older[a],
         unjudged'[a] = unjudged[a], blockedAt'[a] = blockedAt[a],
         \A x \in Call \ {y} : before'[x] = before[x],
         l = "registering" => before'[y] = Queued,
         pc[y] \notin Section =>
           /\ UNCHANGED parked
           /\ \A b \in Bucket : slots'[b] \subseteq slots[b]
           /\ l # "running" /\ (l = "releasing" => pc[y] = "running")
  PROVE  Judged(a)'
<1>1. pc'[a] = pc[a] /\ pc[a] # "unwinding"
  BY DEF TypeOK, Goto, JudgedSoundly, Judged
<1>2. CASE pc[a] \notin {"judging", "grabProvider", "grabGlobal"}
  BY <1>1, <1>2 DEF Judged
<1>3. CASE pc[a] \in {"judging", "grabProvider", "grabGlobal"}
  <2>1. pc[y] \notin Section
    BY <1>3, OneInSection DEF Section
  <2>2. /\ \A x \in Call : pc[x] = "registering" => a \in before[x]
        /\ older[a] \subseteq unjudged[a] \cup blockedAt[a]
        /\ pc[a] = "judging" => \A x \in older[a] : ReallyEligible(x) \/ x \in blockedAt[a]
        /\ pc[a] # "judging" => unjudged[a] = {}
    BY <1>3 DEF JudgedSoundly, Judged
  <2>3. ASSUME NEW x \in Call, pc'[x] = "registering" PROVE a \in before'[x]
    BY <1>3, <2>2, <2>3 DEF TypeOK, Goto, Queued, Waiting
  <2>4. ASSUME NEW x \in older'[a], pc[a] = "judging", x \notin blockedAt[a] PROVE ReallyEligible(x)'
    <3>1. x \in Call /\ ReallyEligible(x)
      BY <1>3, <2>2, <2>4 DEF TypeOK
    <3>2. \A b \in Bucket : \A z \in slots'[b] : pc'[z] \in {"running", "releasing"} =>
            z \in slots[b] /\ pc[z] \in {"running", "releasing"}
      BY <2>1 DEF TypeOK, Goto
    <3> QED
      BY <2>1, <3>1, <3>2, SettledShrinks
  <2> QED
    BY <1>1, <1>3, <2>2, <2>3, <2>4 DEF Judged
<1> QED
  BY <1>2, <1>3

\* Where a call does not judge or grab there is nothing to show of it.
LEMMA NotJudging ==
  ASSUME TypeOK, NEW a \in Call, NEW l \in Labels \ {"judging", "grabProvider", "grabGlobal", "unwinding"}, Goto(a, l)
  PROVE  Judged(a)'
  BY DEF TypeOK, Goto, Judged

\* Steps that change neither queues nor slots, outside of judging.
LEMMA PlainStep ==
  ASSUME TypeOK, IInv, TurnIsFirst, ~faults, JudgedSoundly, NEW y \in Call, Start(y) \/ Enter(y)
  PROVE  JudgedSoundly'
<1>1. PICK l \in {"failed", "registering", "reading"} :
        /\ Goto(y, l) /\ UNCHANGED <<older, unjudged, blockedAt, storage>>
        /\ \A x \in Call \ {y} : before'[x] = before[x]
        /\ l = "registering" => before'[y] = Queued
  BY DEF Start, Enter, TypeOK
<1>2. ASSUME NEW a \in Call \ {y} PROVE Judged(a)'
  BY <1>1, Bystander DEF Labels, storage
<1> QED
  BY <1>1, <1>2, NotJudging DEF JudgedSoundly, Labels

\* A call that begins to register after another was admitted comes behind it.
LEMMA RegisterStep ==
  ASSUME TypeOK, IInv, TurnIsFirst, ~faults, JudgedSoundly, NEW y \in Call, Register(y)
  PROVE  JudgedSoundly'
<1>1. Goto(y, "top") /\ UNCHANGED <<unjudged, blockedAt, storage>>
  BY DEF Register
<1>2. \A x \in Call \ {y} : before'[x] = before[x]
  BY DEF Register, TypeOK
<1>3. ASSUME NEW a \in Call \ {y}, pc[a] \in {"judging", "grabProvider", "grabGlobal"}
      PROVE  older'[a] \subseteq older[a]
  <2>1. a \in before[y] \cap Queued
    BY <1>3 DEF JudgedSoundly, Judged, Register, Queued, Waiting
  <2> QED
    BY <2>1 DEF Register
<1>4. ASSUME NEW a \in Call \ {y} PROVE Judged(a)'
  BY <1>1, <1>2, <1>3, Bystander DEF Labels, storage
<1> QED
  BY <1>1, <1>4, NotJudging DEF JudgedSoundly, Labels

\* The end of a round, of a sleep or of a wait leaves the others where they are.
LEMMA WaitStep ==
  ASSUME TypeOK, IInv, TurnIsFirst, ~faults, JudgedSoundly, NEW y \in Call, Miss(y) \/ Exit(y) \/ Wake(y)
  PROVE  JudgedSoundly'
<1>1. PICK l \in {"failed", "sleeping", "top"} : Goto(y, l)
  BY DEF Miss, Exit, Wake, Fail
<1>2. ASSUME NEW a \in Call \ {y}
      PROVE  /\ older'[a] \subseteq older[a]
             /\ unjudged'[a] = unjudged[a] /\ blockedAt'[a] = blockedAt[a]
  BY DEF Miss, Exit, Wake, Fail, Dequeue, TypeOK
<1>3. UNCHANGED <<before, storage>>
  BY DEF Miss, Exit, Wake
<1>4. ASSUME NEW a \in Call \ {y} PROVE Judged(a)'
  BY <1>1, <1>2, <1>3, Bystander DEF Labels, storage
<1> QED
  BY <1>1, <1>4, NotJudging DEF JudgedSoundly, Labels

\* Slots that are returned, or freed by a death, help those who wait.
LEMMA ReturnStep ==
  ASSUME TypeOK, IInv, TurnIsFirst, ~faults, JudgedSoundly, NEW y \in Call, UndoProvider(y) \/ ReleaseProvider(y) \/ ReleaseGlobal(y) \/ Crash(y)
  PROVE  JudgedSoundly'
<1>1. PICK l \in {"exit", "releasing", "done", "dead"} : Goto(y, l) /\ (l = "releasing" => pc[y] = "running")
  BY DEF UndoProvider, ReleaseProvider, ReleaseGlobal, Crash
<1>2. ASSUME NEW a \in Call \ {y}
      PROVE  /\ older'[a] \subseteq older[a]
             /\ unjudged'[a] = unjudged[a] /\ blockedAt'[a] = blockedAt[a] /\ before'[a] = before[a]
  BY DEF UndoProvider, ReleaseProvider, ReleaseGlobal, Crash, Dequeue, TypeOK
<1>3. \A b \in Bucket : slots'[b] \subseteq slots[b]
  <2>1. CASE Crash(y)
    BY <2>1 DEF Crash
  <2>2. CASE ~Crash(y)
    <3>1. \E c : slots' = [slots EXCEPT ![c] = @ \ {y}]
      BY <2>2 DEF UndoProvider, ReleaseProvider, ReleaseGlobal
    <3> QED
      BY <3>1 DEF TypeOK
  <2> QED
    BY <2>1, <2>2
<1>4. pc[y] \notin Section => UNCHANGED parked
  BY DEF UndoProvider, ReleaseProvider, ReleaseGlobal, Crash, Section
<1>5. ASSUME NEW a \in Call \ {y} PROVE Judged(a)'
  BY <1>1, <1>2, <1>3, <1>4, Bystander DEF Labels
<1> QED
  BY <1>1, <1>5, NotJudging DEF JudgedSoundly, Labels

\* A call that grabs has judged all that were before it.
LEMMA GrabStep ==
  ASSUME TypeOK, IInv, TurnIsFirst, ~faults, JudgedSoundly, NEW y \in Call, GrabProvider(y) \/ GrabGlobal(y)
  PROVE  JudgedSoundly'
<1>1. pc[y] \in Section
  BY DEF GrabProvider, GrabGlobal, Section
<1>2. PICK l \in {"grabGlobal", "exit", "running", "undoProvider"} : Goto(y, l)
  BY DEF GrabProvider, GrabGlobal
<1>3. ASSUME NEW a \in Call PROVE older'[a] \subseteq older[a]
  BY DEF GrabProvider, GrabGlobal, Dequeue, TypeOK
<1>4. UNCHANGED <<before, unjudged, blockedAt>>
  BY DEF GrabProvider, GrabGlobal
<1>5. ASSUME NEW a \in Call \ {y} PROVE Judged(a)'
  BY <1>1, <1>2, <1>3, <1>4, Bystander DEF Labels
<1>6. Judged(y)'
  <2>1. CASE l = "grabGlobal"
    <3>1. pc[y] = "grabProvider"
      BY <1>2, <2>1 DEF GrabProvider, GrabGlobal, Goto, TypeOK
    <3>2. /\ \A x \in Call : pc[x] = "registering" => y \in before[x]
          /\ older[y] \subseteq unjudged[y] \cup blockedAt[y] /\ unjudged[y] = {}
      BY <3>1 DEF JudgedSoundly, Judged
    <3> QED
      BY <1>2, <1>3, <1>4, <2>1, <3>2 DEF Judged, Goto, TypeOK
  <2>2. CASE l # "grabGlobal"
    BY <1>2, <2>2, NotJudging DEF Labels
  <2> QED
    BY <2>1, <2>2
<1> QED
  BY <1>5, <1>6 DEF JudgedSoundly

\* An admission looks at all older waiters, while nobody is about to join them.
LEMMA ReadStep ==
  ASSUME TypeOK, IInv, TurnIsFirst, ~faults, JudgedSoundly, NEW y \in Call, ReadWaiters(y)
  PROVE  JudgedSoundly'
<1>1. pc[y] \in Section /\ UNCHANGED <<older, before, storage>>
  BY DEF ReadWaiters, Section
<1>2. PICK l \in {"exit", "judging"} : Goto(y, l)
  BY DEF ReadWaiters
<1>3. ASSUME NEW a \in Call \ {y} PROVE unjudged'[a] = unjudged[a] /\ blockedAt'[a] = blockedAt[a]
  BY DEF ReadWaiters, TypeOK
<1>4. ASSUME NEW a \in Call \ {y} PROVE Judged(a)'
  BY <1>1, <1>2, <1>3, Bystander DEF Labels
<1>5. Judged(y)'
  <2>1. CASE l = "judging"
    <3>1. /\ \A x \in Call : pc[x] # "registering"
          /\ unjudged'[y] = older[y]
          /\ blockedAt'[y] = {x \in older[y] : ~ReallyEligible(x)}
      BY <1>2, <2>1 DEF ReadWaiters, Goto, TypeOK
    <3>2. \A x \in older[y] : ReallyEligible(x) => ReallyEligible(x)'
      <4> SUFFICES ASSUME NEW x \in older[y], ReallyEligible(x) PROVE ReallyEligible(x)'
        OBVIOUS
      <4>1. \A b \in Bucket : \A z \in slots'[b] : pc'[z] \in {"running", "releasing"} =>
              z \in slots[b] /\ pc[z] \in {"running", "releasing"}
        BY <1>1, <1>2 DEF TypeOK, Goto, storage
      <4> QED
        BY <1>1, <4>1, SettledShrinks DEF TypeOK, storage
    <3> QED
      BY <1>1, <1>2, <2>1, <3>1, <3>2 DEF Judged, Goto, TypeOK
  <2>2. CASE l = "exit"
    BY <1>2, <2>2, NotJudging DEF Labels
  <2> QED
    BY <2>1, <2>2
<1> QED
  BY <1>4, <1>5 DEF JudgedSoundly

\* What counts against a waiter is what running workers hold: while a call is
\* in the section nobody else holds half of a pair, unless a publish failed.
LEMMA NothingHalfTaken ==
  ASSUME TypeOK, IInv, TurnIsFirst, JudgedSoundly, NEW y \in Call, pc[y] = "judging", NEW x \in Call
  PROVE  ReallyEligible(x) => Eligible(x)
<1>1. ASSUME NEW b \in Bucket PROVE Held(b) = Settled(b)
  <2>1. ASSUME NEW z \in slots[b] PROVE pc[z] \in {"running", "releasing"}
    <3>1. z \in Call /\ pc[z] \in {"grabGlobal", "undoProvider", "unwinding", "running", "releasing"}
      BY DEF TypeOK, IInv, NoSlotLeaked
    <3>2. pc[z] # "unwinding"
      BY <3>1 DEF JudgedSoundly, Judged
    <3>3. pc[z] \in Section => z = y
      BY <3>1, OneInSection DEF Section
    <3> QED
      BY <3>1, <3>2, <3>3 DEF Section
  <2>2. {a \in slots[b] : pc[a] \in {"running", "releasing"}} = slots[b]
    BY <2>1
  <2> QED
    BY <2>2 DEF Held, Settled
<1>2. ProviderOf(x) \in Bucket /\ "global" \in Bucket
  BY ProviderAssumption DEF Bucket
<1> QED
  BY <1>1, <1>2 DEF ReallyEligible, Eligible, HasRoom

\* An older waiter that is passed was blocked from the admission on.
LEMMA JudgeStep ==
  ASSUME TypeOK, IInv, TurnIsFirst, ~faults, JudgedSoundly, NEW y \in Call, Judge(y)
  PROVE  JudgedSoundly'
<1>1. pc[y] = "judging" /\ pc[y] \in Section /\ UNCHANGED <<older, before, storage, blockedAt>>
  BY DEF Judge, Section
<1>2. PICK l \in {"exit", "judging", "grabProvider"} : Goto(y, l)
  BY DEF Judge
<1>3. ASSUME NEW a \in Call \ {y} PROVE unjudged'[a] = unjudged[a]
  BY DEF Judge, TypeOK
<1>4. ASSUME NEW a \in Call \ {y} PROVE Judged(a)'
  BY <1>1, <1>2, <1>3, Bystander DEF Labels
<1>5. Judged(y)'
  <2>1. /\ \A x \in Call : pc[x] = "registering" => y \in before[x]
        /\ older[y] \subseteq unjudged[y] \cup blockedAt[y]
        /\ \A x \in older[y] : ReallyEligible(x) \/ x \in blockedAt[y]
    BY <1>1 DEF JudgedSoundly, Judged
  <2>2. pc' = [pc EXCEPT ![y] = l] /\ pc'[y] = l /\ \A x \in Call : pc'[x] = "registering" => pc[x] = "registering"
    BY <1>2 DEF Goto, TypeOK
  <2>3. CASE l = "judging"
    <3>1. PICK x \in unjudged[y] : unjudged' = [unjudged EXCEPT ![y] = @ \ {x}] /\ ~Eligible(x)
      BY <1>2, <2>2, <2>3 DEF Judge, Goto, TypeOK
    <3>2. x \in older[y] => x \in blockedAt[y]
      BY <1>1, <2>1, <3>1, NothingHalfTaken DEF TypeOK
    <3>3. older'[y] \subseteq unjudged'[y] \cup blockedAt'[y]
      BY <1>1, <2>1, <3>1, <3>2 DEF TypeOK
    <3>4. ASSUME NEW z \in older[y], ReallyEligible(z) PROVE ReallyEligible(z)'
      <4>1. \A b \in Bucket : \A w \in slots'[b] : pc'[w] \in {"running", "releasing"} =>
              w \in slots[b] /\ pc[w] \in {"running", "releasing"}
        BY <1>1, <2>2, <2>3 DEF TypeOK, storage
      <4> QED
        BY <1>1, <3>4, <4>1, SettledShrinks DEF TypeOK, storage
    <3> QED
      BY <1>1, <2>1, <2>2, <2>3, <3>3, <3>4 DEF Judged
  <2>4. CASE l = "grabProvider"
    <3>1. unjudged[y] = {} /\ unjudged' = unjudged
      BY <1>2, <2>2, <2>4 DEF Judge, Goto, TypeOK
    <3> QED
      BY <1>1, <2>1, <2>2, <2>4, <3>1 DEF Judged
  <2>5. CASE l = "exit"
    BY <1>2, <2>5, NotJudging DEF Labels
  <2> QED
    BY <2>3, <2>4, <2>5
<1> QED
  BY <1>4, <1>5 DEF JudgedSoundly

\* The storage is sound or it is not.
LEMMA FaultsStay == [Next]_vars => faults' = faults
  BY DEF Next, Round, Release, Enter, RegisterError, GrabError, Crash, Start, Register, Miss,
         ReadWaiters, Judge, GrabProvider, GrabGlobal, Unwind, UndoProvider, Exit, Wake,
         ReleaseProvider, ReleaseGlobal, storage, vars

\* Every step preserves the order.
LEMMA OrderStep == TypeOK /\ IInv /\ OrderInv /\ [Next]_vars => OrderInv'
<1> SUFFICES ASSUME TypeOK, IInv, OrderInv, [Next]_vars PROVE OrderInv'
  OBVIOUS
<1>1. TurnIsFirst'
  BY TurnStep DEF OrderInv
<1>2. CASE faults
  BY <1>1, <1>2, FaultsStay DEF OrderInv
<1>3. CASE ~faults
  <2>1. TurnIsFirst /\ JudgedSoundly
    BY <1>3 DEF OrderInv
  <2>2. ASSUME NEW a \in Call, RegisterError(a) \/ GrabError(a) \/ Unwind(a) PROVE FALSE
    BY <1>3, <2>1, <2>2 DEF RegisterError, GrabError, Unwind, JudgedSoundly, Judged
  <2>3. ASSUME UNCHANGED vars PROVE JudgedSoundly'
    BY <2>1, <2>3 DEF vars, JudgedSoundly, Judged, ReallyEligible, Settled
  <2>4. ASSUME Next PROVE JudgedSoundly'
    <3>1. PICK y \in Call : Enter(y) \/ Round(y) \/ Release(y) \/ Crash(y)
      BY <2>2, <2>4 DEF Next
    <3> QED
      BY <1>3, <2>1, <2>2, <3>1, PlainStep, RegisterStep, WaitStep, ReturnStep, GrabStep, ReadStep, JudgeStep
         DEF Round, Release
  <2>5. JudgedSoundly'
    BY <2>3, <2>4
  <2> QED
    BY <1>1, <2>5 DEF OrderInv
<1> QED
  BY <1>2, <1>3

\* At first nobody is in the section.
LEMMA OrderInit == Init => OrderInv
  BY DEF Init, OrderInv, TurnIsFirst, Section, JudgedSoundly, Judged

\* The section is exclusive, and judgements stand until the slots are taken.
THEOREM OrderInvariant == Spec => []OrderInv
  BY OrderInit, OrderStep, TypeCorrect, SafetyInvariant, PTL DEF Spec

\* FIFO among eligible requests: as long as every publish succeeds, a call that
\* takes its slots passes only older requests that could not run when it was
\* admitted.
THEOREM NobodyEligibleIsPassed == Spec => FirstInFirstOut
<1>1. TypeOK /\ OrderInv /\ [Next]_vars => [~faults => PassesOnlyBlocked]_vars
  <2> SUFFICES ASSUME TypeOK, OrderInv, Next, ~faults, NEW a \in Call, pc[a] # "running", pc'[a] = "running"
               PROVE  {x \in older[a] : pc[x] # "unwinding"} \subseteq blockedAt[a]
    BY DEF PassesOnlyBlocked
  <2>1. PICK y \in Call : \/ Enter(y) \/ Round(y) \/ Release(y)
                          \/ RegisterError(y) \/ GrabError(y) \/ Crash(y)
    BY DEF Next
  <2>2. GrabGlobal(a)
    BY <2>1 DEF Enter, Round, Release, RegisterError, GrabError, Crash, Start, Register, Miss, Fail,
                ReadWaiters, Judge, GrabProvider, GrabGlobal, Unwind, UndoProvider, Exit, Wake,
                ReleaseProvider, ReleaseGlobal, Goto, TypeOK
  <2>3. Judged(a) /\ pc[a] = "grabGlobal"
    BY <2>2 DEF OrderInv, JudgedSoundly, GrabGlobal
  <2> QED
    BY <2>3 DEF Judged
<1> QED
  BY <1>1, TypeCorrect, OrderInvariant, PTL DEF Spec, FirstInFirstOut
=============================================================================
