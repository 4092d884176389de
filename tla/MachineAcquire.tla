--------------------------- MODULE MachineAcquire ---------------------------
(***************************************************************************)
(* The acquire loop of the machine-wide launch slots                       *)
(* (src/src/subagents/machine-slots.ts: isOldestEligible, acquire, and the *)
(* release it returns), on top of the slot files and the ticket queue.     *)
(*                                                                         *)
(* A call takes a slot of its provider's bucket and one of the global      *)
(* bucket.  It registers in the waiters queue once; in every round of its  *)
(* loop it tries to enter the admission section, judges there whether any  *)
(* older waiter could run, and if none can, takes both slots or neither.   *)
(* Calls are in different processes: each step is a run of synchronous     *)
(* code, and the calls of one process interleave less than that.           *)
(*                                                                         *)
(* From SlotFiles this module takes that an index has one live holder, and *)
(* that the slots of the dead may be taken again, unless a crash in a      *)
(* reclaim parked the index.  From TicketQueue it takes that tickets are   *)
(* ordered, that a registration comes after those finished before it       *)
(* started, and that a call enters only while its ticket is the first; a   *)
(* doorway in use may turn away even the first, for a while.               *)
(***************************************************************************)
EXTENDS Naturals, FiniteSets, SequencesExt

CONSTANTS Call,            \* acquire calls
          Provider,        \* provider buckets
          ProviderOf(_),   \* the provider a call asks for
          CapOf(_),        \* bucket -> number of slots
          MaxParked        \* bound: crashes that park an index

ASSUME ProviderAssumption == \A a \in Call : ProviderOf(a) \in Provider
ASSUME CapAssumption == \A b \in Provider \cup {"global"} : CapOf(b) \in Nat \ {0}

Bucket == Provider \cup {"global"}

VARIABLES
  pc,        \* call -> where it is
  older,     \* call -> the waiters with smaller tickets
  before,    \* call -> the waiters queued when it began to register
  unjudged,  \* call -> older waiters isOldestEligible has still to look at
  turn,      \* admission tickets of live calls, in their order
  slots,     \* bucket -> live calls that hold one of its slots
  parked,    \* bucket -> indices lost to an abandoned claim
  faults,    \* whether the storage may refuse to publish a stamp
  blockedAt  \* history: call -> waiters that could not run when it was admitted

vars == <<pc, older, before, unjudged, turn, slots, parked, faults, blockedAt>>

Labels == {"new", "registering", "top", "reading", "judging", "grabProvider",
           "grabGlobal", "undoProvider", "exit", "unwinding", "sleeping", "running",
           "releasing", "failed", "done", "dead"}

\* Calls whose waiter ticket is in the queue, and whose process lives.
Waiting == {"top", "reading", "judging", "grabProvider", "grabGlobal", "undoProvider",
            "exit", "unwinding", "sleeping"}
Queued == {a \in Call : pc[a] \in Waiting}

Held(b) == Cardinality(slots[b]) + parked[b]
\* Seeded bug: a bucket takes one slot too many.
BugOneTooMany(b) == Held(b) <= CapOf(b)

HasRoom(b) == Held(b) < CapOf(b)

\* Seeded bug: a bucket with a single free slot counts as full.
BugSpareSlot(a) == /\ Held(ProviderOf(a)) + 1 < CapOf(ProviderOf(a))
                   /\ Held("global") + 1 < CapOf("global")

\* What inspectBucket tells about the request of a waiter.
Eligible(a) == HasRoom(ProviderOf(a)) /\ HasRoom("global")

\* Counting only the slots of calls that got both: what a waiter's chances
\* really are while another call has taken one slot and not yet the other.
Settled(b) == Cardinality({a \in slots[b] : pc[a] \in {"running", "releasing"}}) + parked[b]
ReallyEligible(a) == Settled(ProviderOf(a)) < CapOf(ProviderOf(a)) /\ Settled("global") < CapOf("global")

Init == /\ pc = [a \in Call |-> "new"]
        /\ older = [a \in Call |-> {}]
        /\ before = [a \in Call |-> {}]
        /\ unjudged = [a \in Call |-> {}]
        /\ turn = <<>>
        /\ slots = [b \in Bucket |-> {}]
        /\ parked = [b \in Bucket |-> 0]
        /\ faults \in BOOLEAN
        /\ blockedAt = [a \in Call |-> {}]

Goto(a, label) == pc' = [pc EXCEPT ![a] = label]
storage == <<slots, parked, faults>>

\* The admission ticket is taken at the top of a round and kept until the call
\* has been in the section, or gives up.
TakeTurn(a) == turn' = IF a \in Range(turn) THEN turn ELSE Append(turn, a)
DropTurn(a) == \/ \E k \in DOMAIN turn : turn[k] = a /\ turn' = RemoveAt(turn, k)
               \/ a \notin Range(turn) /\ UNCHANGED turn

\* The waiter ticket is removed: release, or death, which makes it inert.
Dequeue(a) == older' = [x \in Call |-> IF x = a THEN {} ELSE older[x] \ {a}]

-----------------------------------------------------------------------------
(* Registration in the waiters queue.                                      *)

\* The loop condition: a call whose signal is aborted does not even register.
Start(a) == /\ pc[a] = "new"
            /\ \/ Goto(a, "failed") /\ UNCHANGED before
               \/ /\ Goto(a, "registering")
                  /\ before' = [before EXCEPT ![a] = Queued]
            /\ UNCHANGED <<older, unjudged, turn, storage, blockedAt>>

\* publishTicket returns: behind all of before[a], anywhere among the rest.
Register(a) ==
  /\ pc[a] = "registering"
  /\ \E S \in SUBSET Queued :
       /\ before[a] \cap Queued \subseteq S
       /\ \A x \in S : older[x] \subseteq S
       /\ older' = [x \in Call |-> CASE x = a -> S
                                     [] x \in Queued \ S -> older[x] \cup {a}
                                     [] OTHER -> older[x]]
  /\ before' = [before EXCEPT ![a] = {}]
  /\ TakeTurn(a)
  /\ Goto(a, "top")
  /\ UNCHANGED <<unjudged, storage, blockedAt>>

\* publishTicket throws: the directory is not writable, or the range is used up.
RegisterError(a) == /\ faults
                    /\ pc[a] = "registering"
                    /\ Goto(a, "failed")
                    /\ before' = [before EXCEPT ![a] = {}]
                    /\ UNCHANGED <<older, unjudged, turn, storage, blockedAt>>

-----------------------------------------------------------------------------
(* One round of the loop.                                                  *)

\* First in the admission queue, with no doorway in use.
Enter(a) == /\ pc[a] = "top"
            /\ turn # <<>> /\ Head(turn) = a
            /\ Goto(a, "reading")
            /\ UNCHANGED <<older, before, unjudged, turn, storage, blockedAt>>

\* Seeded bug: a call that fails leaves its waiter ticket behind.
BugTicketLeft(a) == DropTurn(a) /\ Goto(a, "failed") /\ UNCHANGED older

\* The error of acquire: no ticket stays behind.
Fail(a) == Dequeue(a) /\ DropTurn(a) /\ Goto(a, "failed")

\* Not first, or turned away by a doorway: the end of the round.
Miss(a) == /\ pc[a] = "top"
           /\ \/ Fail(a)   \* the deadline has passed
              \/ Goto(a, "sleeping") /\ UNCHANGED <<older, turn>>
           /\ UNCHANGED <<before, unjudged, storage, blockedAt>>

\* isOldestEligible: the tickets of the waiters queue are read first; a doorway
\* open in that queue ends the attempt.
ReadWaiters(a) ==
  /\ pc[a] = "reading"
  /\ \/ /\ \E x \in Call : pc[x] = "registering"
        /\ Goto(a, "exit")
        /\ UNCHANGED <<unjudged, blockedAt>>
     \/ /\ \A x \in Call : pc[x] # "registering"
        /\ unjudged' = [unjudged EXCEPT ![a] = older[a]]
        /\ blockedAt' = [blockedAt EXCEPT ![a] = {x \in older[a] : ~ReallyEligible(x)}]
        /\ Goto(a, "judging")
  /\ UNCHANGED <<older, before, turn, storage>>

\* Then the older ones are judged, oldest first, until one could run.
Judge(a) ==
  /\ pc[a] = "judging"
  /\ \/ \E x \in unjudged[a] :
          /\ older[x] \cap unjudged[a] = {}
          /\ unjudged' = [unjudged EXCEPT ![a] = @ \ {x}]
          /\ Goto(a, IF Eligible(x) THEN "exit" ELSE "judging")
     \/ unjudged[a] = {} /\ UNCHANGED unjudged /\ Goto(a, "grabProvider")
  /\ UNCHANGED <<older, before, turn, storage, blockedAt>>

\* tryBucket on the provider's bucket.
GrabProvider(a) ==
  LET b == ProviderOf(a) IN
  /\ pc[a] = "grabProvider"
  /\ \/ HasRoom(b) /\ slots' = [slots EXCEPT ![b] = @ \cup {a}] /\ Goto(a, "grabGlobal")
     \/ ~HasRoom(b) /\ UNCHANGED slots /\ Goto(a, "exit")
  /\ UNCHANGED <<older, before, unjudged, turn, parked, faults, blockedAt>>

\* tryBucket on the global bucket.  With both slots the call leaves admission
\* and the queue at once (finally) and returns.
GrabGlobal(a) ==
  /\ pc[a] = "grabGlobal"
  /\ \/ /\ HasRoom("global")
        /\ slots' = [slots EXCEPT !["global"] = @ \cup {a}]
        /\ Dequeue(a) /\ DropTurn(a)
        /\ Goto(a, "running")
     \/ ~HasRoom("global") /\ UNCHANGED <<slots, older, turn>> /\ Goto(a, "undoProvider")
  /\ UNCHANGED <<before, unjudged, parked, faults, blockedAt>>

\* Seeded bug: no rollback when the global bucket is full.
BugNoRollback(a) == /\ pc[a] = "undoProvider"
                    /\ Goto(a, "exit")
                    /\ UNCHANGED <<older, before, unjudged, turn, storage, blockedAt>>

\* A partial grab is rolled back inside the section.
UndoProvider(a) == /\ pc[a] = "undoProvider"
                   /\ slots' = [slots EXCEPT ![ProviderOf(a)] = @ \ {a}]
                   /\ Goto(a, "exit")
                   /\ UNCHANGED <<older, before, unjudged, turn, parked, faults, blockedAt>>

\* tryBucket throws.  The inner finally leaves the admission queue first; the
\* outer one gives the provider's slot back and leaves the waiters queue.
GrabError(a) == /\ faults
                /\ pc[a] \in {"grabProvider", "grabGlobal"}
                /\ DropTurn(a)
                /\ Goto(a, "unwinding")
                /\ UNCHANGED <<older, before, unjudged, storage, blockedAt>>

Unwind(a) == /\ pc[a] = "unwinding"
             /\ slots' = [slots EXCEPT ![ProviderOf(a)] = @ \ {a}]
             /\ Dequeue(a)
             /\ Goto(a, "failed")
             /\ blockedAt' = [blockedAt EXCEPT ![a] = {}]
             /\ UNCHANGED <<before, unjudged, turn, parked, faults>>

\* The section ends without slots: admission.release(), the end of the round.
Exit(a) == /\ pc[a] = "exit"
           /\ \/ Fail(a)   \* the deadline has passed
              \/ DropTurn(a) /\ Goto(a, "sleeping") /\ UNCHANGED older
           /\ unjudged' = [unjudged EXCEPT ![a] = {}]
           /\ blockedAt' = [blockedAt EXCEPT ![a] = {}]
           /\ UNCHANGED <<before, storage>>

\* After the backoff, or the abort that cuts it short.
Wake(a) == /\ pc[a] = "sleeping"
           /\ \/ Fail(a)   \* the signal is aborted
              \/ TakeTurn(a) /\ Goto(a, "top") /\ UNCHANGED older
           /\ UNCHANGED <<before, unjudged, storage, blockedAt>>

-----------------------------------------------------------------------------
(* The release function, and what happens to calls.                        *)

ReleaseProvider(a) == /\ pc[a] = "running"
                      /\ slots' = [slots EXCEPT ![ProviderOf(a)] = @ \ {a}]
                      /\ Goto(a, "releasing")
                      /\ UNCHANGED <<older, before, unjudged, turn, parked, faults, blockedAt>>

ReleaseGlobal(a) == /\ pc[a] = "releasing"
                    /\ slots' = [slots EXCEPT !["global"] = @ \ {a}]
                    /\ Goto(a, "done")
                    /\ UNCHANGED <<older, before, unjudged, turn, parked, faults, blockedAt>>

\* The process dies.  Its slots can be taken again, but if it dies while it
\* reclaims the slot of a dead peer it parks one index.
Crash(a) ==
  /\ pc[a] \notin {"new", "failed", "done", "dead"}
  /\ Goto(a, "dead")
  /\ Dequeue(a) /\ DropTurn(a)
  /\ slots' = [b \in Bucket |-> slots[b] \ {a}]
  /\ \/ UNCHANGED parked
     \/ \E b \in Bucket :
          /\ <<pc[a], b>> \in {<<"grabProvider", ProviderOf(a)>>, <<"grabGlobal", "global">>}
          /\ HasRoom(b)
          /\ parked[b] < MaxParked
          /\ parked' = [parked EXCEPT ![b] = @ + 1]
  /\ unjudged' = [unjudged EXCEPT ![a] = {}]
  /\ blockedAt' = [blockedAt EXCEPT ![a] = {}]
  /\ before' = [before EXCEPT ![a] = {}]
  /\ UNCHANGED faults

Round(a) == \/ Start(a) \/ Register(a) \/ Miss(a) \/ ReadWaiters(a) \/ Judge(a)
            \/ GrabProvider(a) \/ GrabGlobal(a) \/ Unwind(a) \/ UndoProvider(a) \/ Exit(a) \/ Wake(a)
Release(a) == ReleaseProvider(a) \/ ReleaseGlobal(a)

Next == \E a \in Call : \/ Enter(a) \/ Round(a) \/ Release(a)
                        \/ RegisterError(a) \/ GrabError(a) \/ Crash(a)

Spec == Init /\ [][Next]_vars

\* Calls run on; the doorways that turn the first call away do not do so for
\* ever (TicketQueue!EventuallyIn); and workers end and give their slots back.
Fairness == \A a \in Call : /\ WF_vars(Round(a)) /\ SF_vars(Enter(a))
                            /\ WF_vars(Release(a))
FairSpec == Spec /\ Fairness

-----------------------------------------------------------------------------
(* Properties.                                                             *)

TypeOK == /\ pc \in [Call -> Labels]
          /\ older \in [Call -> SUBSET Call]
          /\ before \in [Call -> SUBSET Call]
          /\ unjudged \in [Call -> SUBSET Call]
          /\ turn \in Seq(Call)
          /\ \A i, j \in DOMAIN turn : turn[i] = turn[j] => i = j
          /\ slots \in [Bucket -> SUBSET Call]
          /\ parked \in [Bucket -> Nat]
          /\ faults \in BOOLEAN
          /\ blockedAt \in [Call -> SUBSET Call]

\* The workers that run never exceed a provider's cap nor the global one, the
\* indices lost to crashes counted in: however grabs, rollbacks and releases
\* of different processes interleave.
WithinCaps == \A b \in Bucket :
                Cardinality({a \in Call : pc[a] = "running" /\ b \in {ProviderOf(a), "global"}})
                  + parked[b] <= CapOf(b)

\* A call holds a slot exactly where its progress says: both while its worker
\* runs, and none once it failed, waits, or is done.  No slot leaks.
NoSlotLeaked ==
  \A a \in Call :
    /\ \A b \in Bucket : a \in slots[b] =>
         \/ b = ProviderOf(a) /\ pc[a] \in {"grabGlobal", "undoProvider", "unwinding", "running"}
         \/ b = "global" /\ pc[a] \in {"running", "releasing"}
    /\ pc[a] \in {"grabGlobal", "undoProvider", "running"} => a \in slots[ProviderOf(a)]
    /\ pc[a] = "running" => a \in slots["global"]

\* The waiters queue orders the waiting calls, and only them: a call that got
\* its slots, failed or died is nobody's predecessor.
QueueOrdered == \A a \in Call :
                  /\ older[a] \subseteq Queued
                  /\ \A x \in Queued \ {a} : a \in Queued => (x \in older[a] <=> a \notin older[x])

\* Slots and tickets agree with the progress of the calls, on every way out.
HeldExactly == TypeOK /\ NoSlotLeaked /\ QueueOrdered

\* Both: the caps hold, and what is counted against them is what is in use.
SlotsAccounted == WithinCaps /\ HeldExactly

\* FIFO among eligible requests: a call that takes its slots passes only
\* waiters that could not have run when it was admitted, and not because of a
\* slot that another call had taken only for a moment.  A waiter that is on its
\* way out with an error does not count.
PassesOnlyBlocked == \A a \in Call : pc[a] # "running" /\ pc'[a] = "running" =>
                       {x \in older[a] : pc[x] # "unwinding"} \subseteq blockedAt[a]
NoOvertaking == [][PassesOnlyBlocked]_vars

\* The order is kept as long as the storage publishes what it is given.
FirstInFirstOut == [][~faults => PassesOnlyBlocked]_vars

-----------------------------------------------------------------------------
(* The inductive invariants that SlotsAccounted and FirstInFirstOut rest on. *)

\* In the admission section, which is left by giving the ticket back.
Section == {"reading", "judging", "grabProvider", "grabGlobal", "undoProvider", "exit"}

\* No bucket has more holders and lost indices than slots, half-taken pairs
\* counted in.
BucketsWithinCap == \A b \in Bucket : IsFiniteSet(slots[b]) /\ Held(b) <= CapOf(b)

IInv == NoSlotLeaked /\ QueueOrdered /\ BucketsWithinCap

\* The one in the section has the first admission ticket.
TurnIsFirst == \A a \in Call : pc[a] \in Section => turn # <<>> /\ Head(turn) = a

\* While a call judges and grabs nobody can get in before it any more, those it
\* has judged were blocked when it was admitted, and so are those that could
\* not run now: slots are only given back meanwhile.
Judged(a) ==
  /\ pc[a] # "unwinding"
  /\ pc[a] \in {"judging", "grabProvider", "grabGlobal"} =>
       /\ \A x \in Call : pc[x] = "registering" => a \in before[x]
       /\ older[a] \subseteq unjudged[a] \cup blockedAt[a]
  /\ pc[a] = "judging" => \A x \in older[a] : ReallyEligible(x) \/ x \in blockedAt[a]
  /\ pc[a] \in {"grabProvider", "grabGlobal"} => unjudged[a] = {}
JudgedSoundly == \A a \in Call : Judged(a)

OrderInv == TurnIsFirst /\ (~faults => JudgedSoundly)
Inductive == TypeOK /\ IInv /\ OrderInv

\* A waiting call gets its slots, fails by its deadline or its signal, or dies:
\* blocked waiters of another provider never stand in its way for ever.
WaitEnds == \A a \in Call : pc[a] = "top" ~> pc[a] \in {"running", "failed", "dead"}
=============================================================================
