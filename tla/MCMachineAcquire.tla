-------------------------- MODULE MCMachineAcquire --------------------------
(***************************************************************************)
(* Model-checking instances of MachineAcquire and of what it rests on.     *)
(* They share no state, so each behaviour is one of them: part says which. *)
(*                                                                         *)
(*   two     calls 1 and 2 ask for provider "a", call 3 for "b"; two       *)
(*           global slots, one of each provider                            *)
(*   live    one global slot; the storage may fail                         *)
(*   queue   TicketQueue with two registrations                            *)
(*   slots   SlotFiles with two processes and one slot                     *)
(*                                                                         *)
(* The last two show the promises that the fairness of the third stands on.*)
(***************************************************************************)
EXTENDS MachineAcquire, TLC

CONSTANTS p1, p2, n1, n2, n3, NoFile, Unreadable

MCProviderOf(c) == IF c = 3 THEN "b" ELSE "a"
MCCapOne(b) == 1
MCCapTwo(b) == IF b = "global" THEN 2 ELSE 1

VARIABLES part, queuePc, dir, num, unread, seen, blocked, ahead,
          slotPc, slot, claim, at, observed, mine, claimed, outcome, held

Live == INSTANCE MachineAcquire WITH CapOf <- MCCapOne, MaxParked <- 0
Queue == INSTANCE TicketQueue WITH Nonce <- {1, 2}, MaxTicket <- 3, pc <- queuePc
Slots == INSTANCE SlotFiles WITH Proc <- {p1, p2}, Nonce <- {n1, n2, n3}, Cap <- 1, pc <- slotPc

queueVars == <<queuePc, dir, num, unread, seen, blocked, ahead>>
slotVars == <<slotPc, slot, claim, at, observed, mine, claimed, outcome, held>>
allVars == <<part, vars, queueVars, slotVars>>

\* The slots of the parts that are not about them are free.
MCInit == /\ part \in {"two", "live", "queue", "slots"}
          /\ Init /\ (part # "two" => faults)
          /\ Queue!Init
          /\ Slots!Init /\ (part # "slots" => \A i \in DOMAIN slot : slot[i] = NoFile)

MCNext == /\ UNCHANGED part
          /\ \/ part = "two" /\ Next /\ UNCHANGED <<queueVars, slotVars>>
             \/ part = "live" /\ Live!Next /\ UNCHANGED <<queueVars, slotVars>>
             \/ part = "queue" /\ Queue!Next /\ UNCHANGED <<vars, slotVars>>
             \/ part = "slots" /\ Slots!Next /\ UNCHANGED <<vars, queueVars>>

MCSpec == MCInit /\ [][MCNext]_allVars

\* Nobody waits for ever: a call for its slots, a registration for its turn, nor
\* a slot whose holder died for the process that takes it over.
EverybodyGetsOn == /\ part = "live" /\ Live!Fairness => Live!WaitEnds
                   /\ part = "queue" /\ Queue!Fairness => Queue!EventuallyIn
                   /\ part = "slots" /\ Slots!Fairness => Slots!StaleSlotReclaimed
=============================================================================
