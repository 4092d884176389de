--------------------------- MODULE TicketQueue_proofs ---------------------------
(***************************************************************************)
(* Proofs about the ticket queue, for any set of registrations and any     *)
(* range of numbers.                                                       *)
(***************************************************************************)
EXTENDS TicketQueue, TLAPS

\* Every variable keeps its type: in particular a reader's lists hold names.
THEOREM TypeCorrect == Spec => []TypeOK
<1> DEFINE Typed == TypeOK /\ \A p \in Nonce : pc[p] = "numbered" => num[p] \in Number
<1>1. Init => Typed
  BY TicketAssumption DEF Init, TypeOK, Labels
<1>2. Typed /\ [Next]_vars => Typed'
  <2> SUFFICES ASSUME Typed, [Next]_vars PROVE Typed'
    OBVIOUS
  <2> USE TicketAssumption
  <2>1. ASSUME NEW p \in Nonce, OpenDoorway(p) PROVE Typed'
    BY <2>1 DEF TypeOK, OpenDoorway, Goto, Labels, Queued, Name, scan
  <2>2. ASSUME NEW p \in Nonce, ChooseNumber(p) PROVE Typed'
    BY <2>2 DEF TypeOK, ChooseNumber, Goto, Labels, Number, scan
  <2>3. ASSUME NEW p \in Nonce, PublishTicket(p) PROVE Typed'
    <3>1. num[p] \in Number => Ticket(p, num[p]) \in Name
      BY DEF Name
    <3> QED
      BY <2>3, <3>1 DEF TypeOK, PublishTicket, Goto, Labels, scan
  <2>4. ASSUME NEW p \in Nonce, PublishError(p) PROVE Typed'
    BY <2>4 DEF TypeOK, PublishError, Goto, Labels, scan
  <2>5. ASSUME NEW p \in Nonce, CloseDoorway(p) PROVE Typed'
    BY <2>5 DEF TypeOK, CloseDoorway, Goto, Labels, scan
  <2>6. ASSUME NEW p \in Nonce, ReadDir(p) PROVE Typed'
    BY <2>6 DEF TypeOK, ReadDir, Reset, Goto, Labels
  <2>7. ASSUME NEW p \in Nonce, ReadName(p) PROVE Typed'
    BY <2>7 DEF TypeOK, ReadName
  <2>8. ASSUME NEW p \in Nonce, Decide(p) PROVE Typed'
    BY <2>8 DEF TypeOK, Decide, Reset, Goto, Labels
  <2>9. ASSUME NEW p \in Nonce, Exit(p) PROVE Typed'
    BY <2>9 DEF TypeOK, Exit, RemoveTicket, Goto, Labels, scan
  <2>10. ASSUME NEW p \in Nonce, GiveUp(p) PROVE Typed'
    BY <2>10 DEF TypeOK, GiveUp, RemoveTicket, Goto, Labels, scan
  <2>11. ASSUME NEW p \in Nonce, Crash(p) PROVE Typed'
    BY <2>11 DEF TypeOK, Crash, Reset, Goto, Labels
  <2>12. CASE UNCHANGED vars
    BY <2>12 DEF TypeOK, vars
  <2> QED
    BY <2>1, <2>2, <2>3, <2>4, <2>5, <2>6, <2>7, <2>8, <2>9, <2>10, <2>11, <2>12 DEF Next, Step
<1>3. Typed => TypeOK
  OBVIOUS
<1> QED
  BY <1>1, <1>2, <1>3, PTL DEF Spec

-----------------------------------------------------------------------------
\* Names of different registrations, or of different kinds, are different.
LEMMA NamesDiffer ==
  ASSUME NEW p \in Nonce, NEW q \in Nonce, NEW k, NEW l
  PROVE  /\ Doorway(p) # Ticket(q, k)
         /\ Doorway(p) = Doorway(q) => p = q
         /\ Ticket(p, k) = Ticket(q, l) => p = q /\ k = l
         /\ Doorway(p).nonce = p /\ Ticket(p, k).nonce = p /\ Ticket(p, k).num = k
         /\ Doorway(p).kind = "choosing" /\ Ticket(p, k).kind = "ticket"
         /\ Doorway(p) \in Name
         /\ k \in Number => Ticket(p, k) \in Name
<1>1. Doorway(p).kind = "choosing" /\ Doorway(p).nonce = p
  BY DEF Doorway
<1>2. Doorway(q).nonce = q
  BY DEF Doorway
<1>3. \A r, m : Ticket(r, m).kind = "ticket" /\ Ticket(r, m).nonce = r /\ Ticket(r, m).num = m
  BY DEF Ticket
<1>4. Doorway(p) # Ticket(q, k) /\ (Doorway(p) = Doorway(q) => p = q)
  BY <1>1, <1>2, <1>3
<1>5. Ticket(p, k) = Ticket(q, l) => p = q /\ k = l
  BY <1>3
<1> QED
  BY <1>1, <1>3, <1>4, <1>5 DEF Name

\* Every file in the directory is of a registration.
LEMMA NamesNonce == TypeOK => \A n \in dir : n.nonce \in Nonce
  BY DEF TypeOK, Name, Doorway, Ticket

\* A number chosen in the directory exceeds those of all tickets in place.
LEMMA NumberExceeds ==
  ASSUME TypeOK, IInv, NEW p \in Nonce, ChooseNumber(p), pc'[p] # "aborting"
  PROVE  /\ num'[p] \in Number
         /\ num' = [num EXCEPT ![p] = num'[p]]
         /\ pc' = [pc EXCEPT ![p] = "numbered"]
         /\ \A q \in Nonce : pc[q] \in Numbered \ {"numbered"} => num[q] < num'[p]
<1>1. PICK k \in 1 .. MaxTicket + 1 :
        /\ \A n \in Tickets(dir) : n.num < k
        /\ \/ k \in Number /\ num' = [num EXCEPT ![p] = k] /\ Goto(p, "numbered")
           \/ k \notin Number /\ UNCHANGED num /\ Goto(p, "aborting")
  BY DEF ChooseNumber
<1>2. k \in Number /\ num' = [num EXCEPT ![p] = k] /\ pc' = [pc EXCEPT ![p] = "numbered"]
  BY <1>1 DEF Goto, TypeOK
<1>3. num'[p] = k
  BY <1>2 DEF TypeOK
<1>4. ASSUME NEW q \in Nonce, pc[q] \in Numbered \ {"numbered"} PROVE num[q] < k
  <2>1. Ticket(q, num[q]) \in Tickets(dir)
    BY <1>4, NamesDiffer DEF IInv, FilesInPlace, Mine, Tickets
  <2> QED
    BY <1>1, <2>1, NamesDiffer
<1> QED
  BY <1>2, <1>3, <1>4

\* At first nobody has a file, a number or a place in the queue.
LEMMA InitSafe == Init => IInv
  BY DEF Init, IInv, FilesInPlace, NothingLeftBehind, ScanSound, CriticalFirst, AheadFinished, Numbered

\* A registration that opens its doorway has no number yet, and follows those that are queued.
LEMMA OpenDoorwaySafe == ASSUME TypeOK, TypeOK', IInv, NEW p \in Nonce, OpenDoorway(p) PROVE IInv'
<1>1. FilesInPlace'
  <2> SUFFICES ASSUME NEW q \in Nonce
               PROVE  /\ pc'[q] \in {"choosing", "numbered", "closing", "aborting"} => Doorway(q) \in dir'
                      /\ pc'[q] \in Numbered => num'[q] \in Number
                      /\ pc'[q] \in Numbered \ {"numbered"} => Ticket(q, num'[q]) \in dir'
    BY DEF FilesInPlace, Mine
  <2>1. CASE q = p
    BY <2>1 DEF OpenDoorway, Goto, Numbered
  <2>2. CASE q # p
    BY <2>2 DEF IInv, OpenDoorway, Goto, FilesInPlace, Mine
  <2> QED
    BY <2>1, <2>2
<1>2. NothingLeftBehind'
  BY DEF OpenDoorway, Goto, IInv, TypeOK, NothingLeftBehind, Alive, Doorway
<1>3. ScanSound'
  BY DEF OpenDoorway, Goto, scan, IInv, ScanSound, Before, Mine, Numbered
<1>4. CriticalFirst'
  BY DEF OpenDoorway, Goto, IInv, CriticalFirst, Before, Mine, Numbered
<1>5. AheadFinished'
  BY DEF OpenDoorway, Goto, IInv, AheadFinished, Queued, Numbered
<1> QED
  BY <1>1, <1>2, <1>3, <1>4, <1>5 DEF IInv

\* A number chosen in the directory exceeds that of every ticket in it: it comes after every reader, the one in the section, and all those ahead.
LEMMA ChooseNumberSafe == ASSUME TypeOK, TypeOK', IInv, NEW p \in Nonce, ChooseNumber(p) PROVE IInv'
<1>1. UNCHANGED <<dir, scan, ahead>> /\ pc[p] = "choosing"
  BY DEF ChooseNumber
<1>2. CASE pc'[p] = "aborting"
  <2>1. UNCHANGED num /\ pc' = [pc EXCEPT ![p] = "aborting"]
    BY <1>2 DEF ChooseNumber, Goto, TypeOK
  <2>2. FilesInPlace'
    BY <1>1, <2>1 DEF IInv, FilesInPlace, Numbered, Mine
  <2>3. NothingLeftBehind'
    BY <1>1, <2>1 DEF IInv, NothingLeftBehind, Alive
  <2>4. ScanSound'
    BY <1>1, <2>1 DEF IInv, ScanSound, Before, Mine, Numbered, scan
  <2>5. CriticalFirst'
    BY <1>1, <2>1 DEF IInv, CriticalFirst, Before, Mine, Numbered
  <2>6. AheadFinished'
    BY <1>1, <2>1 DEF IInv, AheadFinished, Queued, Numbered
  <2> QED
    BY <2>2, <2>3, <2>4, <2>5, <2>6 DEF IInv
<1>3. CASE pc'[p] # "aborting"
  <2>1. /\ num'[p] \in Number
        /\ num' = [num EXCEPT ![p] = num'[p]]
        /\ pc' = [pc EXCEPT ![p] = "numbered"]
        /\ \A q \in Nonce : pc[q] \in Numbered \ {"numbered"} => num[q] < num'[p]
    BY <1>3, NumberExceeds
  <2>2. FilesInPlace'
    BY <1>1, <2>1 DEF TypeOK, IInv, FilesInPlace, Mine
  <2>3. NothingLeftBehind'
    BY <1>1, <2>1, NamesNonce DEF TypeOK, IInv, NothingLeftBehind, Alive
  <2>4. ASSUME NEW q \in Nonce, q # p, pc[q] \in Numbered \ {"numbered"} PROVE Before(q, p)'
    BY <2>1, <2>4 DEF TypeOK, Before, Mine, Precedes, Ticket
  <2>5. ScanSound'
    BY <1>1, <2>1, <2>4 DEF TypeOK, IInv, ScanSound, Before, Mine, Numbered, scan
  <2>6. CriticalFirst'
    BY <1>1, <2>1, <2>4 DEF TypeOK, IInv, CriticalFirst, Before, Mine, Numbered
  <2>7. AheadFinished'
    BY <1>1, <2>1 DEF TypeOK, IInv, AheadFinished, Queued, Numbered
  <2> QED
    BY <2>2, <2>3, <2>5, <2>6, <2>7 DEF IInv
<1> QED
  BY <1>2, <1>3

\* The ticket is in place before the doorway goes.
LEMMA PublishTicketSafe == ASSUME TypeOK, TypeOK', IInv, NEW p \in Nonce, PublishTicket(p) PROVE IInv'
<1>1. FilesInPlace'
  BY TicketAssumption, NonceAssumption DEF PublishTicket, Goto, Labels, scan, IInv, TypeOK, FilesInPlace, Numbered, Mine
<1>2. NothingLeftBehind'
  BY DEF PublishTicket, Goto, IInv, TypeOK, NothingLeftBehind, Alive, Ticket
<1>3. ScanSound'
  BY DEF PublishTicket, Goto, scan, IInv, ScanSound, Before, Mine, Numbered
<1>4. CriticalFirst'
  BY DEF PublishTicket, Goto, IInv, CriticalFirst, Before, Mine, Numbered
<1>5. AheadFinished'
  BY DEF PublishTicket, Goto, IInv, AheadFinished, Queued, Numbered
<1> QED
  BY <1>1, <1>2, <1>3, <1>4, <1>5 DEF IInv

\* A failed publication leaves the doorway to the finally.
LEMMA PublishErrorSafe == ASSUME TypeOK, TypeOK', IInv, NEW p \in Nonce, PublishError(p) PROVE IInv'
<1>1. FilesInPlace'
  BY TicketAssumption, NonceAssumption DEF PublishError, Goto, Labels, scan, IInv, TypeOK, FilesInPlace, Numbered, Mine
<1>2. NothingLeftBehind'
  BY DEF PublishError, Goto, IInv, NothingLeftBehind, Alive
<1>3. ScanSound'
  BY DEF PublishError, Goto, scan, IInv, ScanSound, Before, Mine, Numbered
<1>4. CriticalFirst'
  BY DEF PublishError, Goto, IInv, CriticalFirst, Before, Mine, Numbered
<1>5. AheadFinished'
  BY DEF PublishError, Goto, IInv, AheadFinished, Queued, Numbered
<1> QED
  BY <1>1, <1>2, <1>3, <1>4, <1>5 DEF IInv

\* The doorway that goes is the registration's own; its name in a reader's list blocks that reader.
LEMMA CloseDoorwaySafe == ASSUME TypeOK, TypeOK', IInv, NEW p \in Nonce, CloseDoorway(p) PROVE IInv'
<1>1. FilesInPlace'
  BY TicketAssumption, NonceAssumption DEF CloseDoorway, Goto, Labels, scan, IInv, TypeOK, FilesInPlace, Numbered, Mine, Doorway, Ticket
<1>2. NothingLeftBehind'
  <2> SUFFICES ASSUME NEW n \in dir, n # Doorway(p), pc'[n.nonce] # "dead"
               PROVE  \/ n = Doorway(n.nonce) /\ pc'[n.nonce] \in {"choosing", "numbered", "closing", "aborting"}
                      \/ n = Ticket(n.nonce, num[n.nonce]) /\ pc'[n.nonce] \in {"closing", "waiting", "reading", "critical"}
    BY DEF NothingLeftBehind, Alive, CloseDoorway
  <2>1. n.nonce \in Nonce
    BY NamesNonce
  <2>2. CASE n.nonce = p
    <3>1. pc[p] = "closing" /\ pc'[p] = "waiting" /\ num' = num
      BY <2>2 DEF TypeOK, IInv, NothingLeftBehind, Alive, CloseDoorway, Goto
    <3> QED
      BY <2>2, <3>1 DEF IInv, NothingLeftBehind, Alive
  <2>3. CASE n.nonce # p
    BY <2>1, <2>3 DEF TypeOK, IInv, NothingLeftBehind, Alive, CloseDoorway, Goto
  <2> QED
    BY <2>2, <2>3
<1>3. ScanSound'
  BY DEF CloseDoorway, Goto, scan, IInv, TypeOK, ScanSound, Before, Mine, Numbered
<1>4. CriticalFirst'
  BY DEF CloseDoorway, Goto, IInv, TypeOK, CriticalFirst, Before, Mine, Numbered
<1>5. AheadFinished'
  BY DEF CloseDoorway, Goto, IInv, TypeOK, AheadFinished, Queued, Numbered
<1> QED
  BY <1>1, <1>2, <1>3, <1>4, <1>5 DEF IInv

\* The directory shows the doorway or the ticket of everybody with a number.
LEMMA ReadDirSafe == ASSUME TypeOK, TypeOK', IInv, NEW p \in Nonce, ReadDir(p) PROVE IInv'
<1>1. FilesInPlace'
  BY TicketAssumption, NonceAssumption DEF ReadDir, Reset, Goto, Labels, scan, IInv, TypeOK, FilesInPlace, Numbered, Mine
<1>2. NothingLeftBehind'
  BY DEF ReadDir, Goto, IInv, NothingLeftBehind, Alive
<1>3. ScanSound'
  BY DEF ReadDir, Reset, Goto, IInv, TypeOK, ScanSound, Before, Mine, Numbered, FilesInPlace
<1>4. CriticalFirst'
  BY DEF ReadDir, Goto, IInv, CriticalFirst, Before, Mine, Numbered
<1>5. AheadFinished'
  BY DEF ReadDir, Goto, IInv, AheadFinished, Queued, Numbered
<1> QED
  BY <1>1, <1>2, <1>3, <1>4, <1>5 DEF IInv

\* A doorway that is read blocks, present or vanished; a ticket in place counts.
LEMMA ReadNameSafe == ASSUME TypeOK, TypeOK', IInv, NEW p \in Nonce, ReadName(p) PROVE IInv'
<1>1. FilesInPlace'
  BY TicketAssumption, NonceAssumption DEF ReadName, Blocks, Counts, Alive, scan, IInv, TypeOK, FilesInPlace, Numbered, Mine
<1>2. NothingLeftBehind'
  BY DEF ReadName, Alive, IInv, NothingLeftBehind
<1>3. ScanSound'
  <2>1. PICK n \in unread[p] :
          /\ unread' = [unread EXCEPT ![p] = @ \ {n}]
          /\ blocked' = [blocked EXCEPT ![p] = @ \/ Blocks(n)]
          /\ seen' = [seen EXCEPT ![p] = @ \cup {m \in {n} : Counts(m)}]
    BY DEF ReadName
  <2> SUFFICES ASSUME NEW r \in Nonce, NEW q \in Nonce, r # q, pc[r] = "reading", pc[q] \in Numbered,
                      ~Before(r, q), ~blocked'[r], Doorway(q) \notin unread'[r]
               PROVE  pc[q] # "numbered" /\ Mine(q) \in unread'[r] \cup seen'[r]
    BY DEF ReadName, ScanSound, Before, Mine
  <2>2. CASE r # p
    BY <2>1, <2>2 DEF IInv, ScanSound
  <2>3. CASE r = p
    <3>1. ~blocked[p] /\ ~Blocks(n) /\ (Doorway(q) \notin unread[p] \/ n = Doorway(q))
      BY <2>1, <2>3 DEF TypeOK
    <3>2. n # Doorway(q)
      BY <3>1, NamesDiffer DEF Blocks, Alive, Numbered
    <3>3. pc[q] # "numbered" /\ Mine(q) \in unread[p] \cup seen[p]
      BY <2>3, <3>1, <3>2 DEF IInv, ScanSound
    <3>4. CASE n # Mine(q)
      BY <2>1, <2>3, <3>3, <3>4
    <3>5. CASE n = Mine(q)
      <4>1. Counts(n)
        BY <3>3, <3>5, NamesDiffer DEF IInv, FilesInPlace, Mine, Counts, Alive, Numbered
      <4> QED
        BY <2>1, <2>3, <3>3, <3>5, <4>1 DEF TypeOK
    <3> QED
      BY <3>4, <3>5
  <2> QED
    BY <2>2, <2>3
<1>4. CriticalFirst'
  BY DEF ReadName, IInv, CriticalFirst, Before, Mine
<1>5. AheadFinished'
  BY DEF ReadName, IInv, AheadFinished, Queued
<1> QED
  BY <1>1, <1>2, <1>3, <1>4, <1>5 DEF IInv

\* An unblocked reader that is first among the tickets it saw precedes everybody with a number.
LEMMA DecideSafe == ASSUME TypeOK, TypeOK', IInv, NEW p \in Nonce, Decide(p) PROVE IInv'
<1>1. /\ pc[p] = "reading" /\ unread[p] = {} /\ UNCHANGED <<dir, num, ahead>>
      /\ unread' = [unread EXCEPT ![p] = {}] /\ seen' = [seen EXCEPT ![p] = {}]
      /\ blocked' = [blocked EXCEPT ![p] = FALSE]
  BY DEF Decide, Reset
<1>2. PICK l \in {"critical", "waiting"} :
        /\ pc' = [pc EXCEPT ![p] = l]
        /\ l = "critical" => First(p)
  BY DEF Decide, Goto
<1>3. FilesInPlace'
  BY <1>1, <1>2 DEF IInv, FilesInPlace, Numbered, Mine
<1>4. NothingLeftBehind'
  BY <1>1, <1>2 DEF IInv, NothingLeftBehind, Alive
<1>5. ScanSound'
  BY <1>1, <1>2 DEF TypeOK, IInv, ScanSound, Before, Mine, Numbered
<1>6. ASSUME NEW q \in Nonce, q # p, pc[q] \in Numbered, l = "critical" PROVE Before(p, q)
  <2>1. CASE Mine(q) \in seen[p]
    BY <1>2, <1>6, <2>1, NamesDiffer DEF First, Before, Mine
  <2>2. CASE Mine(q) \notin seen[p]
    BY <1>1, <1>2, <1>6, <2>2 DEF First, IInv, ScanSound
  <2> QED
    BY <2>1, <2>2
<1>7. CriticalFirst'
  BY <1>1, <1>2, <1>6 DEF IInv, CriticalFirst, Before, Mine, Numbered
<1>8. AheadFinished'
  BY <1>1, <1>2 DEF IInv, AheadFinished, Queued, Numbered
<1> QED
  BY <1>3, <1>4, <1>5, <1>7, <1>8 DEF IInv

\* The section is left with the ticket.
LEMMA ExitSafe == ASSUME TypeOK, TypeOK', IInv, NEW p \in Nonce, Exit(p) PROVE IInv'
<1>1. FilesInPlace'
  BY TicketAssumption, NonceAssumption DEF Exit, RemoveTicket, Goto, Labels, scan, IInv, TypeOK, FilesInPlace, Numbered, Mine, Doorway, Ticket
<1>2. NothingLeftBehind'
  BY DEF Exit, RemoveTicket, Goto, IInv, NothingLeftBehind, Alive
<1>3. ScanSound'
  BY DEF Exit, RemoveTicket, Goto, scan, IInv, ScanSound, Before, Mine, Numbered
<1>4. CriticalFirst'
  BY DEF Exit, RemoveTicket, Goto, IInv, CriticalFirst, Before, Mine, Numbered
<1>5. AheadFinished'
  BY DEF Exit, RemoveTicket, Goto, IInv, AheadFinished, Queued, Numbered
<1> QED
  BY <1>1, <1>2, <1>3, <1>4, <1>5 DEF IInv

\* Whoever gives up takes its ticket along.
LEMMA GiveUpSafe == ASSUME TypeOK, TypeOK', IInv, NEW p \in Nonce, GiveUp(p) PROVE IInv'
<1>1. FilesInPlace'
  BY TicketAssumption, NonceAssumption DEF GiveUp, RemoveTicket, Goto, Labels, scan, IInv, TypeOK, FilesInPlace, Numbered, Mine, Doorway, Ticket
<1>2. NothingLeftBehind'
  BY DEF GiveUp, RemoveTicket, Goto, IInv, NothingLeftBehind, Alive
<1>3. ScanSound'
  BY DEF GiveUp, RemoveTicket, Goto, scan, IInv, ScanSound, Before, Mine, Numbered
<1>4. CriticalFirst'
  BY DEF GiveUp, RemoveTicket, Goto, IInv, CriticalFirst, Before, Mine, Numbered
<1>5. AheadFinished'
  BY DEF GiveUp, RemoveTicket, Goto, IInv, AheadFinished, Queued, Numbered
<1> QED
  BY <1>1, <1>2, <1>3, <1>4, <1>5 DEF IInv

\* The dead hold nothing: their files are ignored.
LEMMA CrashSafe == ASSUME TypeOK, TypeOK', IInv, NEW p \in Nonce, Crash(p) PROVE IInv'
<1>1. FilesInPlace'
  BY TicketAssumption, NonceAssumption DEF Crash, Reset, Goto, Labels, scan, IInv, TypeOK, FilesInPlace, Numbered, Mine
<1>2. NothingLeftBehind'
  BY DEF Crash, Goto, IInv, NothingLeftBehind, Alive
<1>3. ScanSound'
  BY DEF Crash, Reset, Goto, IInv, TypeOK, ScanSound, Before, Mine, Numbered
<1>4. CriticalFirst'
  BY DEF Crash, Goto, IInv, CriticalFirst, Before, Mine, Numbered
<1>5. AheadFinished'
  BY DEF Crash, Goto, IInv, AheadFinished, Queued, Numbered
<1> QED
  BY <1>1, <1>2, <1>3, <1>4, <1>5 DEF IInv

\* Nothing changes.
LEMMA StutterSafe == IInv /\ UNCHANGED vars => IInv'
  BY DEF IInv, vars, scan, FilesInPlace, NothingLeftBehind, ScanSound, CriticalFirst, AheadFinished,
         Queued, Numbered, Before, Mine, Alive

\* Every step preserves the invariant.
LEMMA StepSafe == TypeOK /\ TypeOK' /\ IInv /\ [Next]_vars => IInv'
  BY OpenDoorwaySafe, ChooseNumberSafe, PublishTicketSafe, PublishErrorSafe, CloseDoorwaySafe, ReadDirSafe, ReadNameSafe, DecideSafe, ExitSafe, GiveUpSafe, CrashSafe, StutterSafe
  DEF Next, Step

\* Files, scans, the section and the order of registrations agree, always.
THEOREM SafetyInvariant == Spec => []IInv
  BY InitSafe, StepSafe, TypeCorrect, PTL DEF Spec


-----------------------------------------------------------------------------
\* Of two registrations at most one precedes the other.
LEMMA OneComesFirst ==
  ASSUME TypeOK, NEW p \in Nonce, NEW q \in Nonce
  PROVE  ~(Before(p, q) /\ Before(q, p))
  BY NonceAssumption DEF TypeOK, Before, Mine, Precedes, Ticket

\* Two processes are never both in the section that judges eligibility and
\* takes the slots of acquire.
THEOREM SectionIsExclusive == Spec => []Exclusive
<1>1. TypeOK /\ IInv => Exclusive
  BY OneComesFirst DEF IInv, CriticalFirst, Exclusive, Numbered
<1> QED
  BY <1>1, SafetyInvariant, TypeCorrect, PTL

\* Numbers and files agree with the registrations under way, and nobody gets
\* past a registration that had finished before its own began.
THEOREM QueueIsKept == Spec => []QueueKept
<1>1. TypeOK /\ IInv => FirstComeFirstServed
  <2> SUFFICES ASSUME TypeOK, IInv, NEW p \in Nonce, pc[p] = "critical", NEW q \in ahead[p] \cap Queued
               PROVE  FALSE
    BY DEF FirstComeFirstServed
  <2>1. num[q] < num[p]
    BY DEF IInv, AheadFinished, Numbered
  <2>2. q \in Nonce /\ q # p /\ pc[q] \in Numbered
    BY <2>1 DEF TypeOK, Queued, Numbered
  <2>3. Before(p, q)
    BY <2>2 DEF IInv, CriticalFirst
  <2> QED
    BY <2>1, <2>2, <2>3 DEF TypeOK, Before, Mine, Precedes, Ticket
<1>2. TypeOK /\ IInv => LaterNumberGreater
  BY DEF IInv, AheadFinished, LaterNumberGreater, Queued, Numbered
<1>3. TypeOK /\ IInv => QueueKept
  BY <1>1, <1>2 DEF IInv, QueueKept, DirectoryExact
<1> QED
  BY <1>3, SafetyInvariant, TypeCorrect, PTL
=============================================================================
