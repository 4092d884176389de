----------------------------- MODULE TicketQueue -----------------------------
(***************************************************************************)
(* The ticket directories of the machine-wide slot queue                   *)
(* (src/src/subagents/machine-slots.ts: publishTicket, readTickets, and    *)
(* the admission section of acquire): a Lamport bakery kept in files.      *)
(*                                                                         *)
(* A registration publishes a doorway file, reads the directory for a      *)
(* number, publishes a ticket and removes the doorway.  To find out        *)
(* whether it is first it reads the directory and then every file in it,   *)
(* one by one.  Each step is one file-system call.  A registration is      *)
(* known by the nonce of its file names, which is never used again: a call *)
(* that registers once more is another registration.  Files name their     *)
(* process; the files of dead processes are ignored but never removed.     *)
(*                                                                         *)
(* A directory is read in one step: readdirSync of a small directory is    *)
(* one getdents call.  A file's read and the pid probe that follows it are *)
(* one step too: what changes in between only makes the probe newer.       *)
(***************************************************************************)
EXTENDS Naturals, FiniteSets

CONSTANTS Nonce,       \* registrations, by nonce; nonces are ordered
          MaxTicket    \* the largest ticket number (Number.MAX_SAFE_INTEGER)

ASSUME NonceAssumption == Nonce \subseteq Nat
ASSUME TicketAssumption == MaxTicket \in Nat \ {0}

Number == 1 .. MaxTicket
Doorway(p) == [kind |-> "choosing", nonce |-> p, num |-> 0]
Ticket(p, k) == [kind |-> "ticket", nonce |-> p, num |-> k]
Name == {Doorway(p) : p \in Nonce} \cup {Ticket(p, k) : p \in Nonce, k \in Number}

VARIABLES
  dir,       \* the names in the directory
  pc,        \* registration -> the next call of its process
  num,       \* registration -> the number it chose, 0 before
  unread,    \* registration -> names of its readdir that it has not read yet
  seen,      \* registration -> tickets of live processes it has read
  blocked,   \* registration -> readTickets will report the queue as blocked
  ahead      \* history: registration -> those finished before it started

vars == <<dir, pc, num, unread, seen, blocked, ahead>>
scan == <<unread, seen, blocked>>

Labels == {"out", "choosing", "numbered", "closing", "aborting", "waiting",
           "reading", "critical", "done", "dead"}

Alive(p) == pc[p] # "dead"
Tickets(names) == {n \in names : n.kind = "ticket"}

\* Those whose publishTicket has returned and whose ticket is in place.
Queued == {p \in Nonce : pc[p] \in {"waiting", "reading", "critical"}}

Init == /\ dir = {}
        /\ pc = [p \in Nonce |-> "out"]
        /\ num = [p \in Nonce |-> 0]
        /\ unread = [p \in Nonce |-> {}]
        /\ seen = [p \in Nonce |-> {}]
        /\ blocked = [p \in Nonce |-> FALSE]
        /\ ahead = [p \in Nonce |-> {}]

Goto(p, label) == pc' = [pc EXCEPT ![p] = label]

\* readTickets starts, or is over: its local variables are fresh.
Reset(p, names) == /\ unread' = [unread EXCEPT ![p] = names]
                   /\ seen' = [seen EXCEPT ![p] = {}]
                   /\ blocked' = [blocked EXCEPT ![p] = FALSE]

\* Seeded bug: ties and all are ordered by nonce, whatever the numbers.
BugByNonce(m, n) == m.nonce < n.nonce

\* Sorted by number, ties by nonce.
Precedes(m, n) == m.num < n.num \/ (m.num = n.num /\ m.nonce < n.nonce)

-----------------------------------------------------------------------------
(* publishTicket.                                                          *)

OpenDoorway(p) == /\ pc[p] = "out"
                  /\ dir' = dir \cup {Doorway(p)}
                  /\ ahead' = [ahead EXCEPT ![p] = Queued]
                  /\ Goto(p, "choosing")
                  /\ UNCHANGED <<num, scan>>

\* One more than the number of every ticket, those of the dead included.
ChooseNumber(p) ==
  /\ pc[p] = "choosing"
  /\ \E k \in 1 .. MaxTicket + 1 :
       /\ \A n \in Tickets(dir) : n.num < k
       /\ k = 1 \/ \E n \in Tickets(dir) : n.num + 1 = k
       /\ \/ k \in Number /\ num' = [num EXCEPT ![p] = k] /\ Goto(p, "numbered")
          \/ k \notin Number /\ UNCHANGED num /\ Goto(p, "aborting")   \* range exhausted
  /\ UNCHANGED <<dir, scan, ahead>>

PublishTicket(p) == /\ pc[p] = "numbered"
                    /\ dir' = dir \cup {Ticket(p, num[p])}
                    /\ Goto(p, "closing")
                    /\ UNCHANGED <<num, scan, ahead>>

\* publishStamp throws: no ticket, and the finally still removes the doorway.
PublishError(p) == /\ pc[p] = "numbered"
                   /\ Goto(p, "aborting")
                   /\ UNCHANGED <<dir, num, scan, ahead>>

\* Seeded bug: the doorway is removed at the end, and not in a finally.
BugNoFinally(p) ==
  \/ pc[p] = "closing" /\ Goto(p, "waiting") /\ dir' = dir \ {Doorway(p)}
                       /\ UNCHANGED <<num, scan, ahead>>
  \/ pc[p] = "aborting" /\ Goto(p, "done") /\ UNCHANGED <<dir, num, scan, ahead>>

\* finally: a registration removes its own doorway, and nobody else's.
CloseDoorway(p) == /\ \/ pc[p] = "closing" /\ Goto(p, "waiting")
                      \/ pc[p] = "aborting" /\ Goto(p, "done")
                   /\ dir' = dir \ {Doorway(p)}
                   /\ UNCHANGED <<num, scan, ahead>>

-----------------------------------------------------------------------------
(* readTickets, and the section it guards.                                 *)

ReadDir(p) == /\ pc[p] = "waiting"
              /\ Reset(p, dir)
              /\ Goto(p, "reading")
              /\ UNCHANGED <<dir, num, ahead>>

\* Seeded bug: a doorway that has vanished is skipped like any vanished file.
BugVanished(n) == n.kind = "choosing" /\ n \in dir /\ Alive(n.nonce)

\* A doorway blocks while its process lives; also when it has vanished, for
\* the ticket behind it may be too new for the names that were read.
Blocks(n) == n.kind = "choosing" /\ (n \notin dir \/ Alive(n.nonce))

\* A ticket counts while it is there and its process lives.
Counts(n) == n.kind = "ticket" /\ n \in dir /\ Alive(n.nonce)

ReadName(p) ==
  /\ pc[p] = "reading"
  /\ \E n \in unread[p] :
       /\ unread' = [unread EXCEPT ![p] = @ \ {n}]
       /\ blocked' = [blocked EXCEPT ![p] = @ \/ Blocks(n)]
       /\ seen' = [seen EXCEPT ![p] = @ \cup {m \in {n} : Counts(m)}]
  /\ UNCHANGED <<dir, pc, num, ahead>>

\* tickets[0] of an unblocked queue is the registration's own.
First(p) == ~blocked[p] /\ \A n \in seen[p] : n.nonce = p \/ Precedes(Ticket(p, num[p]), n)

\* First: into the admission section.  Otherwise the loop of acquire retries.
Decide(p) == /\ pc[p] = "reading"
             /\ unread[p] = {}
             /\ \/ First(p) /\ Goto(p, "critical")
                \/ ~First(p) /\ Goto(p, "waiting")
             /\ Reset(p, {})
             /\ UNCHANGED <<dir, num, ahead>>

\* release: after the section, or, for a timeout or an abort, while waiting.
RemoveTicket(p) == /\ dir' = dir \ {Ticket(p, num[p])}
                   /\ Goto(p, "done")
                   /\ UNCHANGED <<num, scan, ahead>>
Exit(p) == pc[p] = "critical" /\ RemoveTicket(p)
GiveUp(p) == pc[p] = "waiting" /\ RemoveTicket(p)

\* A process dies; its files stay.
Crash(p) == /\ pc[p] \notin {"out", "done", "dead"}
            /\ Goto(p, "dead")
            /\ Reset(p, {})
            /\ UNCHANGED <<dir, num, ahead>>

Step(p) == \/ ChooseNumber(p) \/ PublishTicket(p) \/ CloseDoorway(p)
           \/ ReadDir(p) \/ ReadName(p) \/ Decide(p) \/ Exit(p)

Next == \E p \in Nonce : \/ OpenDoorway(p) \/ Step(p) \/ PublishError(p)
                         \/ GiveUp(p) \/ Crash(p)

Spec == Init /\ [][Next]_vars

\* A process with a registration keeps working on it while it lives; nothing
\* makes one register, give up or die.
Fairness == \A p \in Nonce : WF_vars(Step(p))
FairSpec == Spec /\ Fairness

-----------------------------------------------------------------------------
(* Properties.                                                             *)

TypeOK == /\ dir \subseteq Name
          /\ pc \in [Nonce -> Labels]
          /\ num \in [Nonce -> 0 .. MaxTicket]
          /\ unread \in [Nonce -> SUBSET Name]
          /\ seen \in [Nonce -> SUBSET Name]
          /\ blocked \in [Nonce -> BOOLEAN]
          /\ ahead \in [Nonce -> SUBSET Nonce]

\* The section that judges eligibility and takes both slots is exclusive: two
\* processes in it could each count the other's half-taken slots.
Exclusive == \A p, q \in Nonce : pc[p] = "critical" /\ pc[q] = "critical" => p = q

\* "A registration that starts after another finishes always receives a
\* greater number" (the comment on Ticket), as long as the other is queued.
LaterNumberGreater ==
  \A p \in Queued : \A q \in ahead[p] \cap Queued : num[q] < num[p]

\* Nobody enters past a queued registration that had finished before its own
\* started: first come, first served, whoever crashed or gave up meanwhile.
FirstComeFirstServed == \A p \in Nonce : pc[p] = "critical" => ahead[p] \cap Queued = {}

\* The directory holds exactly the files of registrations in progress or in
\* force: nothing a live process left behind blocks the queue for ever.
NothingLeftBehind ==
  \A n \in dir : Alive(n.nonce) =>
    \/ n = Doorway(n.nonce) /\ pc[n.nonce] \in {"choosing", "numbered", "closing", "aborting"}
    \/ n = Ticket(n.nonce, num[n.nonce]) /\ pc[n.nonce] \in {"closing", "waiting", "reading", "critical"}

\* The directory is a queue: types, numbers and files agree with the
\* registrations that live processes have under way.
DirectoryExact == TypeOK /\ LaterNumberGreater /\ NothingLeftBehind

\* Both: the directory is the queue, and it is served in its order.
QueueKept == FirstComeFirstServed /\ DirectoryExact

-----------------------------------------------------------------------------
(* The inductive invariant that Exclusive and QueueKept rest on.           *)

Mine(p) == Ticket(p, num[p])

\* With a number, and not yet out again.
Numbered == {"numbered", "closing", "waiting", "reading", "critical"}
Before(p, q) == Precedes(Mine(p), Mine(q))

\* The files of a registration are there while it says so.
FilesInPlace ==
  \A p \in Nonce :
    /\ pc[p] \in {"choosing", "numbered", "closing", "aborting"} => Doorway(p) \in dir
    /\ pc[p] \in Numbered => num[p] \in Number
    /\ pc[p] \in Numbered \ {"numbered"} => Mine(p) \in dir

\* A reader with another registration ahead of it knows, or has yet to read
\* a file that will tell.
ScanSound ==
  \A p, q \in Nonce :
    p # q /\ pc[p] = "reading" /\ pc[q] \in Numbered =>
      \/ Before(p, q)
      \/ blocked[p]
      \/ Doorway(q) \in unread[p]
      \/ pc[q] # "numbered" /\ Mine(q) \in unread[p] \cup seen[p]

\* The one in the section precedes all others that have a number.
CriticalFirst ==
  \A p, q \in Nonce : p # q /\ pc[p] = "critical" /\ pc[q] \in Numbered => Before(p, q)

\* Those that finished before p started have finished, and have smaller
\* numbers, from the moment p has its own.
AheadFinished ==
  \A p \in Nonce : \A q \in ahead[p] :
    /\ pc[q] \in {"waiting", "reading", "critical", "done", "dead"}
    /\ pc[p] \in Numbered /\ q \in Queued => num[q] < num[p]

IInv == FilesInPlace /\ NothingLeftBehind /\ ScanSound /\ CriticalFirst /\ AheadFinished
Inductive == TypeOK /\ IInv

\* A waiting registration gets in, unless it gives up or dies: the doorways
\* and tickets of others, the abandoned ones included, hold it up for a while
\* only.  (Registrations are finitely many: no arrivals for ever.)
EventuallyIn ==
  \A p \in Nonce : pc[p] = "waiting" ~> pc[p] \in {"critical", "done", "dead"}
=============================================================================
