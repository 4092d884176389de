-------------------------------- MODULE Inbox --------------------------------
(***************************************************************************)
(* Notes of other agents to a primary session: src/ultraterm-inbox.ts and  *)
(* extensions/ultraterm-inbox.ts.  A consumer registers with UltraTerm     *)
(* under the identity that primary-host.ts published, takes a lease on one *)
(* note, steers it into the session, and records its receipt once the note *)
(* is in the session's file.  UltraTerm and the agent SDK are external.    *)
(*                                                                         *)
(* A tick waits for one request at a time; between two waits it is one     *)
(* step.  The timers fire again and again: only the ticks and the timers   *)
(* that change something are steps here.                                   *)
(***************************************************************************)
EXTENDS Naturals, Sequences, FiniteSets

CONSTANTS
  Copy,      \* the loaded copies of the extension in one process
  Session,   \* the sessions of the process, each with its manager
  Note,      \* the notes, and To[n] the session each is addressed to
  To,
  Limit,     \* 4096 in the code: notes one consumer hands on
  MaxMoves,  \* bound: starts, shutdowns and publications
  MaxFaults  \* bound: requests, reads and messages that fail

VARIABLES
  ident,     \* each session's published identity: its generation, 0 without
  owners,    \* each session's manager: the copy that owns its inbox
  copies,    \* each copy: [manager, timer, id], id of its consumer, 0 without
  consumer,  \* each consumer so far: [host, gen, at, token, pending, invoked]
  hub,       \* UltraTerm: [token, lease, queue, recorded], token a consumer's id
  sdk,       \* each session: [queue, memory, file], notes on their way into it
  sends,     \* notes handed to the SDK: [by, note, to, ident, known]
  moves, faults

vars == <<ident, owners, copies, consumer, hub, sdk, sends, moves, faults>>

None == "none"
Ids == 1..Len(consumer)
Off == [manager |-> None, timer |-> None, id |-> 0]
Known(s) == sdk[s].memory \cup sdk[s].file

TypeOK ==
  /\ ident \in [Session -> Nat] /\ owners \in [Session -> Copy \cup {None}]
  /\ copies \in [Copy -> [manager : Session \cup {None}, id : 0..Len(consumer),
                          timer : {None, "attempt", "watch"}]]
  /\ \A i \in Ids : consumer[i] \in
       [host : Session, gen : Nat, pending : Note \cup {None}, invoked : SUBSET Note,
        at : {"rest", "register", "poll", "record", "withheld", "stopped"},
        token : BOOLEAN]
  /\ hub.token \in 0..Len(consumer) /\ hub.lease \in Note \cup {None}
  /\ sdk \in [Session -> [queue : SUBSET Note, memory : SUBSET Note, file : SUBSET Note]]
  /\ moves \in 0..MaxMoves /\ faults \in 0..MaxFaults

Init ==
  /\ ident = [s \in Session |-> 0] /\ owners = [s \in Session |-> None]
  /\ copies = [x \in Copy |-> Off] /\ consumer = <<>>
  /\ hub \in [token : {0}, lease : {None}, recorded : {{}},
              queue : {q \in [1..Cardinality(Note) -> Note] :
                         \A i, j \in DOMAIN q : q[i] = q[j] => i = j}]
  /\ sdk = [s \in Session |-> [queue |-> {}, memory |-> {}, file |-> {}]]
  /\ sends = <<>> /\ moves = 0 /\ faults = 0

Move  == moves < MaxMoves /\ moves' = moves + 1 /\ UNCHANGED faults
Fault == faults < MaxFaults /\ faults' = faults + 1 /\ UNCHANGED moves
Fine  == UNCHANGED <<moves, faults>>
Goes(i, to) == consumer' = [consumer EXCEPT ![i].at = to]

-----------------------------------------------------------------------------
(* UltraTerm: a lease stays with its note until the receipt is recorded,   *)
(* whoever is registered; the next note is leased to the session it is for. *)

Registered(i) == [hub EXCEPT !.token = i]
Released(i) == IF hub.token = i THEN [hub EXCEPT !.token = 0] ELSE hub
Recorded(n) == [hub EXCEPT !.recorded = @ \cup {n}, !.lease = IF @ = n THEN None ELSE @]

Leasable(s) == {k \in DOMAIN hub.queue : To[hub.queue[k]] = s}
Polled(i) ==
  LET ready == consumer[i].pending = None
      k == CHOOSE k \in Leasable(consumer[i].host) :
             \A j \in Leasable(consumer[i].host) : k <= j
  IN IF hub.lease # None \/ ~ready \/ Leasable(consumer[i].host) = {} THEN hub
     ELSE [hub EXCEPT !.lease = hub.queue[k],
                      !.queue = SelectSeq(@, LAMBDA n : n # hub.queue[k])]

\* What the request that a consumer waits for does when it arrives.
Effect(i) ==
  CASE consumer[i].at = "register" -> Registered(i)
    [] consumer[i].at = "poll" /\ hub.token = i -> Polled(i)
    [] consumer[i].at = "record" /\ hub.token = i -> Recorded(consumer[i].pending)
    [] OTHER -> hub

-----------------------------------------------------------------------------
(* The consumer. *)

BugCurrent(i) == TRUE

\* current(): the identity is still the one it began with.
Current(i) == ident[consumer[i].host] = consumer[i].gen

Valid(i) == consumer[i].at # "stopped" /\ Current(i)
Resting(i) == consumer[i].at \in {"rest", "withheld"}

BugEvidence(i, n) == n \in Known(consumer[i].host)

\* evidence: the note's entry, read back from the session's file.
Evidence(i, n) == n \in sdk[consumer[i].host].file

\* stop: what it waits for may have arrived or not, and so may its release.
Stopping(i) ==
  /\ consumer' = [consumer EXCEPT ![i].at = "stopped", ![i].token = FALSE]
  /\ \/ hub' = hub
     \/ hub' = Effect(i)
     \/ consumer[i].token /\ hub' = Released(i)

\* Whether a tick would change anything.
Due(i) ==
  LET c == consumer[i] IN
  \/ ~Valid(i) \/ ~c.token
  \/ c.pending = None /\ (hub.token # i \/ hub.lease # None \/ Leasable(c.host) # {})
  \/ c.pending # None /\ (Evidence(i, c.pending) \/ hub.token # i)
  \/ c.pending # None /\ c.pending \notin c.invoked /\ Cardinality(c.invoked) < Limit

Tick(i) ==
  /\ Resting(i) /\ Due(i)
  /\ IF Valid(i) THEN Goes(i, IF consumer[i].token THEN "poll" ELSE "register") /\ UNCHANGED hub
                 ELSE Stopping(i)
  /\ Fine /\ UNCHANGED <<ident, owners, copies, sdk, sends>>

\* After the catch: the token is dropped, the note and what was invoked stay.
Uncertain(i, to) == [consumer EXCEPT ![i].at = to, ![i].token = FALSE]

(* A request fails, before it arrived or after; or the session's file does *)
(* not pass the reader's tests, which the code asks before any request.    *)
RequestFails(i) ==
  /\ consumer[i].at \in {"register", "poll", "record"}
  /\ \/ Fault /\ hub' \in {hub, Effect(i)}
     \/ consumer[i].at # "register" /\ hub.token # i /\ Fine /\ UNCHANGED hub
  /\ consumer' = IF Valid(i) THEN Uncertain(i, "rest")
                 ELSE [consumer EXCEPT ![i].at = "rest", ![i].token = FALSE]
  /\ UNCHANGED <<ident, owners, copies, sdk, sends>>

Register(i) ==
  /\ consumer[i].at = "register"
  /\ hub' = Effect(i)
  /\ consumer' = IF Valid(i) THEN [consumer EXCEPT ![i].at = "poll", ![i].token = TRUE]
                 ELSE [consumer EXCEPT ![i].at = "rest"]
  /\ Fine /\ UNCHANGED <<ident, owners, copies, sdk, sends>>

BugInvoke(c, n) == c.invoked

\* Marked before the call: one that throws may have been taken.
Invoke(c, n) == c.invoked \cup {n}

\* pi.sendMessage: queued for the next boundary, appended at once, or lost.
Send(i, n) ==
  LET s == consumer[i].host IN
  /\ sends' = Append(sends, [by |-> i, note |-> n, to |-> s, ident |-> ident[s],
                        known |-> n \in Known(s)])
  /\ \/ sdk' = [sdk EXCEPT ![s].queue = @ \cup {n}] /\ Fine
     \/ sdk' = [sdk EXCEPT ![s].memory = @ \cup {n}] /\ Fine
     \/ Fault /\ UNCHANGED sdk

BugAccepted(i, n) == FALSE

\* The session has the note in memory: no proof for a receipt, but no reason to send.
Accepted(i, n) == n \in sdk[consumer[i].host].memory

(* The answer to a poll, and what the tick does with the note it holds. *)
Poll(i) ==
  LET c == consumer[i]
      n == IF Effect(i).lease # None THEN Effect(i).lease ELSE c.pending
      m == [c EXCEPT !.pending = n]
      full == Cardinality(c.invoked \ {n}) >= Limit
      step(d) == consumer' = [consumer EXCEPT ![i] = d]
  IN
  /\ c.at = "poll" /\ hub.token = i
  /\ hub' = Effect(i)
  /\ CASE ~Valid(i) \/ n = None ->
            Goes(i, "rest") /\ Fine /\ UNCHANGED <<sdk, sends>>
       [] Valid(i) /\ n # None /\ Effect(i).lease = n /\ To[n] # c.host ->
            consumer' = Uncertain(i, "withheld") /\ Fine /\ UNCHANGED <<sdk, sends>>
       [] Valid(i) /\ n # None /\ To[n] = c.host ->
            \/ /\ Evidence(i, n)
               /\ step([m EXCEPT !.at = "record"]) /\ Fine /\ UNCHANGED <<sdk, sends>>
            \/ \* the search has not come to the entry yet, or there is none
               /\ IF Evidence(i, n) THEN Fault ELSE Fine
               /\ Accepted(i, n) \/ n \in c.invoked \/ full
               /\ step([m EXCEPT !.at = IF full /\ n \notin c.invoked THEN "withheld" ELSE "rest",
                          !.invoked = IF Accepted(i, n) /\ ~full THEN @ \cup {n} ELSE @])
               /\ UNCHANGED <<sdk, sends>>
            \/ /\ ~Evidence(i, n) /\ ~Accepted(i, n) /\ n \notin c.invoked /\ ~full
               /\ Send(i, n)
               /\ step([m EXCEPT !.at = "rest", !.invoked = Invoke(c, n)])
  /\ UNCHANGED <<ident, owners, copies>>

Record(i) ==
  /\ consumer[i].at = "record" /\ hub.token = i
  /\ hub' = Effect(i)
  /\ consumer' = [consumer EXCEPT ![i].at = "rest",
                                  ![i].pending = IF Valid(i) THEN None ELSE @]
  /\ Fine /\ UNCHANGED <<ident, owners, copies, sdk, sends>>

-----------------------------------------------------------------------------
(* The extension: who owns the inbox of a manager. *)

\* stop of a copy: its timer, its consumer and its ownership.
StopCopy(x) ==
  LET s == copies[x].manager  i == copies[x].id IN
  /\ IF i # 0 /\ consumer[i].at # "stopped" THEN Stopping(i) ELSE UNCHANGED <<consumer, hub>>
  /\ copies' = [copies EXCEPT ![x] = Off]
  /\ owners' = [o \in Session |-> IF o = s /\ owners[o] = x THEN None ELSE owners[o]]

Shutdown(x) ==
  /\ copies[x] # Off /\ StopCopy(x)
  /\ Move /\ UNCHANGED <<ident, sdk, sends>>

BugFree(o, s) == TRUE

\* owners.has: another copy owns this manager.
Free(o, s) == o[s] = None

(* session_start and session_tree. *)
Start(x, s) ==
  /\ Move
  /\ LET i == copies[x].id  was == copies[x].manager
         freed == [o \in Session |-> IF o = was /\ owners[o] = x THEN None ELSE owners[o]]
     IN /\ IF i # 0 /\ consumer[i].at # "stopped" THEN Stopping(i) ELSE UNCHANGED <<consumer, hub>>
        /\ IF Free(freed, s)
           THEN /\ owners' = [freed EXCEPT ![s] = x]
                /\ copies' = [copies EXCEPT ![x] = [manager |-> s, timer |-> "attempt", id |-> 0]]
           ELSE owners' = freed /\ copies' = [copies EXCEPT ![x] = Off]
  /\ UNCHANGED <<ident, sdk, sends>>

(* attempt: a consumer for the identity that is published now. *)
Attempt(x) ==
  LET s == copies[x].manager IN
  /\ copies[x].timer = "attempt" /\ ident[s] # 0
  /\ consumer' = Append(consumer, [host |-> s, gen |-> ident[s], at |-> "rest", token |-> FALSE,
                                   pending |-> None, invoked |-> {}])
  /\ copies' = [copies EXCEPT ![x].timer = "watch", ![x].id = Len(consumer) + 1]
  /\ Fine /\ UNCHANGED <<ident, owners, hub, sdk, sends>>

BugWatched(x) == FALSE

\* watch: the consumer stopped for good, and the manager is still this copy's.
Watched(x) == consumer[copies[x].id].at = "stopped" /\ owners[copies[x].manager] = x

Watch(x) ==
  /\ copies[x].timer = "watch" /\ Watched(x)
  /\ copies' = [copies EXCEPT ![x].timer = "attempt", ![x].id = 0]
  /\ Fine /\ UNCHANGED <<ident, owners, consumer, hub, sdk, sends>>

-----------------------------------------------------------------------------
(* The publisher of identities, and the SDK. *)

(* publish: an identity of its own each time, and one in the process. *)
Publish(s) ==
  /\ Move
  /\ ident' = [o \in Session |-> IF o = s THEN moves + 1 ELSE 0]
  /\ UNCHANGED <<owners, copies, consumer, hub, sdk, sends>>

(* clear at the publisher's stop. *)
Withdraw(s) ==
  /\ Move /\ ident[s] # 0
  /\ ident' = [ident EXCEPT ![s] = 0]
  /\ UNCHANGED <<owners, copies, consumer, hub, sdk, sends>>

(* A queued note is injected; what is in memory is written to the file. *)
Inject(s, n) ==
  /\ n \in sdk[s].queue
  /\ sdk' = [sdk EXCEPT ![s].queue = @ \ {n}, ![s].memory = @ \cup {n}]
  /\ Fine /\ UNCHANGED <<ident, owners, copies, consumer, hub, sends>>

Persist(s) ==
  /\ sdk[s].file # sdk[s].memory
  /\ sdk' = [sdk EXCEPT ![s].file = sdk[s].memory]
  /\ Fine /\ UNCHANGED <<ident, owners, copies, consumer, hub, sends>>

Own ==
  \/ \E i \in Ids : Tick(i) \/ RequestFails(i) \/ Register(i) \/ Poll(i) \/ Record(i)
  \/ \E x \in Copy : Attempt(x) \/ Watch(x)
  \/ \E s \in Session : Persist(s) \/ \E n \in Note : Inject(s, n)
Next ==
  \/ Own
  \/ \E x \in Copy : Shutdown(x) \/ \E s \in Session : Start(x, s)
  \/ \E s \in Session : Publish(s) \/ Withdraw(s)

Fairness == WF_vars(Own)
Spec == Init /\ [][Next]_vars /\ Fairness

-----------------------------------------------------------------------------
(* No consumer sends a note twice, whatever requests were lost around it,  *)
(* and none sends what the session already has.                            *)
NeverSentAgain ==
  /\ \A j, k \in DOMAIN sends :
       sends[j].by = sends[k].by /\ sends[j].note = sends[k].note => j = k
  /\ \A k \in DOMAIN sends : ~sends[k].known

(* A note never reaches another session than the one it is addressed to,   *)
(* nor that one under an identity that was withdrawn during a request.     *)
RightSession ==
  \A k \in DOMAIN sends : /\ To[sends[k].note] = sends[k].to
                          /\ sends[k].ident = consumer[sends[k].by].gen

(* A receipt is recorded only for what is in the session's file. *)
ReceiptIsDurable == \A n \in hub.recorded : n \in sdk[To[n]].file

(* No manager has two consumers at work, copies of the extension or not,   *)
(* and a consumer at work is that of the manager's owner.                  *)
OneConsumer ==
  \A i \in Ids : consumer[i].at # "stopped"
    => \E x \in Copy : copies[x].id = i /\ owners[consumer[i].host] = x

InboxSound == TypeOK /\ NeverSentAgain /\ RightSession /\ ReceiptIsDurable /\ OneConsumer

(* A session whose identity is published and whose manager has an owner    *)
(* gets a registered consumer again, and its notes are taken, unless one   *)
(* is withheld.                                                            *)
Ended ==
  \/ \E i \in Ids : consumer[i].at = "withheld"
  \/ \A s \in Session : owners[s] # None /\ ident[s] # 0 =>
       \E i \in Ids : /\ consumer[i].host = s /\ Valid(i)
                      /\ consumer[i].at = "rest" /\ ~Due(i)
InboxEnds == []<>Ended
=============================================================================
