---------------------------- MODULE CheckpointLock ----------------------------
(***************************************************************************)
(* Who may write the checkpoints of one session                            *)
(* (src/src/subagents/checkpoints.ts: the constructor and close of         *)
(* CheckpointStore).  The directory holds owner.json, the lock, and        *)
(* .claim, a directory that serialises looking at the lock and replacing   *)
(* it.                                                                     *)
(*                                                                         *)
(* The actors are JavaScript isolates: a process, or a worker thread that  *)
(* shares its pid but not its memory.  Each step is one file-system call   *)
(* or pid probe.  A process may die between any two steps, and its pid may *)
(* be given to a new one.                                                  *)
(***************************************************************************)
EXTENDS Naturals, FiniteSets

CONSTANTS Pid,        \* processes, each the set of its JavaScript isolates
          Token,      \* random UUIDs: one per store ever built
          NoFile,     \* no owner.json
          Unreadable, \* owner.json that names nobody
          None        \* no token, nothing read yet

Isolate == UNION Pid
PidOf == [i \in Isolate |-> CHOOSE q \in Pid : i \in q]

Owner == [pid : Pid, token : Token]

ASSUME PidAssumption == \A p, q \in Pid : p # q => p \cap q = {}
ASSUME FileAssumption == /\ NoFile # Unreadable
                         /\ NoFile \notin Owner /\ Unreadable \notin Owner
                         /\ None \notin Token

VARIABLES
  lock,      \* contents of owner.json
  claim,     \* .claim exists
  pc,        \* isolate -> the call it is about to make; "dead" when it is gone
  prior,     \* isolate -> the owner record the constructor read
  own,       \* isolate -> token of the store being built or closed
  stores,    \* isolate -> tokens of stores that may write
  released   \* isolate -> tokens of the stores it closed (closedOwnerTokens)

vars == <<lock, claim, pc, prior, own, stores, released>>

Labels == {"idle", "look", "judge", "unlinkStale", "create", "write",
           "dropClaim", "readOwn", "unlinkOwn", "dead"}

\* The calls made between mkdir .claim and rmdir .claim.
Critical == {"look", "judge", "unlinkStale", "create", "write", "dropClaim"}

Alive(q) == \E i \in Isolate : PidOf[i] = q /\ pc[i] # "dead"

Init == /\ lock \in {NoFile, Unreadable}
        /\ claim = FALSE
        /\ pc = [i \in Isolate |-> "idle"]
        /\ prior = [i \in Isolate |-> NoFile]
        /\ own = [i \in Isolate |-> None]
        /\ stores = [i \in Isolate |-> {}]
        /\ released = [i \in Isolate |-> {}]

Goto(i, label) == pc' = [pc EXCEPT ![i] = label]

\* randomUUID: nobody has seen it, in a file or in memory.
FreshToken == {t \in Token : /\ \A i \in Isolate : t \notin stores[i] \cup released[i] \cup {own[i]}
                             /\ lock \in Owner => lock.token # t
                             /\ \A i \in Isolate : prior[i] \in Owner => prior[i].token # t}
-----------------------------------------------------------------------------
(* The constructor.                                                        *)

\* Seeded bug: a claim directory already there is not an error.
BugMakeClaim(i) == /\ pc[i] = "idle"
                   /\ claim' = TRUE
                   /\ \E t \in FreshToken : own' = [own EXCEPT ![i] = t]
                   /\ Goto(i, "look")
                   /\ UNCHANGED <<lock, prior, stores, released>>

\* mkdir .claim; when it is taken the constructor throws and nothing changed.
MakeClaim(i) == /\ pc[i] = "idle" /\ ~claim
                /\ claim' = TRUE
                /\ \E t \in FreshToken : own' = [own EXCEPT ![i] = t]
                /\ Goto(i, "look")
                /\ UNCHANGED <<lock, prior, stores, released>>

\* existsSync and readOwnerRecord; an unreadable record throws.
Look(i) == /\ pc[i] = "look"
           /\ prior' = [prior EXCEPT ![i] = lock]
           /\ Goto(i, CASE lock = NoFile -> "create"
                        [] lock = Unreadable -> "dropClaim"
                        [] OTHER -> "judge")
           /\ UNCHANGED <<lock, claim, own, stores, released>>

\* Seeded bug: an owner with this very pid is taken for a leftover.
BugReleased(i, o) == o.token \in released[i] \/ o.pid = PidOf[i]

\* The store that wrote the record was closed in this very isolate.
Released(i, o) == o.token \in released[i]

\* Seeded bug: a dead owner's record is never judged stale.
BugNeverStale(i) == /\ pc[i] = "judge"
                    /\ Goto(i, "dropClaim")
                    /\ UNCHANGED <<lock, claim, prior, own, stores, released>>

\* kill(pid, 0), and the tombstones: takeover needs proof of release.
Judge(i) == /\ pc[i] = "judge"
            /\ Goto(i, IF ~Alive(prior[i].pid) \/ Released(i, prior[i])
                       THEN "unlinkStale" ELSE "dropClaim")
            /\ UNCHANGED <<lock, claim, prior, own, stores, released>>

\* unlinkSync throws when the file is gone meanwhile.
UnlinkStale(i) == /\ pc[i] = "unlinkStale"
                  /\ lock' = NoFile
                  /\ Goto(i, IF lock = NoFile THEN "dropClaim" ELSE "create")
                  /\ UNCHANGED <<claim, prior, own, stores, released>>

\* open with O_EXCL: an empty file, until the record is written.
Create(i) == /\ pc[i] = "create"
             /\ \/ /\ lock = NoFile
                   /\ lock' = Unreadable
                   /\ Goto(i, "write")
                \/ /\ lock # NoFile
                   /\ Goto(i, "dropClaim")
                   /\ UNCHANGED lock
             /\ UNCHANGED <<claim, prior, own, stores, released>>

\* The record, or an error that leaves the empty file (no space).
Write(i) == /\ pc[i] = "write"
            /\ \/ /\ lock' = [pid |-> PidOf[i], token |-> own[i]]
                  /\ stores' = [stores EXCEPT ![i] = @ \cup {own[i]}]
               \/ UNCHANGED <<lock, stores>>
            /\ Goto(i, "dropClaim")
            /\ UNCHANGED <<claim, prior, own, released>>

\* Seeded bug: rmdir is skipped when the constructor throws.
BugClaimKept(i) == /\ pc[i] = "dropClaim"
                   /\ claim' = (own[i] \notin stores[i])
                   /\ own' = [own EXCEPT ![i] = None]
                   /\ prior' = [prior EXCEPT ![i] = NoFile]
                   /\ Goto(i, "idle")
                   /\ UNCHANGED <<lock, stores, released>>

\* finally { rmdirSync(claim) }
DropClaim(i) == /\ pc[i] = "dropClaim"
                /\ claim' = FALSE
                /\ own' = [own EXCEPT ![i] = None]
                /\ prior' = [prior EXCEPT ![i] = NoFile]
                /\ Goto(i, "idle")
                /\ UNCHANGED <<lock, stores, released>>
-----------------------------------------------------------------------------
(* close, and the life of a process.                                       *)

\* The tombstone comes first: the store will not write again.
Close(i) == /\ pc[i] = "idle"
            /\ \E t \in stores[i] :
                 /\ stores' = [stores EXCEPT ![i] = @ \ {t}]
                 /\ released' = [released EXCEPT ![i] = @ \cup {t}]
                 /\ own' = [own EXCEPT ![i] = t]
            /\ Goto(i, "readOwn")
            /\ UNCHANGED <<lock, claim, prior>>

\* Only a record with this store's token is removed; a failed read leaves it.
ReadOwn(i) == /\ pc[i] = "readOwn"
              /\ \/ /\ lock \in Owner /\ lock.token = own[i]
                    /\ Goto(i, "unlinkOwn")
                    /\ UNCHANGED own
                 \/ /\ Goto(i, "idle")
                    /\ own' = [own EXCEPT ![i] = None]
              /\ UNCHANGED <<lock, claim, prior, stores, released>>

UnlinkOwn(i) == /\ pc[i] = "unlinkOwn"
                /\ lock' = NoFile
                /\ own' = [own EXCEPT ![i] = None]
                /\ Goto(i, "idle")
                /\ UNCHANGED <<claim, prior, stores, released>>

\* A process dies with all its isolates; its files stay.
Crash(q) == LET gone(i) == PidOf[i] = q
            IN /\ Alive(q)
               /\ pc' = [i \in Isolate |-> IF gone(i) THEN "dead" ELSE pc[i]]
               /\ prior' = [i \in Isolate |-> IF gone(i) THEN NoFile ELSE prior[i]]
               /\ own' = [i \in Isolate |-> IF gone(i) THEN None ELSE own[i]]
               /\ stores' = [i \in Isolate |-> IF gone(i) THEN {} ELSE stores[i]]
               /\ released' = [i \in Isolate |-> IF gone(i) THEN {} ELSE released[i]]
               /\ UNCHANGED <<lock, claim>>

\* A new process has a pid that was in use before.
Restart(q) == /\ \A i \in Isolate : PidOf[i] = q => pc[i] = "dead"
              /\ pc' = [i \in Isolate |-> IF PidOf[i] = q THEN "idle" ELSE pc[i]]
              /\ UNCHANGED <<lock, claim, prior, own, stores, released>>

Step(i) == \/ Look(i) \/ Judge(i) \/ UnlinkStale(i) \/ Create(i) \/ Write(i)
           \/ DropClaim(i) \/ ReadOwn(i) \/ UnlinkOwn(i)

Next == \/ \E i \in Isolate : MakeClaim(i) \/ Step(i) \/ Close(i)
        \/ \E q \in Pid : Crash(q) \/ Restart(q)

Spec == Init /\ [][Next]_vars

\* A call that was started goes on, and an isolate without a store tries again.
FairSpec == Spec /\ \A i \in Isolate : WF_vars(Step(i)) /\ SF_vars(stores[i] = {} /\ MakeClaim(i))
-----------------------------------------------------------------------------
(* Properties.                                                             *)

TypeOK == /\ lock \in Owner \cup {NoFile, Unreadable}
          /\ claim \in BOOLEAN
          /\ pc \in [Isolate -> Labels]
          /\ prior \in [Isolate -> Owner \cup {NoFile, Unreadable}]
          /\ own \in [Isolate -> Token \cup {None}]
          /\ \A i \in Isolate : own[i] = None <=> pc[i] \in {"idle", "dead"}
          /\ stores \in [Isolate -> SUBSET Token]
          /\ released \in [Isolate -> SUBSET Token]

\* One store at a time may write the session's checkpoints: over all processes,
\* worker threads and duplicate extension resources, whatever was taken over.
OneWriter == \A i, j \in Isolate : \A s \in stores[i], t \in stores[j] : i = j /\ s = t

\* A store that may write is the one the lock names: nobody else can mistake
\* the directory for free, and its own close will find it.
LockNamesWriter == \A i \in Isolate : \A t \in stores[i] :
                     lock = [pid |-> PidOf[i], token |-> t]

\* The record about to be removed as stale is still the one that was judged,
\* or is gone already; it is never the record of a store that may write.
RemovesOnlyStale ==
  \A i \in Isolate : pc[i] = "unlinkStale" =>
    /\ lock \in {NoFile, prior[i]}
    /\ \A j \in Isolate : \A t \in stores[j] : lock # [pid |-> PidOf[j], token |-> t]

\* A constructor that ends, in success or in error, gives the claim back: only a
\* crash may leave it, which then needs the operator.
ClaimReturned == [][\A i \in Isolate : pc[i] \in Critical /\ pc'[i] \notin Critical \cup {"dead"}
                                         => ~claim']_vars

\* A crash between mkdir and rmdir left the claim: nothing removes it any more.
Parked == claim /\ \A i \in Isolate : pc[i] \notin Critical

\* The lock of a process that died is replaced as long as an isolate tries:
\* unless a crash left the claim behind, or the pid is alive again.
DeadOwnerReplaced ==
  lock \in Owner /\ ~Alive(lock.pid)
    ~> \/ lock \notin Owner \/ Alive(lock.pid)
       \/ Parked \/ FreshToken = {} \/ \A i \in Isolate : pc[i] = "dead"
-----------------------------------------------------------------------------
(* The inductive invariant behind the safety properties.                   *)

\* The claim directory stands while an isolate is between mkdir and rmdir, and
\* only one isolate is.
Claimed == /\ \A i \in Isolate : pc[i] \in Critical => claim
           /\ \A i, j \in Isolate : pc[i] \in Critical /\ pc[j] \in Critical => i = j

\* A dead isolate has nothing; the token being built or closed is no store yet,
\* or no longer; and a closed store stays closed.
Tidy == \A i \in Isolate :
          /\ pc[i] = "dead" => stores[i] = {}
          /\ pc[i] \in Labels \ {"idle", "dead", "dropClaim"} =>
               own[i] \in Token /\ own[i] \notin stores[i]
          /\ stores[i] \cap released[i] = {}
          /\ pc[i] \in Critical => own[i] \notin released[i]

\* A token belongs to the isolate that drew it.
Known(i) == stores[i] \cup released[i] \cup ({own[i]} \ {None})
TokenOwned == \A i, j \in Isolate : i # j => Known(i) \cap Known(j) = {}

\* The record a takeover goes by is in place until its owner removes it, and
\* once judged it is that of no store that may write.
Stale == \A i \in Isolate :
           /\ pc[i] \in {"judge", "unlinkStale"} =>
                prior[i] \in Owner /\ lock \in {NoFile, prior[i]}
           /\ pc[i] = "unlinkStale" =>
                \A j \in Isolate : /\ prior[i].token \notin stores[j]
                                   /\ pc[j] \in {"readOwn", "unlinkOwn"} => prior[i].token # own[j]

\* Between the open and the write the lock is this isolate's empty file.
Creating == \A i \in Isolate : pc[i] = "write" => lock = Unreadable

\* The record stays in place until the close that is under way removes it.
Closing == \A i \in Isolate : pc[i] \in {"readOwn", "unlinkOwn"} =>
             lock = [pid |-> PidOf[i], token |-> own[i]]

\* The invariant the proofs establish: together the parts are inductive.
IInv == Claimed /\ Tidy /\ TokenOwned /\ LockNamesWriter /\ Stale /\ Creating /\ Closing

\* With the types: owner.json names the store that may write, its token is in
\* one isolate only, and a takeover goes by a record that nobody counts on.
Inductive == TypeOK /\ IInv
=============================================================================
