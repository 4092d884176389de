------------------------------ MODULE SlotFiles ------------------------------
(***************************************************************************)
(* The slot files of one bucket of machine-wide launch slots               *)
(* (src/src/subagents/machine-slots.ts: readStamp, publishStamp,           *)
(* acquireClaim, releaseLease, trySlot, tryBucket).                        *)
(*                                                                         *)
(* Processes share a directory and nothing else.  Every step below is one  *)
(* file-system call (or one pid probe), which is the grain at which        *)
(* processes interleave; inside one process the code is synchronous, so a  *)
(* process is in one call at a time.  A process may die between any two    *)
(* steps, and the operating system may give its pid to a new process.      *)
(*                                                                         *)
(* A stamp is the pid that wrote it and a nonce.  The owner metadata and   *)
(* the acquisition time that a stamp also carries play no part in any      *)
(* decision (sameHolder compares them, but the nonce decides alone), and   *)
(* the private temp file a stamp is linked from is invisible to peers.     *)
(***************************************************************************)
EXTENDS Naturals, FiniteSets

CONSTANTS Proc,        \* processes, by pid
          Cap,         \* slot indices of the bucket
          Nonce,       \* random UUIDs: a pool large enough never to run out
          NoFile,      \* readStamp: ENOENT
          Unreadable   \* readStamp: present, but not a holder stamp

ASSUME CapAssumption == Cap \in Nat \ {0}
ASSUME FileAssumption == /\ NoFile # Unreadable
                         /\ NoFile \notin Proc /\ Unreadable \notin Proc
                         /\ NoFile \notin [pid : Proc, nonce : Nonce]
                         /\ Unreadable \notin [pid : Proc, nonce : Nonce]

Index == 0 .. Cap - 1
Stamp == [pid : Proc, nonce : Nonce]
File == Stamp \cup {NoFile, Unreadable}
Lease == [index : Index, stamp : Stamp]

VARIABLES
  slot,       \* index -> contents of <i>.lock
  claim,      \* index -> contents of <i>.lock.claim
  pc,         \* process -> the call it is about to make; "dead" when it is gone
  at,         \* process -> the index trySlot, or the release, works on
  observed,   \* process -> the stamp trySlot read before taking the claim
  mine,       \* process -> the lease stamp it published under its claim
  claimed,    \* process -> the claim stamp it published
  outcome,    \* process -> what trySlot does once its claim is gone
  held        \* process -> leases whose release function it still owes a call

vars == <<slot, claim, pc, at, observed, mine, claimed, outcome, held>>

files == <<slot, claim>>
scratch == <<observed, mine, claimed, outcome>>   \* trySlot's local variables

Labels == {"idle", "readClaim", "readSlot", "probe", "publishFree",
           "publishClaim", "recheck", "unlink", "publish", "verify",
           "readOwnClaim", "unlinkClaim", "unlinkLease", "dead"}

\* The calls made while the process holds the reclaim claim of at[p].
Critical == {"recheck", "unlink", "publish", "verify", "readOwnClaim", "unlinkClaim"}

Alive(p) == pc[p] # "dead"

Init == /\ slot \in [Index -> {NoFile, Unreadable}]
        /\ claim = [i \in Index |-> NoFile]
        /\ pc = [p \in Proc |-> "idle"]
        /\ at = [p \in Proc |-> 0]
        /\ observed = [p \in Proc |-> NoFile]
        /\ mine = [p \in Proc |-> NoFile]
        /\ claimed = [p \in Proc |-> NoFile]
        /\ outcome = [p \in Proc |-> "none"]
        /\ held = [p \in Proc |-> {}]

-----------------------------------------------------------------------------
(* Helpers.                                                                *)

\* randomUUID: a stamp that nobody has ever seen, on disk or in memory.
FreshStamp(p) ==
  {s \in Stamp : /\ s.pid = p
                 /\ \A i \in Index : slot[i] # s /\ claim[i] # s
                 /\ \A q \in Proc : /\ observed[q] # s /\ mine[q] # s /\ claimed[q] # s
                                    /\ \A l \in held[q] : l.stamp # s}

\* holderIsReclaimable: the file is a stamp and its pid is provably gone.
Reclaimable(f) == f \in Stamp /\ ~Alive(f.pid)

Goto(p, label) == pc' = [pc EXCEPT ![p] = label]

\* The local variables of trySlot go out of scope.
Forget(p) == /\ observed' = [observed EXCEPT ![p] = NoFile]
             /\ mine' = [mine EXCEPT ![p] = NoFile]
             /\ claimed' = [claimed EXCEPT ![p] = NoFile]
             /\ outcome' = [outcome EXCEPT ![p] = "none"]

\* tryBucket is over.
Leave(p) == Forget(p) /\ UNCHANGED at /\ Goto(p, "idle")

\* trySlot returned undefined: tryBucket's loop goes on to the next index.
NextIndex(p) == IF at[p] + 1 < Cap
                THEN /\ Forget(p)
                     /\ at' = [at EXCEPT ![p] = at[p] + 1]
                     /\ Goto(p, "readClaim")
                ELSE Leave(p)

-----------------------------------------------------------------------------
(* tryBucket and trySlot.                                                  *)

TryBucket(p) == /\ pc[p] = "idle"
                /\ at' = [at EXCEPT ![p] = 0]
                /\ Goto(p, "readClaim")
                /\ UNCHANGED <<files, scratch, held>>

\* A claim, even an abandoned one, parks the index.
ReadClaim(p) == /\ pc[p] = "readClaim"
                /\ \/ claim[at[p]] # NoFile /\ NextIndex(p)
                   \/ claim[at[p]] = NoFile /\ Goto(p, "readSlot") /\ UNCHANGED <<at, scratch>>
                /\ UNCHANGED <<files, held>>

ReadSlot(p) == /\ pc[p] = "readSlot"
               /\ observed' = [observed EXCEPT ![p] = slot[at[p]]]
               /\ Goto(p, IF slot[at[p]] = NoFile THEN "publishFree" ELSE "probe")
               /\ UNCHANGED <<files, at, mine, claimed, outcome, held>>

\* pidStatus of the holder read above; an unreadable stamp is left alone.
Probe(p) == /\ pc[p] = "probe"
            /\ \/ /\ Reclaimable(observed[p])
                  /\ Goto(p, "publishClaim")
                  /\ UNCHANGED <<at, scratch>>
               \/ ~Reclaimable(observed[p]) /\ NextIndex(p)
            /\ UNCHANGED <<files, held>>

\* Seeded bug: rename instead of link, which replaces a file already there.
BugClobber(p) ==
  /\ pc[p] = "publishFree"
  /\ \E s \in FreshStamp(p) :
       /\ slot' = [slot EXCEPT ![at[p]] = s]
       /\ held' = [held EXCEPT ![p] = @ \cup {[index |-> at[p], stamp |-> s]}]
  /\ Leave(p)
  /\ UNCHANGED claim

\* link(2) onto a slot path seen empty: it fails if a peer was faster.
PublishFree(p) ==
  /\ pc[p] = "publishFree"
  /\ \/ /\ slot[at[p]] = NoFile
        /\ \E s \in FreshStamp(p) :
             /\ slot' = [slot EXCEPT ![at[p]] = s]
             /\ held' = [held EXCEPT ![p] = @ \cup {[index |-> at[p], stamp |-> s]}]
        /\ Leave(p)
     \/ /\ slot[at[p]] # NoFile
        /\ NextIndex(p)
        /\ UNCHANGED <<slot, held>>
  /\ UNCHANGED claim

\* acquireClaim: the single-winner claim of the index.
PublishClaim(p) ==
  /\ pc[p] = "publishClaim"
  /\ \/ /\ claim[at[p]] = NoFile
        /\ \E s \in FreshStamp(p) :
             /\ claim' = [claim EXCEPT ![at[p]] = s]
             /\ claimed' = [claimed EXCEPT ![p] = s]
        /\ Goto(p, "recheck")
        /\ UNCHANGED <<at, observed, mine, outcome>>
     \/ claim[at[p]] # NoFile /\ NextIndex(p) /\ UNCHANGED claim
  /\ UNCHANGED <<slot, held>>

\* Seeded bug: the stamp is not compared with the one observed before.
BugNoRecheck(p) == /\ pc[p] = "recheck"
                   /\ Goto(p, IF slot[at[p]] = NoFile THEN "publish" ELSE "unlink")
                   /\ UNCHANGED <<files, at, scratch, held>>

\* Seeded bug: a lost race returns without going through the finally block.
BugSkipFinally(p) == /\ pc[p] = "recheck"
                     /\ \/ slot[at[p]] = NoFile /\ Goto(p, "publish") /\ UNCHANGED <<at, scratch>>
                        \/ /\ slot[at[p]] # NoFile /\ slot[at[p]] = observed[p]
                           /\ Goto(p, "unlink") /\ UNCHANGED <<at, scratch>>
                        \/ slot[at[p]] \notin {NoFile, observed[p]} /\ Leave(p)
                     /\ UNCHANGED <<files, held>>

\* Under the claim: only the stale stamp observed before may be removed.
Recheck(p) == /\ pc[p] = "recheck"
              /\ Goto(p, CASE slot[at[p]] = NoFile -> "publish"
                           [] slot[at[p]] # NoFile /\ slot[at[p]] = observed[p] -> "unlink"
                           [] OTHER -> "readOwnClaim")
              /\ UNCHANGED <<files, at, scratch, held>>

\* Seeded bug: the claim is given up before the new stamp is published.
BugPublishUnclaimed(p) == /\ pc[p] = "unlink"
                          /\ slot' = [slot EXCEPT ![at[p]] = NoFile]
                          /\ claim' = [claim EXCEPT ![at[p]] = NoFile]
                          /\ Goto(p, "publish")
                          /\ UNCHANGED <<at, scratch, held>>

Unlink(p) == /\ pc[p] = "unlink"
             /\ slot' = [slot EXCEPT ![at[p]] = NoFile]
             /\ Goto(p, "publish")
             /\ UNCHANGED <<claim, at, scratch, held>>

Publish(p) ==
  /\ pc[p] = "publish"
  /\ \/ /\ slot[at[p]] = NoFile
        /\ \E s \in FreshStamp(p) : /\ slot' = [slot EXCEPT ![at[p]] = s]
                                    /\ mine' = [mine EXCEPT ![p] = s]
        /\ Goto(p, "verify")
     \/ /\ slot[at[p]] # NoFile   \* a peer published while the path was free
        /\ Goto(p, "readOwnClaim")
        /\ UNCHANGED <<slot, mine>>
  /\ UNCHANGED <<claim, at, observed, claimed, outcome, held>>

\* Never report a lease that cannot be proved.
Verify(p) == /\ pc[p] = "verify"
             /\ outcome' = [outcome EXCEPT ![p] = IF slot[at[p]] = mine[p] THEN "won" ELSE "none"]
             /\ Goto(p, "readOwnClaim")
             /\ UNCHANGED <<files, at, observed, mine, claimed, held>>

\* trySlot ends: with the lease, with undefined, or with the error thrown.
Return(p) == \/ /\ outcome[p] = "won"
                /\ held' = [held EXCEPT ![p] = @ \cup {[index |-> at[p], stamp |-> mine[p]]}]
                /\ Leave(p)
             \/ outcome[p] = "none" /\ NextIndex(p) /\ UNCHANGED held
             \/ outcome[p] = "error" /\ Leave(p) /\ UNCHANGED held

\* releaseClaim: remove the claim only while it is still the one published.
ReadOwnClaim(p) == /\ pc[p] = "readOwnClaim"
                   /\ IF claim[at[p]] = claimed[p]
                      THEN Goto(p, "unlinkClaim") /\ UNCHANGED <<at, scratch, held>>
                      ELSE Return(p)
                   /\ UNCHANGED files

UnlinkClaim(p) == /\ pc[p] = "unlinkClaim"
                  /\ claim' = [claim EXCEPT ![at[p]] = NoFile]
                  /\ Return(p)
                  /\ UNCHANGED slot

\* publishStamp throws (no space, no permission): the error leaves tryBucket,
\* through trySlot's finally when the process holds the claim.
PublishError(p) ==
  /\ \/ pc[p] \in {"publishFree", "publishClaim"} /\ Leave(p)
     \/ /\ pc[p] = "publish"
        /\ outcome' = [outcome EXCEPT ![p] = "error"]
        /\ Goto(p, "readOwnClaim")
        /\ UNCHANGED <<at, observed, mine, claimed>>
  /\ UNCHANGED <<files, held>>

-----------------------------------------------------------------------------
(* releaseLease, and the life of a process.                                *)

\* Reads the slot; only the exact stamp of this lease is unlinked next.
ReleaseLease(p) ==
  /\ pc[p] = "idle"
  /\ \E l \in held[p] :
       IF slot[l.index] = l.stamp
       THEN /\ at' = [at EXCEPT ![p] = l.index]
            /\ Goto(p, "unlinkLease")
            /\ UNCHANGED held
       ELSE /\ held' = [held EXCEPT ![p] = @ \ {l}]
            /\ UNCHANGED <<at, pc>>
  /\ UNCHANGED <<files, scratch>>

UnlinkLease(p) == /\ pc[p] = "unlinkLease"
                  /\ slot' = [slot EXCEPT ![at[p]] = NoFile]
                  /\ held' = [held EXCEPT ![p] = {l \in @ : l.index # at[p]}]
                  /\ Goto(p, "idle")
                  /\ UNCHANGED <<claim, at, scratch>>

\* A process dies with whatever it was doing; its files stay.
Crash(p) == /\ Alive(p)
            /\ Goto(p, "dead")
            /\ at' = [at EXCEPT ![p] = 0]
            /\ Forget(p)
            /\ held' = [held EXCEPT ![p] = {}]
            /\ UNCHANGED files

\* A new process starts under a pid that was in use before.
Restart(p) == /\ ~Alive(p)
              /\ Goto(p, "idle")
              /\ UNCHANGED <<files, at, scratch, held>>

Step(p) == \/ ReadClaim(p) \/ ReadSlot(p) \/ Probe(p) \/ PublishFree(p)
           \/ PublishClaim(p) \/ Recheck(p) \/ Unlink(p) \/ Publish(p)
           \/ Verify(p) \/ ReadOwnClaim(p) \/ UnlinkClaim(p) \/ UnlinkLease(p)

Next == \E p \in Proc : \/ Step(p) \/ TryBucket(p) \/ ReleaseLease(p)
                        \/ PublishError(p) \/ Crash(p) \/ Restart(p)

Spec == Init /\ [][Next]_vars

\* A started call runs on unless its process dies; a process that waits for a
\* slot calls tryBucket again and again (the retry loop of acquire); and the
\* storage does not refuse the same claim for ever.
Fairness == \A p \in Proc : /\ WF_vars(Step(p)) /\ WF_vars(TryBucket(p))
                            /\ SF_vars(PublishClaim(p))
FairSpec == Spec /\ Fairness
-----------------------------------------------------------------------------
(* Properties.                                                             *)

TypeOK == /\ slot \in [Index -> File]
          /\ claim \in [Index -> Stamp \cup {NoFile}]
          /\ pc \in [Proc -> Labels]
          /\ at \in [Proc -> Index]
          /\ observed \in [Proc -> File]
          /\ mine \in [Proc -> Stamp \cup {NoFile}]
          /\ claimed \in [Proc -> Stamp \cup {NoFile}]
          /\ outcome \in [Proc -> {"none", "won", "error"}]
          /\ held \in [Proc -> SUBSET Lease]

\* No index is leased twice: every lease a process may still release is the
\* only one of its index, whatever reclaimers and crashes interleave with it.
\* This is what bounds the workers of all sessions on the machine by Cap.
OneHolder == \A p, q \in Proc : \A l \in held[p], m \in held[q] :
               l.index = m.index => p = q /\ l = m

\* A lease is backed by its file: while a process counts on a lease, the slot
\* file carries exactly its stamp, so no peer removed or replaced it.
LeaseBacked == \A p \in Proc : \A l \in held[p] : slot[l.index] = l.stamp

\* The reclaim critical section of an index has one process in it, and the
\* claim file it will remove is its own.
ClaimExclusive == \A p, q \in Proc :
                    pc[p] \in Critical /\ pc[q] \in Critical /\ at[p] = at[q] => p = q

\* What a reclaimer is about to unlink is the lease of nobody alive: it still
\* is the stale stamp it probed before it took the claim.
UnlinksOnlyAbandoned ==
  \A p \in Proc : pc[p] = "unlink" =>
    /\ slot[at[p]] = observed[p]
    /\ \A q \in Proc : mine[q] # slot[at[p]] /\ \A l \in held[q] : l.stamp # slot[at[p]]

\* A reclaim that was not cut short by a crash leaves no claim behind: losing
\* the race, or a failed publish, must not park the index for good.
ClaimReturned ==
  [][\A p \in Proc : pc[p] \in Critical /\ pc'[p] \notin Critical \cup {"dead"}
                       => claim'[at[p]] = NoFile]_vars

\* The slot files implement the abstract table of leases.  An index whose
\* stamp belongs to no lease of its process is abandoned; only a crash may
\* make one, and a live process's lease leaves the table only by Release.
LeasedBy(p, i) == \/ \E l \in held[p] : l.index = i /\ l.stamp = slot[i]
                  \/ mine[p] = slot[i] /\ at[p] = i
Owner == [i \in Index |-> IF slot[i] \in Stamp THEN slot[i].pid ELSE slot[i]]
Abandoned == {i \in Index : slot[i] \in Stamp /\ ~LeasedBy(slot[i].pid, i)}
Table == INSTANCE LeaseTable WITH Free <- NoFile, Unknown <- Unreadable,
                                  owner <- Owner, abandoned <- Abandoned
ImplementsTable == Table!Spec

\* A claim nobody will remove: its process died inside the critical section.
Parked(i) == claim[i] # NoFile /\ \A p \in Proc : claimed[p] # claim[i]

\* tryBucket ends, whatever peers do: it never waits for one of them.
TryBucketReturns == \A p \in Proc : pc[p] = "readClaim" ~> pc[p] \in {"idle", "dead"}

\* A crashed holder's first slot is cleared as long as a process keeps trying,
\* unless a crashed reclaimer parked it or a new process has the same pid.
StaleSlotReclaimed ==
  slot[0] \in Stamp /\ ~Alive(slot[0].pid)
    ~> \/ slot[0] \notin Stamp \/ Alive(slot[0].pid)
       \/ Parked(0) \/ \A p \in Proc : ~Alive(p)


-----------------------------------------------------------------------------
(* The inductive invariant behind the safety properties.                   *)

\* A stamp that no process counts on as its lease.
Orphan(s) == \A p \in Proc : mine[p] # s /\ \A l \in held[p] : l.stamp # s

\* The stamps a process goes by carry its own pid.
StampsOwn == \A p \in Proc : /\ mine[p] # NoFile => mine[p].pid = p
                             /\ claimed[p] # NoFile => claimed[p].pid = p
                             /\ \A l \in held[p] : l.stamp.pid = p

\* A process goes by a stamp published under its claim only from the publish
\* to the end of the critical section, and then reports it.
Tidy == \A p \in Proc :
          /\ pc[p] \notin {"verify", "readOwnClaim", "unlinkClaim"} => mine[p] = NoFile
          /\ pc[p] \in {"readOwnClaim", "unlinkClaim"} =>
               (outcome[p] = "won" <=> mine[p] # NoFile)
          /\ pc[p] = "dead" => held[p] = {}

\* In its critical section a process owns the claim file of the index.
ClaimOwned == \A p \in Proc : pc[p] \in Critical =>
                claimed[p] \in Stamp /\ claim[at[p]] = claimed[p]

\* The slot file of a lease, and of a stamp just published, is in place.
Backed == /\ LeaseBacked
          /\ \A p \in Proc : mine[p] # NoFile => slot[at[p]] = mine[p]

\* The file a release is about to unlink is a lease of that process.
Releasing == \A p \in Proc : pc[p] = "unlinkLease" => \E l \in held[p] : l.index = at[p]

\* From the probe on, the observed stamp is the lease of nobody; and it is what
\* an unlink under the claim removes.
Stale == \A p \in Proc :
           /\ pc[p] \in {"publishClaim", "recheck", "unlink"} =>
                observed[p] \in Stamp /\ Orphan(observed[p])
           /\ pc[p] = "unlink" => slot[at[p]] = observed[p]

\* The invariant the proofs establish: together the parts are inductive.
IInv == StampsOwn /\ Tidy /\ ClaimOwned /\ Backed /\ Releasing /\ Stale

\* With the types: leases are backed by files that only their own process and,
\* once it is dead, the one reclaimer that owns the claim of the index removes.
Inductive == TypeOK /\ IInv
=============================================================================
