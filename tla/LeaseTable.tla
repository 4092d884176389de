----------------------------- MODULE LeaseTable -----------------------------
(***************************************************************************)
(* What one bucket of machine-wide launch slots promises: a fixed number   *)
(* of indices, each leased to at most one process.  An index is freed by   *)
(* the process that leases it, or, after that process died, by anyone.     *)
(* The lease of a live process is never taken away.                        *)
(*                                                                         *)
(* The slot-file protocol of src/src/subagents/machine-slots.ts implements *)
(* this table (module SlotFiles); the acquire loop runs on top of it.      *)
(***************************************************************************)
CONSTANTS Proc,     \* operating-system processes, by pid
          Index,    \* the slot numbers of the bucket
          Free,     \* an index without a slot file
          Unknown   \* an index whose slot file names nobody

VARIABLES owner,      \* index -> the pid its slot file names, Free or Unknown
          abandoned   \* indices whose owner died without giving them back

vars == <<owner, abandoned>>

Init == /\ owner \in [Index -> {Free, Unknown}]
        /\ abandoned = {}

\* A process leases a free index.
Acquire(p, i) == /\ owner[i] = Free
                 /\ owner' = [owner EXCEPT ![i] = p]
                 /\ UNCHANGED abandoned

\* The leasing process gives its index back.
Release(p, i) == /\ owner[i] = p
                 /\ i \notin abandoned
                 /\ owner' = [owner EXCEPT ![i] = Free]
                 /\ UNCHANGED abandoned

\* A process dies: whatever it leases is abandoned.
Crash(p) == /\ abandoned' = abandoned \cup {i \in Index : owner[i] = p}
            /\ UNCHANGED owner

\* An abandoned index is cleared.
Reclaim(i) == /\ i \in abandoned
              /\ owner' = [owner EXCEPT ![i] = Free]
              /\ abandoned' = abandoned \ {i}

Next == \/ \E p \in Proc : \/ Crash(p)
                           \/ \E i \in Index : Acquire(p, i) \/ Release(p, i)
        \/ \E i \in Index : Reclaim(i)

Spec == Init /\ [][Next]_vars
=============================================================================
