---------------------------- MODULE MeteredGate -----------------------------
(***************************************************************************)
(* The gate before a metered route (src/subscription-first-routing.ts,     *)
(* opencode-go-routing.ts, explicit-paid-route.ts): it opens for a route   *)
(* the operator reviewed and allowlisted, or while the subscription plan   *)
(* has proved itself spent.  Requests to the plan run beside those to      *)
(* metered routes, in any order; each begins by taking back every grant.   *)
(***************************************************************************)
EXTENDS Naturals, FiniteSets

CONSTANTS
  Attempt,  \* requests to the subscription plan
  Paid,     \* requests to the metered route
  Key,      \* the plan's keys
  Grant,    \* how long proven exhaustion counts
  MaxTime,  \* bound: the clock
  MaxEdits  \* bound: edits of the paid-route file or the plan's key

VARIABLES
  now,
  key,        \* the plan's key in use, "none" when no plan is configured
  reviewed, allowed,  \* the metered route in the operator's two tables
  spent,      \* each key's grant ends at, 0 for none
  generation, \* attempts begun
  attempt,    \* each attempt: [at : "new" | "running" | "done", gen, key]
  paid,       \* each metered request: [at, key]
  edits,
  proof       \* ghost: the last thing the newest attempt has shown, and of
              \* which key: [key, said : "nothing" | "spent" | "other"]

vars == << now, key, reviewed, allowed, spent, generation, attempt, paid,
           edits, proof >>

NoKey == "none"
PaidAt == {"new", "auth", "key", "checked", "called", "denied"}

TypeOK ==
  /\ now \in 0..MaxTime /\ key \in Key \cup {NoKey}
  /\ reviewed \in BOOLEAN /\ allowed \in BOOLEAN
  /\ spent \in [Key -> 0..(MaxTime + Grant)]
  /\ generation \in 0..Cardinality(Attempt)
  /\ attempt \in [Attempt -> [at : {"new", "running", "done"}, gen : Nat,
                              key : Key \cup {NoKey}]]
  /\ paid \in [Paid -> [at : PaidAt, key : Key \cup {NoKey}]]
  /\ edits \in 0..MaxEdits
  /\ proof \in [key : Key \cup {NoKey}, said : {"nothing", "spent", "other"}]

Init ==
  /\ now = 1 /\ key \in Key /\ reviewed \in BOOLEAN /\ allowed \in BOOLEAN
  /\ spent = [k \in Key |-> 0] /\ generation = 0 /\ edits = 0
  /\ attempt = [a \in Attempt |-> [at |-> "new", gen |-> 0, key |-> NoKey]]
  /\ paid = [p \in Paid |-> [at |-> "new", key |-> NoKey]]
  /\ proof = [key |-> NoKey, said |-> "nothing"]

-----------------------------------------------------------------------------
(* A fresh attempt revokes every grant, and outdates what earlier ones     *)
(* still have to say.                                                      *)
Begin(a) ==
  /\ attempt[a].at = "new" /\ key # NoKey
  /\ generation' = generation + 1
  /\ spent' = [k \in Key |-> 0]
  /\ attempt' = [attempt EXCEPT ![a] =
       [at |-> "running", gen |-> generation + 1, key |-> key]]
  /\ proof' = [key |-> key, said |-> "nothing"]
  /\ UNCHANGED << now, key, reviewed, allowed, paid, edits >>

BugCurrent(a) == TRUE

Current(a) == attempt[a].gen = generation

(* "spent": the machine-readable refusal with a reset time to come, under  *)
(* the key the request was sent with; anything else, a success included,   *)
(* closes the grant.                                                       *)
Answer(a) ==
  /\ attempt[a].at = "running"
  /\ attempt' = [attempt EXCEPT ![a].at = "done"]
  /\ \E said \in {"spent", "other"} :
       LET k == attempt[a].key IN
       /\ spent' = IF Current(a)
                   THEN [x \in Key |->
                          IF x # k THEN IF spent[x] <= now THEN 0 ELSE spent[x]
                          ELSE IF said = "spent" THEN now + Grant ELSE 0]
                   ELSE spent
       /\ proof' = IF attempt[a].gen = generation
                   THEN [key |-> k, said |-> said] ELSE proof
  /\ UNCHANGED << now, key, reviewed, allowed, generation, paid, edits >>

-----------------------------------------------------------------------------
Spent(k) == spent[k] > now

\* The allowlist grants only what the reviewed table holds.
Approved == reviewed /\ allowed

PaidBegin(p) ==
  /\ paid[p].at = "new"
  /\ paid' = [paid EXCEPT ![p].at = "auth"]
  /\ UNCHANGED << now, key, reviewed, allowed, spent, generation, attempt,
                  edits, proof >>

(* With the grant the call follows at once.  Without it the plan's key is  *)
(* looked up, which takes a turn, and may fail: then the gate stays shut.  *)
Authorize(p) ==
  /\ paid[p].at = "auth"
  /\ paid' = [paid EXCEPT ![p].at = IF Approved THEN "called" ELSE "key"]
  /\ UNCHANGED << now, key, reviewed, allowed, spent, generation, attempt,
                  edits, proof >>

Look(p) ==
  /\ paid[p].at = "key"
  /\ \E fails \in BOOLEAN :
       paid' = [paid EXCEPT ![p] =
         IF fails \/ (key # NoKey /\ ~Spent(key)) THEN [@ EXCEPT !.at = "denied"]
         ELSE [at |-> "checked", key |-> key]]
  /\ UNCHANGED << now, key, reviewed, allowed, spent, generation, attempt,
                  edits, proof >>

StillSpent(p) == paid[p].key = NoKey \/ Spent(paid[p].key)

\* Other requests ran meanwhile: the grant is asked for again, then the call.
Call(p) ==
  /\ paid[p].at = "checked"
  /\ paid' = [paid EXCEPT ![p].at = IF StillSpent(p) THEN "called" ELSE "denied"]
  /\ UNCHANGED << now, key, reviewed, allowed, spent, generation, attempt,
                  edits, proof >>

Cancel(p) ==
  /\ paid[p].at \in {"auth", "key", "checked"}
  /\ paid' = [paid EXCEPT ![p].at = "denied"]
  /\ UNCHANGED << now, key, reviewed, allowed, spent, generation, attempt,
                  edits, proof >>

Tick ==
  /\ now < MaxTime /\ now' = now + 1
  /\ UNCHANGED << key, reviewed, allowed, spent, generation, attempt, paid,
                  edits, proof >>

\* The operator edits a table, or signs in with another key or out.
Edit ==
  /\ edits < MaxEdits /\ edits' = edits + 1
  /\ \/ reviewed' = ~reviewed /\ UNCHANGED << allowed, key >>
     \/ allowed' = ~allowed /\ UNCHANGED << reviewed, key >>
     \/ key' \in (Key \cup {NoKey}) \ {key} /\ UNCHANGED << reviewed, allowed >>
  /\ UNCHANGED << now, spent, generation, attempt, paid, proof >>

Next ==
  \/ Tick \/ Edit
  \/ \E a \in Attempt : Begin(a) \/ Answer(a)
  \/ \E p \in Paid : PaidBegin(p) \/ Authorize(p) \/ Look(p) \/ Call(p) \/ Cancel(p)

Spec == Init /\ [][Next]_vars

-----------------------------------------------------------------------------
(* A grant stands only on what the newest attempt has shown: none outlives *)
(* a fresh attempt, however late the one that earned it answers.           *)
GrantIsProven ==
  \A k \in Key : Spent(k) => proof = [key |-> k, said |-> "spent"]

(* A metered route is called only when the operator allows it, no plan is  *)
(* configured, or the plan's newest request has just proved it spent.      *)
Earned ==
  \A p \in Paid :
    paid[p].at # "called" /\ paid'[p].at = "called" =>
      \/ Approved
      \/ paid[p].at = "checked" /\ paid[p].key = NoKey
      \/ /\ paid[p].at = "checked"
         /\ proof = [key |-> paid[p].key, said |-> "spent"]
PaidIsEarned == [][Earned]_vars

GateSound == TypeOK /\ GrantIsProven
=============================================================================
