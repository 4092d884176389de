----------------------------- MODULE FreeRoute -----------------------------
(***************************************************************************)
(* The temporary free route (src/temporary-free-route.ts): an operator's   *)
(* file names one free model for a while, a request asks the provider's    *)
(* catalog for proof that it costs nothing, and every guard up to the last *)
(* payload looks at both again.  A proof is shared by the requests that    *)
(* ask at once, kept for a time, and evicted when there are too many.      *)
(***************************************************************************)
EXTENDS Naturals, Sequences, SequencesExt, FiniteSets

CONSTANTS
  Request,    \* requests: through the virtual profile, or of a model itself
  Virtual,    \* those through the profile
  Model,      \* the free models
  Ttl,        \* METADATA_TTL_MS
  MaxProofs,  \* proofs kept, and fetches under way at once
  MaxTime,    \* bound: the clock
  MaxEdits    \* bound: edits of the operator's file

VARIABLES
  now, edits,
  file,     \* [is : "absent" | "unsafe" | "ok", model, until]
  proofs,   \* [model, until], oldest first
  fetching, \* the models whose proof is being fetched
  request,  \* each request: [at, model, until, first]: its route, and whether
            \* the profile still is to choose
  said      \* ghost: the catalog's last word on each model: [free, time]

vars == << now, edits, file, proofs, fetching, request, said >>

Files == {[is |-> s, model |-> m, until |-> MaxTime] :
            s \in {"absent", "unsafe"}, m \in {CHOOSE x \in Model : TRUE}}
         \cup [is : {"ok"}, model : Model, until : 1..MaxTime]

Places == {"new", "check", "ensure", "wait", "proven", "open", "payload",
           "sent", "normal", "denied", "retry"}

TypeOK ==
  /\ now \in 0..MaxTime /\ edits \in 0..MaxEdits /\ file \in Files
  /\ \A i \in DOMAIN proofs : proofs[i] \in [model : Model, until : Nat]
  /\ Len(proofs) <= MaxProofs
  /\ fetching \subseteq Model
  /\ request \in [Request -> [at : Places, model : Model, until : 0..MaxTime,
                              first : BOOLEAN]]

Init ==
  /\ now = 0 /\ edits = 0 /\ file \in Files
  /\ proofs = <<>> /\ fetching = {}
  /\ \E m \in [Request -> Model] :
       request = [r \in Request |-> [at |-> IF r \in Virtual THEN "new" ELSE "check",
                                    model |-> m[r], until |-> 0,
                                    first |-> r \in Virtual]]
  /\ said = [m \in Model |-> [free |-> FALSE, time |-> 0]]

-----------------------------------------------------------------------------
\* The file, read anew by every guard: it may be refused, absent or expired.
Active(m) == file.is = "ok" /\ now < file.until /\ file.model = m

\* A proof counts for its time only.
BugFresh(m) == \E i \in DOMAIN proofs : proofs[i].model = m

Fresh(m) == \E i \in DOMAIN proofs : proofs[i].model = m /\ now < proofs[i].until

Allowed(m) == Active(m) /\ Fresh(m)

To(r, place) == request' = [request EXCEPT ![r].at = place]

\* The profile sends its job back to the normal one, the guards refuse.
Failure(r) == IF request[r].first THEN "normal" ELSE "denied"
Only(r) == UNCHANGED << now, edits, file, proofs, said >>

-----------------------------------------------------------------------------
\* The virtual profile takes the route the file names.
Route(r) ==
  /\ request[r].at = "new" /\ UNCHANGED fetching /\ Only(r)
  /\ IF file.is = "unsafe" THEN To(r, "denied")
     ELSE IF file.is = "absent" \/ now >= file.until THEN To(r, "normal")
     ELSE request' = [request EXCEPT ![r] =
            [@ EXCEPT !.at = "ensure", !.model = file.model, !.until = file.until]]

\* The guard of the provider, for a model that was chosen or asked for.
Check(r) ==
  /\ request[r].at = "check" /\ UNCHANGED fetching /\ Only(r)
  /\ To(r, IF Active(request[r].model) THEN "ensure" ELSE "denied")

\* ensureTemporaryFreeMetadata: a proof, the fetch under way, or a fetch.
Ensure(r) ==
  LET m == request[r].model IN
  /\ request[r].at = "ensure" /\ Only(r)
  /\ IF Fresh(m) THEN To(r, "proven") /\ UNCHANGED fetching
     ELSE IF m \notin fetching /\ Cardinality(fetching) >= MaxProofs
     THEN To(r, Failure(r)) /\ UNCHANGED fetching
     ELSE To(r, "wait") /\ fetching' = fetching \cup {m}

Waiting(m) == {r \in Request : request[r].at = "wait" /\ request[r].model = m}
Wake(m, place(_)) ==
  request' = [r \in Request |->
    IF r \in Waiting(m) THEN [request[r] EXCEPT !.at = place(r)] ELSE request[r]]

Without(m) == SelectSeq(proofs, LAMBDA p : p.model # m)

(* The oldest proof makes room for a new one, even when this one replaces  *)
(* another of the same model, which keeps its place otherwise.             *)
Kept == IF Len(proofs) >= MaxProofs THEN Tail(proofs) ELSE proofs
Stored(m) ==
  LET p == [model |-> m, until |-> now + Ttl]
      at == {i \in DOMAIN Kept : Kept[i].model = m}
  IN IF at = {} THEN Append(Kept, p)
     ELSE [i \in DOMAIN Kept |-> IF i \in at THEN p ELSE Kept[i]]

(* The catalog proves the model free, says it is not, or does not answer:  *)
(* then the preference stands and the request may be tried again.          *)
FetchEnds(m, answer) ==
  /\ m \in fetching /\ fetching' = fetching \ {m}
  /\ proofs' = IF answer = "free" THEN Stored(m) ELSE Without(m)
  /\ said' = IF answer = "none" THEN said
             ELSE [said EXCEPT ![m] = [free |-> answer = "free", time |-> now]]
  /\ Wake(m, LAMBDA r : CASE answer = "free" -> "proven"
                          [] answer = "none" -> "retry"
                          [] OTHER -> Failure(r))
  /\ UNCHANGED << now, edits, file >>

(* The profile asks whether the file still is what it was, and hands the   *)
(* model to its provider, whose guard ensures the proof once more.         *)
Proven(r) ==
  LET q == request[r] IN
  /\ q.at = "proven" /\ UNCHANGED fetching /\ Only(r)
  /\ IF q.first /\ file.is = "unsafe" THEN To(r, "denied")
     ELSE IF ~Allowed(q.model) \/ (q.first /\ file.until # q.until)
     THEN To(r, Failure(r))
     ELSE request' = [request EXCEPT ![r].at = IF q.first THEN "check" ELSE "open",
                                     ![r].first = FALSE]

\* temporaryFreeOptions, and its last look after the caller's payload hook.
Guard(r, from, to) ==
  /\ request[r].at = from /\ UNCHANGED fetching /\ Only(r)
  /\ To(r, IF Allowed(request[r].model) THEN to ELSE "denied")
Open(r) == Guard(r, "open", "payload")
Send(r) == Guard(r, "payload", "sent")

Edit ==
  /\ edits < MaxEdits /\ edits' = edits + 1
  /\ file' \in Files \ {file}
  /\ UNCHANGED << now, proofs, fetching, request, said >>

Tick ==
  /\ now < MaxTime /\ now' = now + 1
  /\ UNCHANGED << edits, file, proofs, fetching, request, said >>

Own ==
  \/ \E r \in Request : Route(r) \/ Check(r) \/ Ensure(r) \/ Proven(r) \/ Open(r) \/ Send(r)
  \/ \E m \in Model, a \in {"free", "paid", "none"} : FetchEnds(m, a)

Next == Own \/ Edit \/ Tick

\* A fetch has a time limit of its own.
Fairness == WF_vars(Own)
Spec == Init /\ [][Next]_vars /\ Fairness

-----------------------------------------------------------------------------
(* Whatever the file, the catalog and the clock do while a request is on   *)
(* its way: what is sent goes to the model the operator names at that      *)
(* moment, whose last word from the catalog is "free", and recent.         *)
SentFree ==
  \A r \in Request : request[r].at # "sent" /\ request'[r].at = "sent" =>
    LET m == request[r].model IN
    /\ file.is = "ok" /\ file.model = m /\ now < file.until
    /\ said[m].free /\ now < said[m].time + Ttl
SentIsFree == [][SentFree]_vars

(* A proof is the catalog's last word, so no model is proven once by one   *)
(* request and refused to another; and somebody is fetching for those that *)
(* wait.                                                                   *)
ProofIsLastWord ==
  /\ \A i \in DOMAIN proofs :
       LET p == proofs[i] IN
       /\ said[p.model].free /\ p.until = said[p.model].time + Ttl
       /\ \A j \in DOMAIN proofs : proofs[j].model = p.model => i = j
  /\ \A r \in Request : request[r].at = "wait" => request[r].model \in fetching

FreeSound == TypeOK /\ ProofIsLastWord

\* Every request is sent, denied, or told to go back to its normal profile.
Ended == \A r \in Request : request[r].at \in {"sent", "normal", "denied", "retry"}
FreeEnds == []<>Ended
=============================================================================
