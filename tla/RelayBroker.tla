----------------------------- MODULE RelayBroker -----------------------------
(***************************************************************************)
(* The relay of one run (src/src/subagents/relay.ts RelayBroker) with the  *)
(* two kinds of receiver that bind to it: a callback that answers now or   *)
(* with a promise (pi-worker.ts), and ClaudeRelay, which empties its       *)
(* mailbox into the worker's stdin when it binds (claude-relay.ts).        *)
(*                                                                         *)
(* A peer is its place in the run's array of peers, which is the order of  *)
(* a broadcast.  An envelope is known by its sequence number; what it      *)
(* carries is in sent[seq], and bodies are left out.  The broker is        *)
(* synchronous: one action per call, and one per settled promise.          *)
(***************************************************************************)
EXTENDS Integers, Sequences, FiniteSets, SequencesExt, FiniteSetsExt

CONSTANTS NPeers,        \* peers of the run: the parent and its tasks
          MailboxLimit,  \* RELAY_MAILBOX_LIMIT
          RunLimit,      \* RELAY_RUN_LIMIT
          Started,       \* the peers that bind; a task that waits does not yet
          MaxBinds       \* bound: bindings ever made (one per attempt)

ASSUME RelayAssumption == /\ NPeers \in Nat \ {0}
                          /\ MailboxLimit \in Nat \ {0}
                          /\ RunLimit \in Nat \ {0}
                          /\ MaxBinds \in Nat
                          /\ Started \subseteq 1 .. NPeers

Peer == 1 .. NPeers
Seq1 == 1 .. RunLimit
Kind == {"message", "request", "reply"}   \* "status" is routed like "message"
Nothing == 0                              \* no replyTo, no receiver

VARIABLES
  open,       \* the broker still has the run
  sent,       \* accepted envelopes, by seq; nextSeq and accepted follow
  mailbox,    \* peer -> seqs waiting to be read
  pending,    \* peer -> seqs whose delivery promise is unsettled
  receiver,   \* peer -> token of the registered delivery callback
  bindings,   \* peer -> tokens of bindings not yet closed
  binds,      \* bindings made so far, the tokens handed out
  requests,   \* ids of requests not answered yet
  got,        \* peer -> seqs it received, in that order
  cut         \* peers whose stdin failed while ClaudeRelay emptied the mailbox

vars == <<open, sent, mailbox, pending, receiver, bindings, binds, requests, got, cut>>

Accepted == Len(sent)
Backlog(p) == Len(mailbox[p]) + Len(pending[p])

\* createRun.
Init == /\ open = TRUE
        /\ sent = <<>>
        /\ mailbox = [p \in Peer |-> <<>>]
        /\ pending = [p \in Peer |-> <<>>]
        /\ receiver = [p \in Peer |-> Nothing]
        /\ bindings = [p \in Peer |-> {}]
        /\ binds = 0
        /\ requests = {}
        /\ got = [p \in Peer |-> <<>>]
        /\ cut = {}
-----------------------------------------------------------------------------
(* send.                                                                   *)

\* Whom a broadcast goes to: the run's peers but for the sender, in their order.
Others(p) == [i \in 1 .. NPeers - 1 |-> IF i < p THEN i ELSE i + 1]

\* Seeded bug: an unsettled delivery does not take room in the mailbox.
BugUnreserved(to) == /\ Accepted + Len(to) <= RunLimit
                     /\ \A i \in DOMAIN to : Len(mailbox[to[i]]) < MailboxLimit

\* The run's limit, and room at every recipient before any of them is served.
HasRoom(to) == /\ Accepted + Len(to) <= RunLimit
               /\ \A i \in DOMAIN to : Backlog(to[i]) < MailboxLimit

\* A reply goes to the one peer whose request it answers.
Answers(p, to, kind, id) ==
  IF kind = "reply"
  THEN id \in requests /\ Len(to) = 1 /\ sent[id].from = to[1] /\ sent[id].rcpt = p
  ELSE id = Nothing

\* The recipients are served in turn, the i-th gets the i-th new number.
Number(i) == Accepted + i

\* Seeded bug: only queued messages count as older than a new one.
BugOvertake(r) == IF mailbox[r] = <<>> /\ receiver[r] # Nothing
                  THEN {"handled", "pending", "queued"} ELSE {"queued"}

\* A callback is tried only when nothing older waits; it accepts, declines or
\* throws (queued), or answers with a promise.
Outcomes(r) == IF Backlog(r) = 0 /\ receiver[r] # Nothing
               THEN {"handled", "pending", "queued"} ELSE {"queued"}

\* The boxes once every recipient with outcome o has its envelope in there.
Added(box, to, out, o) ==
  [r \in Peer |-> IF \E i \in DOMAIN to : to[i] = r /\ out[i] = o
                  THEN Append(box[r], Number(CHOOSE i \in DOMAIN to : to[i] = r))
                  ELSE box[r]]

\* A request opens one id per recipient; a reply closes the one it answers.
RequestsAfter(to, kind, id) ==
  (requests \cup IF kind = "request" THEN {Number(i) : i \in DOMAIN to} ELSE {})
    \ IF kind = "reply" THEN {id} ELSE {}

\* One accepted send, to one peer or to all the others.
Send(p, to, kind, id) ==
  /\ open /\ to # <<>>
  /\ Answers(p, to, kind, id)
  /\ HasRoom(to)
  /\ \E out \in [DOMAIN to -> {"handled", "pending", "queued"}] :
       /\ \A i \in DOMAIN to : out[i] \in Outcomes(to[i])
       /\ mailbox' = Added(mailbox, to, out, "queued")
       /\ pending' = Added(pending, to, out, "pending")
       /\ got' = Added(got, to, out, "handled")
  /\ sent' = sent \o [i \in DOMAIN to |->
                       [from |-> p, kind |-> kind, replyTo |-> id, rcpt |-> to[i]]]
  /\ requests' = RequestsAfter(to, kind, id)
  /\ UNCHANGED <<open, receiver, bindings, binds, cut>>

InOrder(box) == \A i, j \in DOMAIN box : i < j => box[i] < box[j]

\* mailbox.push, mailbox.sort: the one sequence in order of what was there and
\* the refused envelope; numbers never repeat.
Restored(box, s) ==
  {new \in [1 .. Len(box) + 1 -> ToSet(box) \cup {s}] :
     InOrder(new) /\ ToSet(new) = ToSet(box) \cup {s}}

\* A promised delivery settles; a refusal sends the envelope to the mailbox.
\* After cleanup a late answer is ignored.
Settle(p) ==
  /\ open
  /\ \E i \in DOMAIN pending[p] :
       /\ pending' = [pending EXCEPT ![p] = RemoveAt(@, i)]
       /\ \/ got' = [got EXCEPT ![p] = Append(@, pending[p][i])] /\ UNCHANGED mailbox
          \/ /\ \E new \in Restored(mailbox[p], pending[p][i]) :
                  mailbox' = [mailbox EXCEPT ![p] = new]
             /\ UNCHANGED got
  /\ UNCHANGED <<open, sent, receiver, bindings, binds, requests, cut>>
-----------------------------------------------------------------------------
(* inbox.                                                                  *)

\* The smallest unresolved seq: nothing from there on may be read or skipped.
Barrier(p) == IF pending[p] = <<>> THEN RunLimit + 1 ELSE Min(ToSet(pending[p]))

\* The first k of the box, and no more, are up to n.
Leads(box, k, n) == /\ \A i \in 1 .. k : box[i] <= n
                    /\ k < Len(box) => box[k + 1] > n

\* A read from cursor "after": the first "seen" of the mailbox were seen before
\* and are dropped, what follows is handed out, up to "last", which neither
\* the limits nor the barrier let it pass.
Take(p, after, limit, seen, last) ==
  /\ Leads(mailbox[p], seen, Min({after, Barrier(p) - 1}))
  /\ \E free \in 0 .. Len(mailbox[p]) :
       /\ Leads(mailbox[p], free, Barrier(p) - 1)
       /\ last = Min({seen + limit, seen + MailboxLimit, free})
  /\ mailbox' = [mailbox EXCEPT ![p] = SubSeq(@, last + 1, Len(@))]

Inbox(p, after, limit) ==
  /\ open /\ bindings[p] # {}
  /\ \E seen, last \in 0 .. Len(mailbox[p]) :
       /\ Take(p, after, limit, seen, last)
       /\ got' = [got EXCEPT ![p] = @ \o SubSeq(mailbox[p], seen + 1, last)]
  /\ UNCHANGED <<open, sent, pending, receiver, bindings, binds, requests, cut>>
-----------------------------------------------------------------------------
(* bind and close.                                                         *)

NewToken(p) == /\ open /\ p \in Started /\ binds < MaxBinds
               /\ binds' = binds + 1

NewBinding(p) == NewToken(p) /\ bindings' = [bindings EXCEPT ![p] = @ \cup {binds + 1}]

\* With a callback (a Pi worker), or without one (the parent, which reads).
Bind(p) == /\ NewBinding(p)
           /\ \/ receiver' = [receiver EXCEPT ![p] = binds + 1]
              \/ UNCHANGED receiver
           /\ UNCHANGED <<open, sent, mailbox, pending, requests, got, cut>>

\* ClaudeRelay.bind: register, then read the mailbox and write every message
\* to stdin until one write fails; that closes the binding and the worker, and
\* the rest of what was read goes with it.
BindClaude(p) ==
  /\ \E seen, last \in 0 .. Len(mailbox[p]) :
       /\ Take(p, 0, MailboxLimit, seen, last)
       /\ \/ /\ NewBinding(p)
             /\ got' = [got EXCEPT ![p] = @ \o SubSeq(mailbox[p], seen + 1, last)]
             /\ receiver' = [receiver EXCEPT ![p] = binds + 1]
             /\ UNCHANGED cut
          \/ \E n \in seen .. last - 1 :
               /\ NewToken(p) /\ UNCHANGED bindings
               /\ got' = [got EXCEPT ![p] = @ \o SubSeq(mailbox[p], seen + 1, n)]
               /\ receiver' = [receiver EXCEPT ![p] = Nothing]
               /\ cut' = cut \cup {p}
  /\ UNCHANGED <<open, sent, pending, requests>>

\* Seeded bug: any close unregisters whatever callback is there.
BugCloseAny(p, t) == /\ t \in bindings[p]
                     /\ bindings' = [bindings EXCEPT ![p] = @ \ {t}]
                     /\ receiver' = [receiver EXCEPT ![p] = Nothing]
                     /\ UNCHANGED <<open, sent, mailbox, pending, binds, requests, got, cut>>

\* close: only the binding's own callback is unregistered.
Close(p, t) == /\ t \in bindings[p]
               /\ bindings' = [bindings EXCEPT ![p] = @ \ {t}]
               /\ receiver' = [receiver EXCEPT ![p] = IF @ = t THEN Nothing ELSE @]
               /\ UNCHANGED <<open, sent, mailbox, pending, binds, requests, got, cut>>

\* cleanup: the run's mailboxes go with it.
Cleanup == /\ open
           /\ open' = FALSE
           /\ mailbox' = [p \in Peer |-> <<>>]
           /\ pending' = [p \in Peer |-> <<>>]
           /\ receiver' = [p \in Peer |-> Nothing]
           /\ requests' = {}
           /\ UNCHANGED <<sent, bindings, binds, got, cut>>

\* A peer sends through a binding it has not closed.
SendAny(p) == /\ bindings[p] # {}
              /\ \E kind \in Kind, id \in {Nothing} \cup requests :
                   \/ \E r \in Peer \ {p} : Send(p, <<r>>, kind, id)
                   \/ Send(p, Others(p), kind, id)   \* RUN_BROADCAST_TARGET

\* A reader passes 0 or the highest number it has seen, however it saw it.
Read(p) == \E after \in {0} \cup ToSet(got[p]), limit \in {1, MailboxLimit} :
             Inbox(p, after, limit)

Next == \/ \E p \in Peer : \/ SendAny(p) \/ Settle(p) \/ Read(p)
                           \/ Bind(p) \/ BindClaude(p)
                           \/ \E t \in 1 .. MaxBinds : Close(p, t)
        \/ Cleanup

Spec == Init /\ [][Next]_vars
-----------------------------------------------------------------------------
(* Properties.                                                             *)

Envelope == [from : Peer, kind : Kind, replyTo : Nat, rcpt : Peer]

TypeOK == /\ open \in BOOLEAN
          /\ sent \in Seq(Envelope)
          /\ mailbox \in [Peer -> Seq(Nat)]
          /\ pending \in [Peer -> Seq(Nat)]
          /\ got \in [Peer -> Seq(Nat)]
          /\ binds \in 0 .. MaxBinds
          /\ receiver \in [Peer -> 0 .. binds]
          /\ bindings \in [Peer -> SUBSET (1 .. binds)]
          /\ requests \subseteq Nat
          /\ cut \subseteq Peer

\* A peer receives what it is sent in the order it was accepted, each envelope
\* once, over steering, late steering refusals and the inbox together.
FifoPerRecipient == \A p \in Peer : InOrder(got[p])

\* No accepted envelope disappears while the run is open: it was received, it
\* is queued or it is being delivered.  The exception is a worker whose stdin
\* failed while its mailbox was being emptied.
NothingLost == open =>
  \A s \in 1 .. Len(sent) :
    LET p == sent[s].rcpt
    IN p \in cut \/ s \in ToSet(got[p]) \cup ToSet(mailbox[p]) \cup ToSet(pending[p])

\* An unresolved delivery keeps its place: whatever it turns out to be, the
\* mailbox of its recipient never grows past the limit, nor the run past its own.
WithinLimits == /\ TypeOK
                /\ \A p \in Peer : Backlog(p) <= MailboxLimit
                /\ Len(sent) <= RunLimit

\* A request is answered at most once, by the peer that it was sent to.
AnsweredOnce == \A i, j \in 1 .. Len(sent) :
  sent[i].kind = "reply" =>
    /\ sent[sent[i].replyTo].rcpt = sent[i].from
    /\ sent[j].kind = "reply" /\ sent[j].replyTo = sent[i].replyTo => i = j

\* The four by what they are about: the envelopes, and the room they take.
MailKept == FifoPerRecipient /\ NothingLost
TrafficBounded == WithinLimits /\ AnsweredOnce

\* Closing an earlier attempt's binding leaves the callback of a later attempt
\* registered; only a later binding that fails takes it along.
ReceiverKept ==
  [][\A p \in Peer : receiver[p] # Nothing /\ receiver[p] \in bindings'[p] /\ open'
       => receiver'[p] # Nothing \/ (p \in cut' /\ binds' # binds)]_vars
-----------------------------------------------------------------------------
(* The inductive invariant.                                                *)

AllBefore(box, next) == \A s \in ToSet(box), t \in ToSet(next) : s < t

\* What a peer has, what is being delivered to it (one envelope at most) and
\* what waits for it follow each other in the order of the numbers.
InLine(p) == /\ InOrder(got[p]) /\ InOrder(mailbox[p])
             /\ Len(pending[p]) <= 1
             /\ AllBefore(got[p], pending[p])
             /\ AllBefore(got[p], mailbox[p])
             /\ AllBefore(pending[p], mailbox[p])

\* All of them were sent, and to this peer.
Mail(p, box) == \A s \in ToSet(box) : s \in 1 .. Len(sent) /\ sent[s].rcpt = p
Addressed(p) == Mail(p, got[p]) /\ Mail(p, pending[p]) /\ Mail(p, mailbox[p])

\* An open request was made, and no reply to it has been accepted.
Unanswered == \A id \in requests :
  /\ id \in 1 .. Len(sent)
  /\ \A i \in 1 .. Len(sent) : sent[i].kind = "reply" => sent[i].replyTo # id

RepliesMatch == \A i \in 1 .. Len(sent) :
  sent[i].kind = "reply" => sent[i].replyTo \in 1 .. i - 1

IInv == /\ MailKept /\ TrafficBounded
        /\ \A p \in Peer : InLine(p) /\ Addressed(p)
        /\ Unanswered /\ RepliesMatch
=============================================================================
