-------------------------- MODULE RelayBroker_proofs --------------------------
(***************************************************************************)
(* Proofs about the relay of one run, for every number of peers and every  *)
(* limit: its inductive invariant, that mail is kept in order and once,    *)
(* that traffic stays within the limits and that a receiver outlives the   *)
(* close of an earlier one.                                                *)
(* Then the workers whose steering it carries, PiWorker and ClaudeWorker,  *)
(* as the instances Pi and Claude of MCWorkers. XSafe is the lemma that    *)
(* the step X keeps the inductive invariant.                               *)
(***************************************************************************)
EXTENDS RelayBroker, MCWorkers, SequenceTheorems, FiniteSetTheorems, TLAPS

(* The least of two numbers is one of them, and above neither. *)
LEMMA MinOfTwo ==
  ASSUME NEW a \in Int, NEW b \in Int
  PROVE  /\ Min({a, b}) \in Int
         /\ Min({a, b}) <= a /\ Min({a, b}) <= b
<1>1. \E x \in {a, b} : \A y \in {a, b} : x <= y
  OBVIOUS
<1>2. Min({a, b}) \in {a, b} /\ \A y \in {a, b} : Min({a, b}) <= y
  BY <1>1 DEF Min
<1>. QED  BY <1>2

(* So it is with three. *)
LEMMA MinOfThree ==
  ASSUME NEW a \in Int, NEW b \in Int, NEW c \in Int
  PROVE  /\ Min({a, b, c}) \in Int
         /\ Min({a, b, c}) <= a /\ Min({a, b, c}) <= b /\ Min({a, b, c}) <= c
         /\ Min({a, b, c}) \in {a, b, c}
<1>1. \E x \in {a, b, c} : \A y \in {a, b, c} : x <= y
  OBVIOUS
<1>2. Min({a, b, c}) \in {a, b, c} /\ \A y \in {a, b, c} : Min({a, b, c}) <= y
  BY <1>1 DEF Min
<1>. QED  BY <1>2

(* A box of one at most holds what its first place holds. *)
LEMMA OnlyOne ==
  ASSUME NEW box \in Seq(Nat), Len(box) <= 1, NEW i \in DOMAIN box
  PROVE  /\ i = 1 /\ Len(box) = 1 /\ DOMAIN box = {1}
         /\ box[i] \in Nat /\ ToSet(box) = {box[i]}
<1>1. PICK n \in Nat : n = Len(box) /\ DOMAIN box = 1 .. n
  OBVIOUS
<1>2. n <= 1 /\ i \in 1 .. n
  BY <1>1
<1>3. i = 1 /\ n = 1
  BY <1>2
<1>4. DOMAIN box = {1} /\ box[i] \in Nat
  BY <1>1, <1>3
<1>. QED  BY <1>1, <1>3, <1>4 DEF ToSet

(* The barrier is the unresolved delivery where there is one. *)
LEMMA BarrierIs ==
  ASSUME NEW p \in Peer, TypeOK, InLine(p), RelayAssumption
  PROVE  /\ Barrier(p) \in Int
         /\ \A i \in DOMAIN pending[p] : Barrier(p) = pending[p][i]
<1>1. CASE pending[p] = <<>>
  BY <1>1 DEF Barrier, RelayAssumption
<1>2. CASE pending[p] # <<>>
  <2>1. pending[p] \in Seq(Nat) /\ Len(pending[p]) <= 1
    BY DEF TypeOK, InLine
  <2>2. PICK i \in DOMAIN pending[p] : TRUE
    <3>1. Len(pending[p]) \in Nat \ {0}
      BY <1>2, <2>1, EmptySeq, Zenon
    <3>2. PICK n \in Nat : n = Len(pending[p]) /\ DOMAIN pending[p] = 1 .. n
      BY <2>1
    <3>3. 1 \in DOMAIN pending[p]
      BY <3>1, <3>2
    <3>. QED  BY <3>3
  <2>3. /\ DOMAIN pending[p] = {1} /\ i = 1
        /\ pending[p][i] \in Nat /\ ToSet(pending[p]) = {pending[p][i]}
    BY <2>1, OnlyOne
  <2>4. Min({pending[p][1]}) = pending[p][1]
    BY <2>3 DEF Min
  <2>. QED  BY <1>2, <2>3, <2>4 DEF Barrier
<1>. QED  BY <1>1, <1>2

(* A number above all of a box goes to its end in order. *)
LEMMA AppendInOrder ==
  ASSUME NEW box \in Seq(Nat), NEW n \in Nat, InOrder(box),
         \A i \in DOMAIN box : box[i] < n
  PROVE  InOrder(Append(box, n))
BY DEF InOrder

(* Two boxes in order, the one before the other, are in order together. *)
LEMMA ConcatInOrder ==
  ASSUME NEW box \in Seq(Nat), NEW next \in Seq(Nat),
         InOrder(box), InOrder(next), AllBefore(box, next)
  PROVE  InOrder(box \o next)
<1>1. /\ Len(box \o next) = Len(box) + Len(next)
      /\ \A i \in 1 .. Len(box) + Len(next) :
           (box \o next)[i] = IF i <= Len(box) THEN box[i] ELSE next[i - Len(box)]
  OBVIOUS
<1>2. SUFFICES ASSUME NEW i \in 1 .. Len(box) + Len(next),
                      NEW j \in 1 .. Len(box) + Len(next), i < j
               PROVE  (box \o next)[i] < (box \o next)[j]
  BY <1>1, SMTT(25) DEF InOrder
<1>3. CASE j <= Len(box)
  BY <1>1, <1>2, <1>3 DEF InOrder
<1>4. CASE i <= Len(box) /\ j > Len(box)
  <2>1. i \in DOMAIN box /\ j - Len(box) \in DOMAIN next
    BY <1>2, <1>4
  <2>2. box[i] \in ToSet(box) /\ next[j - Len(box)] \in ToSet(next)
    BY <2>1 DEF ToSet
  <2>. QED  BY <1>1, <1>2, <1>4, <2>2 DEF AllBefore
<1>5. CASE i > Len(box)
  <2>1. i - Len(box) \in 1 .. Len(next) /\ j - Len(box) \in 1 .. Len(next)
    BY <1>2, <1>5
  <2>. QED  BY <1>1, <1>2, <1>5, <2>1 DEF InOrder
<1>. QED  BY <1>3, <1>4, <1>5, SMTT(25)

(* What two boxes hold together. *)
LEMMA ConcatHolds ==
  ASSUME NEW box \in Seq(Nat), NEW next \in Seq(Nat)
  PROVE  ToSet(box \o next) = ToSet(box) \cup ToSet(next)
<1>1. /\ DOMAIN (box \o next) = 1 .. Len(box) + Len(next)
      /\ DOMAIN box = 1 .. Len(box) /\ DOMAIN next = 1 .. Len(next)
      /\ Len(box) \in Nat /\ Len(next) \in Nat
      /\ \A i \in 1 .. Len(box) + Len(next) :
           (box \o next)[i] = IF i <= Len(box) THEN box[i] ELSE next[i - Len(box)]
  OBVIOUS
<1>2. ASSUME NEW i \in 1 .. Len(box) + Len(next)
      PROVE  (box \o next)[i] \in ToSet(box) \cup ToSet(next)
  <2>1. CASE i <= Len(box)
    <3>1. i \in DOMAIN box
      BY <1>1, <2>1
    <3>. QED  BY <1>1, <2>1, <3>1 DEF ToSet
  <2>2. CASE ~(i <= Len(box))
    <3>1. i - Len(box) \in DOMAIN next
      BY <1>1, <2>2
    <3>. QED  BY <1>1, <2>2, <3>1 DEF ToSet
  <2>. QED  BY <2>1, <2>2
<1>3. ASSUME NEW i \in DOMAIN box PROVE box[i] \in ToSet(box \o next)
  <2>1. i \in 1 .. Len(box) + Len(next) /\ i <= Len(box)
    BY <1>1
  <2>. QED  BY <1>1, <2>1 DEF ToSet
<1>4. ASSUME NEW i \in DOMAIN next PROVE next[i] \in ToSet(box \o next)
  <2>1. /\ Len(box) + i \in 1 .. Len(box) + Len(next)
        /\ ~(Len(box) + i <= Len(box)) /\ Len(box) + i - Len(box) = i
    BY <1>1
  <2>2. (box \o next)[Len(box) + i] = next[i]
    BY <1>1, <2>1
  <2>. QED  BY <1>1, <2>1, <2>2 DEF ToSet
<1>. QED  BY <1>1, <1>2, <1>3, <1>4 DEF ToSet

(* What a box holds with one more. *)
LEMMA AppendHolds ==
  ASSUME NEW box \in Seq(Nat), NEW n \in Nat
  PROVE  /\ Append(box, n) \in Seq(Nat)
         /\ ToSet(Append(box, n)) = ToSet(box) \cup {n}
<1>1. /\ Append(box, n) \in Seq(Nat) /\ DOMAIN Append(box, n) = 1 .. Len(box) + 1
      /\ DOMAIN box = 1 .. Len(box) /\ Len(box) \in Nat
      /\ \A i \in 1 .. Len(box) : Append(box, n)[i] = box[i]
      /\ Append(box, n)[Len(box) + 1] = n
  OBVIOUS
<1>2. ASSUME NEW i \in 1 .. Len(box) + 1 PROVE i \in 1 .. Len(box) \/ i = Len(box) + 1
  BY <1>1
<1>3. \A i \in 1 .. Len(box) : i \in 1 .. Len(box) + 1
  BY <1>1
<1>4. Len(box) + 1 \in 1 .. Len(box) + 1
  BY <1>1
<1>. QED  BY <1>1, <1>2, <1>3, <1>4 DEF ToSet

(* A stretch of a box is in order with it. *)
LEMMA StretchInOrder ==
  ASSUME NEW box \in Seq(Nat), InOrder(box),
         NEW m \in 1 .. Len(box) + 1, NEW n \in 0 .. Len(box)
  PROVE  /\ SubSeq(box, m, n) \in Seq(Nat)
         /\ Len(SubSeq(box, m, n)) = IF m <= n THEN n - m + 1 ELSE 0
         /\ ToSet(SubSeq(box, m, n)) = {box[i] : i \in m .. n}
         /\ InOrder(SubSeq(box, m, n))
<1>. DEFINE piece == SubSeq(box, m, n)
<1>1. /\ Len(piece) = IF m <= n THEN n - m + 1 ELSE 0
      /\ piece \in Seq(Nat) /\ DOMAIN piece = 1 .. Len(piece) /\ Len(piece) \in Nat
  OBVIOUS
<1>2. \A i \in 1 .. Len(piece) : piece[i] = box[m + i - 1]
  OBVIOUS
<1>3. m \in Nat /\ n \in Nat /\ n <= Len(box) /\ m >= 1 /\ DOMAIN box = 1 .. Len(box)
  OBVIOUS
<1>. HIDE DEF piece
<1>4. ASSUME NEW i \in DOMAIN piece
      PROVE  /\ m + i - 1 \in m .. n /\ m + i - 1 \in DOMAIN box
             /\ piece[i] = box[m + i - 1]
  <2>1. m <= n
    BY <1>1, <1>4
  <2>2. i \in 1 .. n - m + 1
    BY <1>1, <1>4, <2>1
  <2>3. m + i - 1 \in m .. n /\ m + i - 1 \in 1 .. Len(box)
    BY <1>3, <2>2, SMTT(25)
  <2>. QED  BY <1>1, <1>2, <1>3, <1>4, <2>3
<1>5. ASSUME NEW i \in m .. n
      PROVE  i - m + 1 \in DOMAIN piece /\ piece[i - m + 1] = box[i]
  <2>1. i - m + 1 \in 1 .. Len(piece) /\ m + (i - m + 1) - 1 = i
    BY <1>1, <1>3
  <2>. QED  BY <1>1, <1>2, <2>1
<1>6. ToSet(piece) = {box[i] : i \in m .. n}
  <2>1. ASSUME NEW x \in ToSet(piece) PROVE x \in {box[i] : i \in m .. n}
    BY <1>4, <2>1 DEF ToSet
  <2>2. ASSUME NEW i \in m .. n PROVE box[i] \in ToSet(piece)
    BY <1>5, <2>2 DEF ToSet
  <2>. QED  BY <2>1, <2>2
<1>7. InOrder(piece)
  <2>1. SUFFICES ASSUME NEW i \in DOMAIN piece, NEW j \in DOMAIN piece, i < j
                 PROVE  piece[i] < piece[j]
    BY DEF InOrder
  <2>2. m + i - 1 < m + j - 1
    BY <1>1, <1>3, <2>1
  <2>. QED  BY <1>4, <2>1, <2>2 DEF InOrder
<1>. QED  BY <1>1, <1>6, <1>7 DEF piece

(* A read takes the first of a box to the end of what its reader has, and  *)
(* leaves the last of it.                                                  *)
LEMMA PageMoves ==
  ASSUME NEW have \in Seq(Nat), NEW box \in Seq(Nat),
         InOrder(have), InOrder(box), AllBefore(have, box),
         NEW last \in 0 .. Len(box), NEW n \in 0 .. last
  PROVE  LET more == have \o SubSeq(box, 1, n)
             rest == SubSeq(box, last + 1, Len(box))
         IN /\ more \in Seq(Nat) /\ InOrder(more)
            /\ rest \in Seq(Nat) /\ InOrder(rest) /\ Len(rest) <= Len(box)
            /\ ToSet(more) = ToSet(have) \cup {box[i] : i \in 1 .. n}
            /\ ToSet(rest) = {box[i] : i \in last + 1 .. Len(box)}
            /\ AllBefore(more, rest)
<1>. DEFINE page == SubSeq(box, 1, n)
            rest == SubSeq(box, last + 1, Len(box))
<1>1. Len(box) \in Nat /\ last \in Nat /\ n \in Nat /\ last <= Len(box) /\ n <= last
  OBVIOUS
<1>2. page \in Seq(Nat) /\ InOrder(page) /\ ToSet(page) = {box[i] : i \in 1 .. n}
  <2>1. 1 \in 1 .. Len(box) + 1 /\ n \in 0 .. Len(box)
    BY <1>1
  <2>. QED  BY <2>1, StretchInOrder
<1>3. /\ rest \in Seq(Nat) /\ InOrder(rest)
      /\ ToSet(rest) = {box[i] : i \in last + 1 .. Len(box)}
      /\ Len(rest) <= Len(box)
  <2>1. last + 1 \in 1 .. Len(box) + 1 /\ Len(box) \in 0 .. Len(box)
    BY <1>1
  <2>2. /\ rest \in Seq(Nat) /\ InOrder(rest)
        /\ ToSet(rest) = {box[i] : i \in last + 1 .. Len(box)}
        /\ Len(rest) = IF last + 1 <= Len(box) THEN Len(box) - (last + 1) + 1 ELSE 0
    BY <2>1, StretchInOrder
  <2>. QED  BY <1>1, <2>2
<1>. HIDE DEF page, rest
<1>4. \A i \in 1 .. n : i \in DOMAIN box /\ box[i] \in ToSet(box)
  BY <1>1 DEF ToSet
<1>5. \A i \in last + 1 .. Len(box) : i \in DOMAIN box /\ box[i] \in ToSet(box)
  BY <1>1 DEF ToSet
<1>6. AllBefore(have, page)
  BY <1>2, <1>4 DEF AllBefore
<1>7. have \o page \in Seq(Nat) /\ InOrder(have \o page)
  BY <1>2, <1>6, ConcatInOrder
<1>8. ToSet(have \o page) = ToSet(have) \cup {box[i] : i \in 1 .. n}
  BY <1>2, ConcatHolds
<1>9. \A i \in 1 .. n, j \in last + 1 .. Len(box) : box[i] < box[j]
  <2>1. \A i \in 1 .. n, j \in last + 1 .. Len(box) : i < j
    BY <1>1
  <2>. QED  BY <1>4, <1>5, <2>1 DEF InOrder
<1>10. AllBefore(have \o page, rest)
  BY <1>3, <1>5, <1>8, <1>9 DEF AllBefore
<1>. QED  BY <1>3, <1>7, <1>8, <1>10 DEF page, rest

-----------------------------------------------------------------------------
(* Nobody has anything before the first send. *)
LEMMA InitSafe == RelayAssumption /\ Init => IInv
<1>. SUFFICES ASSUME RelayAssumption, Init PROVE IInv
  OBVIOUS
<1>1. TypeOK
  <2>1. <<>> \in Seq(Nat) /\ <<>> \in Seq(Envelope)
    OBVIOUS
  <2>2. 0 \in 0 .. MaxBinds /\ {} \in SUBSET (1 .. 0)
    BY DEF RelayAssumption
  <2>. QED  BY <2>1, <2>2 DEF Init, TypeOK, Nothing
<1>2. MailKept
  BY DEF Init, MailKept, FifoPerRecipient, InOrder, NothingLost
<1>3. TrafficBounded
  BY <1>1 DEF Init, TrafficBounded, WithinLimits, AnsweredOnce, Backlog, RelayAssumption
<1>4. ASSUME NEW p \in Peer PROVE InLine(p) /\ Addressed(p)
  BY DEF Init, InLine, Addressed, Mail, InOrder, AllBefore, ToSet
<1>. QED  BY <1>2, <1>3, <1>4 DEF IInv, Unanswered, RepliesMatch, Init

(* Nothing but the receivers and the bindings change. *)
LEMMA BoxesStay ==
  ASSUME IInv,
         UNCHANGED << open, sent, mailbox, pending, requests, got, cut >>,
         binds' \in 0 .. MaxBinds,
         receiver' \in [Peer -> 0 .. binds'],
         bindings' \in [Peer -> SUBSET (1 .. binds')]
  PROVE  IInv'
<1>1. TypeOK'
  BY DEF IInv, TrafficBounded, WithinLimits, TypeOK
<1>2. MailKept' /\ AnsweredOnce'
  BY DEF IInv, TrafficBounded, MailKept, FifoPerRecipient, NothingLost, AnsweredOnce
<1>3. WithinLimits'
  BY <1>1 DEF IInv, TrafficBounded, WithinLimits, Backlog
<1>4. \A p \in Peer : InLine(p)' /\ Addressed(p)'
  BY DEF IInv, InLine, Addressed, Mail
<1>5. Unanswered' /\ RepliesMatch'
  BY DEF IInv, Unanswered, RepliesMatch
<1>. QED  BY <1>2, <1>3, <1>4, <1>5 DEF IInv, TrafficBounded
-----------------------------------------------------------------------------
(* A read drops nothing that was not read, since what a peer has comes     *)
(* before what waits for it, and hands out only what the barrier allows.   *)
LEMMA TakeEffect ==
  ASSUME RelayAssumption, IInv, NEW p \in Peer,
         NEW after \in {0} \cup ToSet(got[p]), NEW limit \in Nat,
         NEW seen \in 0 .. Len(mailbox[p]), NEW last \in 0 .. Len(mailbox[p]),
         Take(p, after, limit, seen, last)
  PROVE  /\ seen = 0
         /\ \A i \in 1 .. last, j \in DOMAIN pending[p] : mailbox[p][i] < pending[p][j]
<1>1. /\ TypeOK /\ InLine(p) /\ Addressed(p)
      /\ got[p] \in Seq(Nat) /\ mailbox[p] \in Seq(Nat) /\ pending[p] \in Seq(Nat)
  BY DEF IInv, TrafficBounded, WithinLimits, TypeOK
<1>2. Barrier(p) \in Int /\ \A j \in DOMAIN pending[p] : Barrier(p) = pending[p][j]
  BY <1>1, BarrierIs
<1>3. after \in Nat
  BY <1>1 DEF ToSet
<1>4. seen = 0
  <2>1. SUFFICES ASSUME seen # 0 PROVE FALSE
    OBVIOUS
  <2>2. 1 \in 1 .. seen /\ 1 \in DOMAIN mailbox[p]
    BY <1>1, <2>1
  <2>3. mailbox[p][1] \in ToSet(mailbox[p]) /\ mailbox[p][1] \in Nat
    BY <1>1, <2>2, SMTT(25) DEF ToSet
  <2>4. mailbox[p][1] <= Min({after, Barrier(p) - 1})
    BY <2>2 DEF Take, Leads
  <2>5. mailbox[p][1] <= after
    <3>1. Barrier(p) - 1 \in Int /\ after \in Int
      BY <1>2, <1>3
    <3>2. /\ Min({after, Barrier(p) - 1}) \in Int
          /\ Min({after, Barrier(p) - 1}) <= after
      BY <3>1, MinOfTwo
    <3>. QED  BY <2>3, <2>4, <3>1, <3>2
  <2>6. mailbox[p][1] >= 1
    BY <1>1, <2>3 DEF Addressed, Mail
  <2>7. after \in ToSet(got[p])
    BY <2>3, <2>5, <2>6, <1>3
  <2>8. after < mailbox[p][1]
    BY <1>1, <2>3, <2>7 DEF InLine, AllBefore
  <2>. QED  BY <1>3, <2>3, <2>5, <2>8
<1>5. PICK free \in 0 .. Len(mailbox[p]) :
        /\ Leads(mailbox[p], free, Barrier(p) - 1)
        /\ last = Min({seen + limit, seen + MailboxLimit, free})
  BY DEF Take
<1>6. last <= free
  <2>1. seen + limit \in Int /\ seen + MailboxLimit \in Int /\ free \in Int
    BY <1>4 DEF RelayAssumption
  <2>. QED  BY <1>5, <2>1, MinOfThree
<1>7. ASSUME NEW i \in 1 .. last, NEW j \in DOMAIN pending[p]
      PROVE  mailbox[p][i] < pending[p][j]
  <2>1. i \in 1 .. free /\ i \in DOMAIN mailbox[p]
    <3>1. Len(mailbox[p]) \in Nat /\ DOMAIN mailbox[p] = 1 .. Len(mailbox[p])
      BY <1>1, SMTT(25)
    <3>. QED  BY <1>6, <3>1
  <2>2. mailbox[p][i] <= Barrier(p) - 1
    BY <1>5, <2>1 DEF Leads
  <2>3. mailbox[p][i] \in Int
    BY <1>1, <2>1, SMTT(25)
  <2>4. Barrier(p) = pending[p][j]
    BY <1>2
  <2>. QED  BY <1>2, <2>2, <2>3, <2>4
<1>. QED  BY <1>4, <1>7

(* A step that moves mail of one peer between its boxes, in line, keeps    *)
(* everything; what it takes out of all of them must be cut.               *)
LEMMA BoxesMove ==
  ASSUME RelayAssumption, IInv, NEW p \in Peer,
         got' \in [Peer -> Seq(Nat)], mailbox' \in [Peer -> Seq(Nat)],
         pending' \in [Peer -> Seq(Nat)],
         \A q \in Peer : q # p => /\ got'[q] = got[q] /\ mailbox'[q] = mailbox[q]
                                  /\ pending'[q] = pending[q],
         InLine(p)',
         Len(mailbox'[p]) + Len(pending'[p]) <= MailboxLimit,
         ToSet(got'[p]) \cup ToSet(mailbox'[p]) \cup ToSet(pending'[p])
           \subseteq ToSet(got[p]) \cup ToSet(mailbox[p]) \cup ToSet(pending[p]),
         \/ p \in cut'
         \/ ToSet(got[p]) \cup ToSet(mailbox[p]) \cup ToSet(pending[p])
              \subseteq ToSet(got'[p]) \cup ToSet(mailbox'[p]) \cup ToSet(pending'[p]),
         cut' \in SUBSET Peer, cut \subseteq cut',
         UNCHANGED << open, sent, requests >>,
         binds' \in 0 .. MaxBinds,
         receiver' \in [Peer -> 0 .. binds'],
         bindings' \in [Peer -> SUBSET (1 .. binds')]
  PROVE  IInv'
<1>1. TypeOK /\ TypeOK'
  BY DEF IInv, TrafficBounded, WithinLimits, TypeOK
<1>2. TrafficBounded'
  <2>1. ASSUME NEW q \in Peer PROVE Backlog(q)' <= MailboxLimit
    <3>1. CASE q = p
      BY <3>1 DEF Backlog
    <3>2. CASE q # p
      BY <3>2 DEF IInv, TrafficBounded, WithinLimits, Backlog
    <3>. QED  BY <3>1, <3>2
  <2>. QED  BY <1>1, <2>1 DEF IInv, TrafficBounded, WithinLimits, AnsweredOnce
<1>3. ASSUME NEW q \in Peer PROVE InLine(q)' /\ Addressed(q)'
  <2>1. CASE q # p
    BY <2>1 DEF IInv, InLine, Addressed, Mail
  <2>2. CASE q = p
    BY <2>2 DEF IInv, Addressed, Mail
  <2>. QED  BY <2>1, <2>2
<1>4. MailKept'
  <2>1. FifoPerRecipient'
    BY <1>3 DEF InLine, FifoPerRecipient
  <2>2. NothingLost'
    <3>1. SUFFICES ASSUME open, NEW s \in 1 .. Len(sent), sent[s].rcpt \notin cut'
                   PROVE  s \in ToSet(got'[sent[s].rcpt]) \cup ToSet(mailbox'[sent[s].rcpt])
                                  \cup ToSet(pending'[sent[s].rcpt])
      BY DEF NothingLost
    <3>2. DEFINE q == sent[s].rcpt
    <3>3. q \in Peer
      <4>1. sent[s] \in Envelope
        BY <1>1 DEF TypeOK
      <4>. QED  BY <4>1 DEF Envelope
    <3>4. s \in ToSet(got[q]) \cup ToSet(mailbox[q]) \cup ToSet(pending[q])
      BY <3>1 DEF IInv, MailKept, NothingLost
    <3>5. q \notin cut'
      BY <3>1
    <3>. HIDE DEF q
    <3>6. s \in ToSet(got'[q]) \cup ToSet(mailbox'[q]) \cup ToSet(pending'[q])
      <4>1. CASE q # p
        BY <3>3, <3>4, <4>1
      <4>2. CASE q = p
        BY <3>4, <3>5, <4>2
      <4>. QED  BY <4>1, <4>2
    <3>. QED  BY <3>6 DEF q
  <2>. QED  BY <2>1, <2>2 DEF MailKept
<1>5. Unanswered' /\ RepliesMatch'
  BY DEF IInv, Unanswered, RepliesMatch
<1>. QED  BY <1>2, <1>3, <1>4, <1>5 DEF IInv

(* What leaves the mailbox by a read is at the end of what the peer has,   *)
(* but for a worker whose stdin fails.                                     *)
LEMMA TakeSafe ==
  ASSUME RelayAssumption, IInv, NEW p \in Peer,
         NEW last \in 0 .. Len(mailbox[p]), NEW n \in 0 .. last,
         \A i \in 1 .. last, j \in DOMAIN pending[p] : mailbox[p][i] < pending[p][j],
         mailbox' = [mailbox EXCEPT ![p] = SubSeq(@, last + 1, Len(@))],
         got' = [got EXCEPT ![p] = @ \o SubSeq(mailbox[p], 1, n)],
         cut' \in SUBSET Peer, cut \subseteq cut', n = last \/ p \in cut',
         UNCHANGED << open, sent, pending, requests >>,
         binds' \in 0 .. MaxBinds,
         receiver' \in [Peer -> 0 .. binds'],
         bindings' \in [Peer -> SUBSET (1 .. binds')]
  PROVE  IInv'
<1>. DEFINE more == got[p] \o SubSeq(mailbox[p], 1, n)
            rest == SubSeq(mailbox[p], last + 1, Len(mailbox[p]))
<1>1. /\ TypeOK /\ InLine(p) /\ Addressed(p)
      /\ got \in [Peer -> Seq(Nat)] /\ got[p] \in Seq(Nat)
      /\ mailbox \in [Peer -> Seq(Nat)] /\ mailbox[p] \in Seq(Nat)
      /\ pending \in [Peer -> Seq(Nat)] /\ pending[p] \in Seq(Nat)
  BY DEF IInv, TrafficBounded, WithinLimits, TypeOK
<1>2. /\ more \in Seq(Nat) /\ InOrder(more)
      /\ rest \in Seq(Nat) /\ InOrder(rest) /\ Len(rest) <= Len(mailbox[p])
      /\ ToSet(more) = ToSet(got[p]) \cup {mailbox[p][i] : i \in 1 .. n}
      /\ ToSet(rest) = {mailbox[p][i] : i \in last + 1 .. Len(mailbox[p])}
      /\ AllBefore(more, rest)
  <2>1. InOrder(got[p]) /\ InOrder(mailbox[p]) /\ AllBefore(got[p], mailbox[p])
    BY <1>1 DEF InLine
  <2>. QED  BY <1>1, <2>1, PageMoves
<1>3. got' = [got EXCEPT ![p] = more] /\ mailbox' = [mailbox EXCEPT ![p] = rest]
  OBVIOUS
<1>. HIDE DEF more, rest
<1>4. /\ got' \in [Peer -> Seq(Nat)] /\ got'[p] = more
      /\ mailbox' \in [Peer -> Seq(Nat)] /\ mailbox'[p] = rest
      /\ \A q \in Peer : q # p => got'[q] = got[q] /\ mailbox'[q] = mailbox[q]
  BY ONLY <1>1, <1>2, <1>3
<1>5. /\ \A i \in 1 .. Len(mailbox[p]) : mailbox[p][i] \in ToSet(mailbox[p])
      /\ \A i \in 1 .. n : i \in 1 .. Len(mailbox[p]) /\ i \in 1 .. last
      /\ \A i \in last + 1 .. Len(mailbox[p]) : i \in 1 .. Len(mailbox[p])
      /\ \A i \in 1 .. Len(mailbox[p]) : i \in 1 .. last \/ i \in last + 1 .. Len(mailbox[p])
  <2>1. \A i \in 1 .. Len(mailbox[p]) : mailbox[p][i] \in ToSet(mailbox[p])
    BY <1>1 DEF ToSet
  <2>2. Len(mailbox[p]) \in Nat
    BY <1>1
  <2>3. \A l \in Nat : \A m \in 0 .. l : \A c \in 0 .. m :
          /\ \A i \in 1 .. c : i \in 1 .. l /\ i \in 1 .. m
          /\ \A i \in m + 1 .. l : i \in 1 .. l
          /\ \A i \in 1 .. l : i \in 1 .. m \/ i \in m + 1 .. l
    OBVIOUS
  <2>. QED  BY <2>1, <2>2, <2>3, Zenon
<1>6. Len(rest) + Len(pending[p]) <= MailboxLimit
  <2>. DEFINE before == Len(mailbox[p])  after == Len(rest)  waiting == Len(pending[p])
  <2>1. /\ Len(mailbox[p]) \in Nat /\ Len(pending[p]) \in Nat /\ Len(rest) \in Nat
        /\ MailboxLimit \in Nat
    BY <1>1, <1>2, SMTT(25) DEF RelayAssumption
  <2>2. Len(mailbox[p]) + Len(pending[p]) <= MailboxLimit
    BY DEF IInv, TrafficBounded, WithinLimits, Backlog
  <2>3. Len(rest) <= Len(mailbox[p])
    BY <1>2
  <2>4. /\ before \in Nat /\ waiting \in Nat /\ after \in Nat /\ MailboxLimit \in Nat
        /\ before + waiting <= MailboxLimit /\ after <= before
    BY <2>1, <2>2, <2>3
  <2>. HIDE DEF before, after, waiting
  <2>5. after + waiting <= MailboxLimit
    BY ONLY <2>4
  <2>. QED  BY <2>5 DEF after, waiting
<1>7. InLine(p)'
  <2>1. AllBefore(more, pending[p])
    <3>1. \A i \in 1 .. n, t \in ToSet(pending[p]) : mailbox[p][i] < t
      BY <1>5 DEF ToSet
    <3>. QED  BY <1>1, <1>2, <3>1 DEF AllBefore, InLine
  <2>2. AllBefore(pending[p], rest)
    BY <1>1, <1>2, <1>5 DEF InLine, AllBefore
  <2>. QED  BY <1>1, <1>2, <1>4, <2>1, <2>2 DEF InLine
<1>8. ToSet(more) \cup ToSet(rest) \subseteq ToSet(got[p]) \cup ToSet(mailbox[p])
  BY <1>2, <1>5
<1>9. p \in cut' \/ ToSet(got[p]) \cup ToSet(mailbox[p]) \subseteq ToSet(more) \cup ToSet(rest)
  <2>1. ASSUME n = last, NEW s \in ToSet(mailbox[p]) PROVE s \in ToSet(more) \cup ToSet(rest)
    <3>1. DOMAIN mailbox[p] = 1 .. Len(mailbox[p])
      BY <1>1
    <3>2. PICK i \in DOMAIN mailbox[p] : s = mailbox[p][i]
      BY <2>1 DEF ToSet
    <3>. QED  BY <1>2, <1>5, <2>1, <3>1, <3>2
  <2>. QED  BY <1>2, <2>1
<1>10. pending' = pending
  OBVIOUS
<1>11. /\ pending' \in [Peer -> Seq(Nat)]
       /\ \A q \in Peer : q # p => /\ got'[q] = got[q] /\ mailbox'[q] = mailbox[q]
                                   /\ pending'[q] = pending[q]
       /\ Len(mailbox'[p]) + Len(pending'[p]) <= MailboxLimit
       /\ ToSet(got'[p]) \cup ToSet(mailbox'[p]) \cup ToSet(pending'[p])
            \subseteq ToSet(got[p]) \cup ToSet(mailbox[p]) \cup ToSet(pending[p])
       /\ \/ p \in cut'
          \/ ToSet(got[p]) \cup ToSet(mailbox[p]) \cup ToSet(pending[p])
               \subseteq ToSet(got'[p]) \cup ToSet(mailbox'[p]) \cup ToSet(pending'[p])
  BY <1>1, <1>4, <1>6, <1>8, <1>9, <1>10
<1>. QED  BY <1>4, <1>7, <1>11, BoxesMove

-----------------------------------------------------------------------------
(* A delivery that settles is the only one of its peer, after all that the *)
(* peer has and before all that waits for it.                              *)
LEMMA SettleSafe ==
  ASSUME RelayAssumption, IInv, NEW p \in Peer, Settle(p)
  PROVE  IInv'
<1>1. /\ TypeOK /\ InLine(p)
      /\ got \in [Peer -> Seq(Nat)] /\ got[p] \in Seq(Nat)
      /\ mailbox \in [Peer -> Seq(Nat)] /\ mailbox[p] \in Seq(Nat)
      /\ pending \in [Peer -> Seq(Nat)] /\ pending[p] \in Seq(Nat)
  BY DEF IInv, TrafficBounded, WithinLimits, TypeOK
<1>2. PICK i \in DOMAIN pending[p] :
        /\ pending' = [pending EXCEPT ![p] = RemoveAt(@, i)]
        /\ \/ got' = [got EXCEPT ![p] = Append(@, pending[p][i])] /\ UNCHANGED mailbox
           \/ /\ \E new \in Restored(mailbox[p], pending[p][i]) :
                   mailbox' = [mailbox EXCEPT ![p] = new]
              /\ UNCHANGED got
  BY DEF Settle
<1>3. UNCHANGED << open, sent, receiver, bindings, binds, requests, cut >>
  BY DEF Settle
<1>. DEFINE s == pending[p][i]
<1>4. i = 1 /\ Len(pending[p]) = 1 /\ s \in Nat /\ ToSet(pending[p]) = {s}
  <2>1. Len(pending[p]) <= 1
    BY <1>1 DEF InLine
  <2>. QED  BY <1>1, <1>2, <2>1, OnlyOne
<1>5. RemoveAt(pending[p], i) \in Seq(Nat) /\ Len(RemoveAt(pending[p], i)) = 0
  BY <1>1, <1>4 DEF RemoveAt
<1>6. ToSet(RemoveAt(pending[p], i)) = {}
  <2>1. DOMAIN RemoveAt(pending[p], i) = {}
    BY <1>5
  <2>. QED  BY <2>1 DEF ToSet
<1>7. /\ pending' \in [Peer -> Seq(Nat)]
      /\ Len(pending'[p]) = 0 /\ ToSet(pending'[p]) = {}
      /\ \A q \in Peer : q # p => pending'[q] = pending[q]
  BY ONLY <1>1, <1>2, <1>5, <1>6
<1>. HIDE DEF s
<1>8. /\ \A t \in ToSet(got[p]) : t < s
      /\ \A t \in ToSet(mailbox[p]) : s < t
  BY <1>1, <1>4 DEF InLine, AllBefore
<1>9. /\ Len(mailbox[p]) \in Nat /\ MailboxLimit \in Nat
      /\ Len(mailbox[p]) + 1 <= MailboxLimit
  <2>1. Len(mailbox[p]) \in Nat /\ MailboxLimit \in Nat
    BY <1>1 DEF RelayAssumption
  <2>2. Len(mailbox[p]) + Len(pending[p]) <= MailboxLimit
    BY DEF IInv, TrafficBounded, WithinLimits, Backlog
  <2>. QED  BY <1>4, <2>1, <2>2
<1>10. CASE got' = [got EXCEPT ![p] = Append(@, s)] /\ UNCHANGED mailbox
  <2>. DEFINE more == Append(got[p], s)
  <2>1. /\ more \in Seq(Nat) /\ ToSet(more) = ToSet(got[p]) \cup {s}
        /\ InOrder(more)
    <3>1. \A k \in DOMAIN got[p] : got[p][k] < s
      BY <1>8 DEF ToSet
    <3>. QED  BY <1>1, <1>4, <3>1, AppendHolds, AppendInOrder DEF InLine
  <2>2. got' = [got EXCEPT ![p] = more]
    BY <1>10
  <2>. HIDE DEF more
  <2>3. /\ got' \in [Peer -> Seq(Nat)] /\ got'[p] = more
        /\ \A q \in Peer : q # p => got'[q] = got[q]
    BY ONLY <1>1, <2>1, <2>2
  <2>4. mailbox' = mailbox
    BY <1>10
  <2>5. InLine(p)'
    BY <1>1, <1>7, <1>8, <2>1, <2>3, <2>4, SMTT(25) DEF InLine, AllBefore
  <2>6. Len(mailbox'[p]) + Len(pending'[p]) <= MailboxLimit
    BY <1>7, <1>9, <2>4
  <2>. QED  BY <1>1, <1>3, <1>4, <1>7, <2>1, <2>3, <2>4, <2>5, <2>6, BoxesMove DEF TypeOK
<1>11. ASSUME NEW new \in Restored(mailbox[p], s),
              mailbox' = [mailbox EXCEPT ![p] = new], UNCHANGED got
       PROVE  IInv'
  <2>1. /\ new \in [1 .. Len(mailbox[p]) + 1 -> ToSet(mailbox[p]) \cup {s}]
        /\ InOrder(new) /\ ToSet(new) = ToSet(mailbox[p]) \cup {s}
    BY <1>11 DEF Restored
  <2>2. ToSet(mailbox[p]) \cup {s} \subseteq Nat
    BY <1>1, <1>4 DEF ToSet
  <2>3. new \in Seq(Nat) /\ Len(new) = Len(mailbox[p]) + 1
    <3>1. Len(mailbox[p]) + 1 \in Nat
      BY <1>9
    <3>. QED  BY <2>1, <2>2, <3>1
  <2>4. /\ mailbox' \in [Peer -> Seq(Nat)] /\ mailbox'[p] = new
        /\ \A q \in Peer : q # p => mailbox'[q] = mailbox[q]
    BY ONLY <1>1, <1>11, <2>3
  <2>5. got' = got
    BY <1>11
  <2>6. InLine(p)'
    BY <1>1, <1>7, <1>8, <2>1, <2>4, <2>5 DEF InLine, AllBefore
  <2>7. Len(mailbox'[p]) + Len(pending'[p]) <= MailboxLimit
    BY <1>7, <1>9, <2>3, <2>4
  <2>. QED  BY <1>1, <1>3, <1>4, <1>7, <2>1, <2>4, <2>5, <2>6, <2>7, BoxesMove DEF TypeOK
<1>. QED  BY <1>2, <1>10, <1>11 DEF s
-----------------------------------------------------------------------------
(* What a send adds to the boxes: the i-th recipient's number, to one.     *)
LEMMA AddedAt ==
  ASSUME NEW box, NEW to \in Seq(Peer), NEW out, NEW o, NEW r \in Peer,
         \A i, j \in DOMAIN to : to[i] = to[j] => i = j
  PROVE  /\ \A i \in DOMAIN to : to[i] = r =>
              Added(box, to, out, o)[r] =
                IF out[i] = o THEN Append(box[r], Number(i)) ELSE box[r]
         /\ (\A i \in DOMAIN to : to[i] # r) => Added(box, to, out, o)[r] = box[r]
<1>1. ASSUME NEW i \in DOMAIN to, to[i] = r
      PROVE  Added(box, to, out, o)[r] =
               IF out[i] = o THEN Append(box[r], Number(i)) ELSE box[r]
  <2>1. (CHOOSE j \in DOMAIN to : to[j] = r) = i
    BY <1>1
  <2>2. (\E j \in DOMAIN to : to[j] = r /\ out[j] = o) <=> out[i] = o
    BY <1>1
  <2>. QED  BY <2>1, <2>2 DEF Added
<1>2. ASSUME \A i \in DOMAIN to : to[i] # r PROVE Added(box, to, out, o)[r] = box[r]
  BY <1>2 DEF Added
<1>. QED  BY <1>1, <1>2

(* What is where in two sequences together. *)
LEMMA ConcatAt ==
  ASSUME NEW T, NEW s \in Seq(T), NEW t \in Seq(T),
         NEW a \in Nat, NEW k \in Nat, a = Len(s), k = Len(t)
  PROVE  /\ s \o t \in Seq(T) /\ Len(s \o t) = a + k
         /\ \A i \in 1 .. a : (s \o t)[i] = s[i]
         /\ \A i \in 1 .. k : (s \o t)[a + i] = t[i]
<1>1. /\ s \o t \in Seq(T) /\ Len(s \o t) = a + k
      /\ \A i \in 1 .. a + k : (s \o t)[i] = IF i <= a THEN s[i] ELSE t[i - a]
  OBVIOUS
<1>2. \A i \in 1 .. a : i \in 1 .. a + k /\ i <= a
  OBVIOUS
<1>3. \A i \in 1 .. k : a + i \in 1 .. a + k /\ ~(a + i <= a) /\ a + i - a = i
  OBVIOUS
<1>. QED  BY ONLY <1>1, <1>2, <1>3

(* An empty box holds nothing. *)
LEMMA EmptyHolds ==
  ASSUME NEW box \in Seq(Nat), Len(box) = 0
  PROVE  ToSet(box) = {}
<1>1. DOMAIN box = {}
  OBVIOUS
<1>. QED  BY <1>1 DEF ToSet

(* A recipient's line stays one with a number above all of it, put in its  *)
(* mailbox, or, when nothing waits, anywhere.                              *)
LEMMA ServedInLine ==
  ASSUME NEW have \in Seq(Nat), NEW due \in Seq(Nat), NEW box \in Seq(Nat), NEW n \in Nat,
         InOrder(have), InOrder(box), Len(due) <= 1,
         AllBefore(have, due), AllBefore(have, box), AllBefore(due, box),
         \A s \in ToSet(have) \cup ToSet(due) \cup ToSet(box) : s < n
  PROVE  LET fine(h, d, b) ==
               /\ h \in Seq(Nat) /\ d \in Seq(Nat) /\ b \in Seq(Nat)
               /\ InOrder(h) /\ InOrder(b) /\ Len(d) <= 1
               /\ AllBefore(h, d) /\ AllBefore(h, b) /\ AllBefore(d, b)
               /\ ToSet(h) \cup ToSet(d) \cup ToSet(b)
                    = ToSet(have) \cup ToSet(due) \cup ToSet(box) \cup {n}
               /\ Len(d) + Len(b) = Len(due) + Len(box)
                                      + IF h = have THEN 1 ELSE 0
         IN /\ Len(due) = 0 /\ Len(box) = 0 => fine(Append(have, n), due, box)
            /\ Len(due) = 0 /\ Len(box) = 0 => fine(have, Append(due, n), box)
            /\ fine(have, due, Append(box, n))
<1>1. /\ Len(due) \in Nat /\ Len(box) \in Nat /\ Append(have, n) # have
      /\ Len(Append(due, n)) = Len(due) + 1 /\ Len(Append(box, n)) = Len(box) + 1
  <2>1. Len(Append(have, n)) = Len(have) + 1 /\ Len(have) \in Nat
    OBVIOUS
  <2>2. Append(have, n) # have
    BY <2>1
  <2>. QED  BY <2>2
<1>2. /\ \A i \in DOMAIN have : have[i] < n
      /\ \A i \in DOMAIN box : box[i] < n
  BY DEF ToSet
<1>3. /\ InOrder(Append(have, n)) /\ InOrder(Append(box, n))
      /\ Append(have, n) \in Seq(Nat) /\ ToSet(Append(have, n)) = ToSet(have) \cup {n}
      /\ Append(box, n) \in Seq(Nat) /\ ToSet(Append(box, n)) = ToSet(box) \cup {n}
      /\ Append(due, n) \in Seq(Nat) /\ ToSet(Append(due, n)) = ToSet(due) \cup {n}
  BY <1>2, AppendInOrder, AppendHolds
<1>4. ASSUME Len(due) = 0, Len(box) = 0
      PROVE  /\ ToSet(due) = {} /\ ToSet(box) = {}
             /\ Len(Append(due, n)) <= 1
  <2>1. Len(Append(due, n)) = 1
    BY ONLY <1>1, <1>4
  <2>2. ToSet(due) = {} /\ ToSet(box) = {}
    BY <1>4, EmptyHolds
  <2>3. 1 <= 1
    OBVIOUS
  <2>. QED  BY <2>1, <2>2, <2>3, Zenon
<1>5. /\ ToSet(due) = {} /\ ToSet(box) = {} =>
           /\ AllBefore(Append(have, n), due) /\ AllBefore(Append(have, n), box)
           /\ AllBefore(have, Append(due, n)) /\ AllBefore(Append(due, n), box)
      /\ AllBefore(have, Append(box, n)) /\ AllBefore(due, Append(box, n))
  BY <1>3 DEF AllBefore
<1>6. Len(due) = 0 /\ Len(box) = 0 =>
        /\ Len(due) + Len(box) = Len(due) + Len(box) + 0
        /\ Len(Append(due, n)) + Len(box) = Len(due) + Len(box) + 1
  BY <1>1
<1>7. Len(due) + Len(Append(box, n)) = Len(due) + Len(box) + 1
  BY <1>1
<1>. QED  BY <1>1, <1>3, <1>4, <1>5, <1>6, <1>7

(* A send numbers its envelopes after all there are, so each one comes last*)
(* at its recipient; a reply closes the request that it answers.           *)
LEMMA SendSafe ==
  ASSUME RelayAssumption, IInv, NEW p \in Peer, NEW to \in Seq(Peer),
         \A i, j \in DOMAIN to : to[i] = to[j] => i = j,
         NEW kind \in Kind, NEW id \in {Nothing} \cup requests,
         Send(p, to, kind, id)
  PROVE  IInv'
<1>1. /\ TypeOK /\ sent \in Seq(Envelope) /\ requests \subseteq Nat
      /\ got \in [Peer -> Seq(Nat)] /\ mailbox \in [Peer -> Seq(Nat)]
      /\ pending \in [Peer -> Seq(Nat)]
  BY DEF IInv, TrafficBounded, WithinLimits, TypeOK
<1>2. PICK k \in Nat : k = Len(to) /\ DOMAIN to = 1 .. k
  OBVIOUS
<1>3. PICK a \in Nat : a = Len(sent) /\ DOMAIN sent = 1 .. a
  BY <1>1
<1>4. id \in Nat
  BY <1>1 DEF Nothing
<1>. DEFINE env(i) == [from |-> p, kind |-> kind, replyTo |-> id, rcpt |-> to[i]]
            new == [i \in DOMAIN to |-> env(i)]
<1>5. \A i \in 1 .. k : env(i) \in Envelope
  BY <1>2, <1>4 DEF Envelope
<1>6. new \in Seq(Envelope) /\ Len(new) = k /\ \A i \in 1 .. k : new[i] = env(i)
  BY <1>2, <1>5
<1>7. sent' = sent \o new
  BY DEF Send
<1>. HIDE DEF new
<1>8. /\ sent' \in Seq(Envelope) /\ Len(sent') = a + k
      /\ \A i \in 1 .. a : sent'[i] = sent[i]
      /\ \A i \in 1 .. k : sent'[a + i] = env(i)
  <2>1. /\ \A i \in 1 .. a : sent'[i] = sent[i]
        /\ \A i \in 1 .. k : sent'[a + i] = new[i]
        /\ sent' \in Seq(Envelope) /\ Len(sent') = a + k
    <3>1. sent \in Seq(Envelope) /\ new \in Seq(Envelope) /\ a = Len(sent) /\ k = Len(new)
      BY <1>1, <1>3, <1>6
    <3>2. /\ sent \o new \in Seq(Envelope) /\ Len(sent \o new) = a + k
          /\ \A i \in 1 .. a : (sent \o new)[i] = sent[i]
          /\ \A i \in 1 .. k : (sent \o new)[a + i] = new[i]
      BY ONLY <3>1, a \in Nat, k \in Nat, ConcatAt, SMTT(25)
    <3>. QED  BY ONLY <3>2, <1>7
  <2>. QED  BY <1>6, <2>1
<1>9. \A s \in 1 .. a + k : s \in 1 .. a \/ (s - a \in 1 .. k /\ s = a + (s - a))
  OBVIOUS
<1>10. /\ \A s \in 1 .. a : s \in 1 .. a + k
       /\ \A i \in 1 .. k : a + i \in 1 .. a + k /\ a + i \in Nat /\ \A s \in 1 .. a : s < a + i
  OBVIOUS
<1>fields. \A i \in 1 .. k : /\ sent'[a + i].kind = kind /\ sent'[a + i].replyTo = id
                         /\ sent'[a + i].from = p /\ sent'[a + i].rcpt = to[i]
  <2>1. ASSUME NEW i \in 1 .. k
        PROVE  /\ sent'[a + i].kind = kind /\ sent'[a + i].replyTo = id
               /\ sent'[a + i].from = p /\ sent'[a + i].rcpt = to[i]
    <3>1. sent'[a + i] = env(i)
      BY <1>8
    <3>. QED  BY <3>1
  <2>. QED  BY <2>1
<1>11. PICK out \in [DOMAIN to -> {"handled", "pending", "queued"}] :
         /\ \A i \in DOMAIN to : out[i] \in Outcomes(to[i])
         /\ mailbox' = Added(mailbox, to, out, "queued")
         /\ pending' = Added(pending, to, out, "pending")
         /\ got' = Added(got, to, out, "handled")
  BY DEF Send
<1>. DEFINE Has(r) == ToSet(got[r]) \cup ToSet(pending[r]) \cup ToSet(mailbox[r])
            Gets(r) == ToSet(got'[r]) \cup ToSet(pending'[r]) \cup ToSet(mailbox'[r])
(* Each recipient's line. *)
<1>12. ASSUME NEW r \in Peer, NEW i \in 1 .. k, to[i] = r
       PROVE  /\ got'[r] \in Seq(Nat) /\ pending'[r] \in Seq(Nat) /\ mailbox'[r] \in Seq(Nat)
              /\ InLine(r)' /\ Backlog(r)' <= MailboxLimit
              /\ Gets(r) = Has(r) \cup {a + i}
  <2>1. i \in DOMAIN to /\ to[i] = r
    BY <1>2, <1>12
  <2>2. /\ got[r] \in Seq(Nat) /\ pending[r] \in Seq(Nat) /\ mailbox[r] \in Seq(Nat)
        /\ InLine(r) /\ Addressed(r)
    BY <1>1, <2>1 DEF IInv
  <2>3. /\ got'[r] = IF out[i] = "handled" THEN Append(got[r], a + i) ELSE got[r]
        /\ pending'[r] = IF out[i] = "pending" THEN Append(pending[r], a + i) ELSE pending[r]
        /\ mailbox'[r] = IF out[i] = "queued" THEN Append(mailbox[r], a + i) ELSE mailbox[r]
    <3>1. Number(i) = a + i
      BY <1>3 DEF Number, Accepted
    <3>2. \A x, y \in DOMAIN to : to[x] = to[y] => x = y
      BY <1>2
    <3>3. to \in Seq(Peer)
      BY <1>2
    <3>4. \A box, o : Added(box, to, out, o)[r] =
                        IF out[i] = o THEN Append(box[r], Number(i)) ELSE box[r]
      BY ONLY <2>1, <3>2, <3>3, r \in Peer, AddedAt
    <3>. QED  BY <1>11, <3>1, <3>4
  <2>4. out[i] \in {"handled", "pending", "queued"}
    BY <1>11, <2>1
  <2>5. out[i] # "queued" => Len(pending[r]) = 0 /\ Len(mailbox[r]) = 0
    <3>1. ASSUME out[i] # "queued" PROVE Backlog(r) = 0
      BY <1>11, <2>1, <3>1 DEF Outcomes
    <3>2. Len(pending[r]) \in Nat /\ Len(mailbox[r]) \in Nat
      BY <2>2
    <3>3. \A m, n \in Nat : m + n = 0 => m = 0 /\ n = 0
      OBVIOUS
    <3>. QED  BY <3>1, <3>2, <3>3 DEF Backlog
  <2>6. Backlog(r) < MailboxLimit
    BY <2>1 DEF Send, HasRoom
  <2>7. \A s \in ToSet(got[r]) \cup ToSet(pending[r]) \cup ToSet(mailbox[r]) : s < a + i
    BY <1>3, <1>10, <2>2 DEF Addressed, Mail
  <2>8. a + i \in Nat
    BY <1>10
  <2>9. /\ got'[r] \in Seq(Nat) /\ pending'[r] \in Seq(Nat) /\ mailbox'[r] \in Seq(Nat)
        /\ InOrder(got'[r]) /\ InOrder(mailbox'[r]) /\ Len(pending'[r]) <= 1
        /\ AllBefore(got'[r], pending'[r]) /\ AllBefore(got'[r], mailbox'[r])
        /\ AllBefore(pending'[r], mailbox'[r])
        /\ ToSet(got'[r]) \cup ToSet(pending'[r]) \cup ToSet(mailbox'[r])
             = ToSet(got[r]) \cup ToSet(pending[r]) \cup ToSet(mailbox[r]) \cup {a + i}
        /\ Len(pending'[r]) + Len(mailbox'[r]) <= Len(pending[r]) + Len(mailbox[r]) + 1
    <3>. DEFINE fine(h, d, b) ==
                  /\ h \in Seq(Nat) /\ d \in Seq(Nat) /\ b \in Seq(Nat)
                  /\ InOrder(h) /\ InOrder(b) /\ Len(d) <= 1
                  /\ AllBefore(h, d) /\ AllBefore(h, b) /\ AllBefore(d, b)
                  /\ ToSet(h) \cup ToSet(d) \cup ToSet(b)
                       = ToSet(got[r]) \cup ToSet(pending[r]) \cup ToSet(mailbox[r]) \cup {a + i}
                  /\ Len(d) + Len(b) = Len(pending[r]) + Len(mailbox[r])
                                         + IF h = got[r] THEN 1 ELSE 0
    <3>1. /\ InOrder(got[r]) /\ InOrder(mailbox[r]) /\ Len(pending[r]) <= 1
          /\ AllBefore(got[r], pending[r]) /\ AllBefore(got[r], mailbox[r])
          /\ AllBefore(pending[r], mailbox[r])
      BY <2>2 DEF InLine
    <3>2. /\ Len(pending[r]) = 0 /\ Len(mailbox[r]) = 0 =>
               fine(Append(got[r], a + i), pending[r], mailbox[r])
          /\ Len(pending[r]) = 0 /\ Len(mailbox[r]) = 0 =>
               fine(got[r], Append(pending[r], a + i), mailbox[r])
          /\ fine(got[r], pending[r], Append(mailbox[r], a + i))
      <4>. DEFINE h == got[r]  d == pending[r]  b == mailbox[r]
      <4>1. PICK n \in Nat : n = a + i
        BY <2>8
      <4>2. /\ h \in Seq(Nat) /\ d \in Seq(Nat) /\ b \in Seq(Nat)
            /\ InOrder(h) /\ InOrder(b) /\ Len(d) <= 1
            /\ AllBefore(h, d) /\ AllBefore(h, b) /\ AllBefore(d, b)
            /\ \A s \in ToSet(h) \cup ToSet(d) \cup ToSet(b) : s < n
        BY ONLY <2>2, <2>7, <3>1, <4>1
      <4>. HIDE DEF h, d, b
      <4>. DEFINE good(g, e, c) ==
                    /\ g \in Seq(Nat) /\ e \in Seq(Nat) /\ c \in Seq(Nat)
                    /\ InOrder(g) /\ InOrder(c) /\ Len(e) <= 1
                    /\ AllBefore(g, e) /\ AllBefore(g, c) /\ AllBefore(e, c)
                    /\ ToSet(g) \cup ToSet(e) \cup ToSet(c)
                         = ToSet(h) \cup ToSet(d) \cup ToSet(b) \cup {n}
                    /\ Len(e) + Len(c) = Len(d) + Len(b) + IF g = h THEN 1 ELSE 0
      <4>3. /\ Len(d) = 0 /\ Len(b) = 0 => good(Append(h, n), d, b)
            /\ Len(d) = 0 /\ Len(b) = 0 => good(h, Append(d, n), b)
            /\ good(h, d, Append(b, n))
        BY ONLY <4>2, n \in Nat, ServedInLine
      <4>. QED  BY <4>1, <4>3 DEF h, d, b
    <3>. HIDE DEF fine
    <3>3. fine(got'[r], pending'[r], mailbox'[r])
      BY <2>3, <2>4, <2>5, <3>2
    <3>4. Len(pending[r]) \in Nat /\ Len(mailbox[r]) \in Nat
      BY <2>2
    <3>5. (IF got'[r] = got[r] THEN 1 ELSE 0) \in 0 .. 1
      OBVIOUS
    <3>6. \A m, n \in Nat, e \in 0 .. 1 : m + n + e <= m + n + 1
      OBVIOUS
    <3>. QED  BY <3>3, <3>4, <3>5, <3>6 DEF fine
  <2>10. Backlog(r)' <= MailboxLimit
    <3>1. /\ Len(pending[r]) \in Nat /\ Len(mailbox[r]) \in Nat
          /\ Len(pending'[r]) \in Nat /\ Len(mailbox'[r]) \in Nat /\ MailboxLimit \in Nat
      BY <2>2, <2>9, SMTT(25) DEF RelayAssumption
    <3>2. \A b, c, d, e, f \in Nat : c + b < f /\ d + e <= b + c + 1 => e + d <= f
      OBVIOUS
    <3>. QED  BY <2>6, <2>9, <3>1, <3>2 DEF Backlog
  <2>. QED  BY <2>9, <2>10 DEF InLine
<1>13. ASSUME NEW r \in Peer, \A i \in 1 .. k : to[i] # r
       PROVE  got'[r] = got[r] /\ pending'[r] = pending[r] /\ mailbox'[r] = mailbox[r]
  BY <1>2, <1>11, <1>13, AddedAt
<1>14. /\ DOMAIN got' = Peer /\ got' = [r \in Peer |-> got'[r]]
       /\ DOMAIN pending' = Peer /\ pending' = [r \in Peer |-> pending'[r]]
       /\ DOMAIN mailbox' = Peer /\ mailbox' = [r \in Peer |-> mailbox'[r]]
  BY <1>11 DEF Added
<1>15. ASSUME NEW r \in Peer
       PROVE  /\ got'[r] \in Seq(Nat) /\ pending'[r] \in Seq(Nat) /\ mailbox'[r] \in Seq(Nat)
              /\ InLine(r)' /\ Backlog(r)' <= MailboxLimit
              /\ Has(r) \subseteq Gets(r)
              /\ \A s \in Gets(r) : s \in Has(r) \/ \E i \in 1 .. k : s = a + i /\ to[i] = r
  <2>1. CASE \A i \in 1 .. k : to[i] # r
    <3>1. got'[r] = got[r] /\ pending'[r] = pending[r] /\ mailbox'[r] = mailbox[r]
      BY <1>13, <2>1
    <3>2. /\ got[r] \in Seq(Nat) /\ pending[r] \in Seq(Nat) /\ mailbox[r] \in Seq(Nat)
          /\ InLine(r) /\ Backlog(r) <= MailboxLimit
      BY <1>1 DEF IInv, TrafficBounded, WithinLimits
    <3>. QED  BY <3>1, <3>2 DEF InLine, Backlog
  <2>2. ASSUME NEW i \in 1 .. k, to[i] = r
        PROVE  /\ got'[r] \in Seq(Nat) /\ pending'[r] \in Seq(Nat) /\ mailbox'[r] \in Seq(Nat)
               /\ InLine(r)' /\ Backlog(r)' <= MailboxLimit
               /\ Has(r) \subseteq Gets(r)
               /\ \A s \in Gets(r) : s \in Has(r) \/ \E j \in 1 .. k : s = a + j /\ to[j] = r
    <3>1. Gets(r) = Has(r) \cup {a + i}
      BY <1>12, <2>2
    <3>2. /\ got'[r] \in Seq(Nat) /\ pending'[r] \in Seq(Nat) /\ mailbox'[r] \in Seq(Nat)
          /\ InLine(r)' /\ Backlog(r)' <= MailboxLimit
      BY <1>12, <2>2
    <3>. HIDE DEF Gets, Has
    <3>. QED  BY <2>2, <3>1, <3>2
  <2>. QED  BY <2>1, <2>2
<1>. HIDE DEF env
<1>16. UNCHANGED << open, receiver, bindings, binds, cut >> /\ open
  BY DEF Send
<1>asked. /\ kind = "reply" => /\ k = 1 /\ id \in requests /\ sent[id].from = to[1]
                            /\ sent[id].rcpt = p
       /\ requests' = (requests \cup IF kind = "request" THEN {a + i : i \in 1 .. k} ELSE {})
                        \ IF kind = "reply" THEN {id} ELSE {}
  BY <1>2, <1>3 DEF Send, Answers, RequestsAfter, Number, Accepted
<1>17. TypeOK'
  <2>1. got' \in [Peer -> Seq(Nat)]
    BY <1>14, <1>15
  <2>2. pending' \in [Peer -> Seq(Nat)]
    BY <1>14, <1>15
  <2>3. mailbox' \in [Peer -> Seq(Nat)]
    BY <1>14, <1>15
  <2>4. requests' \subseteq Nat
    <3>1. {a + i : i \in 1 .. k} \subseteq Nat
      BY <1>10
    <3>. QED  BY <1>1, <1>asked, <3>1
  <2>. QED  BY <1>1, <1>8, <1>16, <2>1, <2>2, <2>3, <2>4 DEF TypeOK
<1>18. Len(sent') <= RunLimit
  BY <1>2, <1>3, <1>8 DEF Send, HasRoom, Accepted
<1>19. ASSUME NEW r \in Peer PROVE Addressed(r)'
  <2>1. \A s \in Has(r) : s \in 1 .. a /\ sent[s].rcpt = r
    BY <1>3 DEF IInv, Addressed, Mail
  <2>2. ASSUME NEW s \in Gets(r) PROVE s \in 1 .. Len(sent') /\ sent'[s].rcpt = r
    <3>1. CASE s \in Has(r)
      BY <1>8, <1>10, <2>1, <3>1
    <3>2. CASE \E i \in 1 .. k : s = a + i /\ to[i] = r
      BY <1>8, <1>10, <1>fields, <3>2
    <3>. QED  BY <1>15, <2>2, <3>1, <3>2
  <2>. QED  BY <2>2 DEF Addressed, Mail
<1>20. MailKept'
  <2>1. FifoPerRecipient'
    BY <1>15 DEF InLine, FifoPerRecipient
  <2>2. NothingLost'
    <3>1. SUFFICES ASSUME NEW s \in 1 .. Len(sent')
                   PROVE  \/ sent'[s].rcpt \in cut'
                          \/ s \in ToSet(got'[sent'[s].rcpt]) \cup ToSet(mailbox'[sent'[s].rcpt])
                                     \cup ToSet(pending'[sent'[s].rcpt])
      BY DEF NothingLost
    <3>2. CASE s \in 1 .. a
      <4>1. PICK q : q = sent[s].rcpt /\ q = sent'[s].rcpt
        BY <1>8, <3>2
      <4>2. q \in Peer
        <5>1. sent[s] \in Envelope
          BY <1>1, <1>3, <3>2
        <5>. QED  BY <4>1, <5>1 DEF Envelope
      <4>3. q \in cut \/ s \in Has(q)
        BY <1>3, <1>16, <3>2, <4>1 DEF IInv, MailKept, NothingLost
      <4>4. q \in cut' \/ s \in Gets(q)
        BY <1>15, <1>16, <4>2, <4>3
      <4>. QED  BY <4>1, <4>4
    <3>3. ASSUME NEW i \in 1 .. k, s = a + i
          PROVE  s \in Gets(sent'[s].rcpt)
      <4>1. sent'[s].rcpt = to[i]
        BY <1>fields, <3>3
      <4>2. to[i] \in Peer
        BY <1>2
      <4>3. a + i \in Gets(to[i])
        <5>1. Gets(to[i]) = Has(to[i]) \cup {a + i}
          BY ONLY <1>12, <4>2, i \in 1 .. k
        <5>. QED  BY ONLY <5>1
      <4>. QED  BY <3>3, <4>1, <4>3
    <3>. QED  BY <1>8, <1>9, <3>1, <3>2, <3>3
  <2>. QED  BY <2>1, <2>2 DEF MailKept
(* The requests and replies. *)
<1>23. /\ \A q \in requests : /\ q \in 1 .. a
                              /\ \A i \in 1 .. a : sent[i].kind = "reply" => sent[i].replyTo # q
       /\ \A i \in 1 .. a : sent[i].kind = "reply" => sent[i].replyTo \in 1 .. i - 1
  BY <1>3 DEF IInv, Unanswered, RepliesMatch
<1>24. ASSUME NEW i \in 1 .. a + k, sent'[i].kind = "reply"
       PROVE  /\ sent'[i].replyTo \in 1 .. i - 1 /\ sent'[i].replyTo \in 1 .. a
              /\ \/ i \in 1 .. a /\ sent[i].kind = "reply" /\ sent[i].replyTo = sent'[i].replyTo
                 \/ i = a + 1 /\ kind = "reply" /\ k = 1 /\ sent'[i].replyTo = id
  <2>1. CASE i \in 1 .. a
    <3>1. sent[i].kind = "reply" /\ sent[i].replyTo = sent'[i].replyTo
      BY <1>8, <1>24, <2>1
    <3>2. sent[i].replyTo \in 1 .. i - 1
      BY <1>23, <2>1, <3>1
    <3>3. \A n \in 1 .. i - 1 : n \in 1 .. a
      BY <2>1
    <3>. QED  BY <2>1, <3>1, <3>2, <3>3
  <2>2. ASSUME NEW j \in 1 .. k, i = a + j
        PROVE  i = a + 1 /\ kind = "reply" /\ k = 1 /\ sent'[i].replyTo = id /\ id \in 1 .. i - 1 /\ id \in 1 .. a
    <3>1. kind = "reply" /\ sent'[i].replyTo = id
      BY <1>fields, <1>24, <2>2
    <3>2. k = 1 /\ id \in 1 .. a
      BY <1>asked, <1>23, <3>1
    <3>3. j = 1
      BY <3>2
    <3>. QED  BY <2>2, <3>1, <3>2, <3>3
  <2>. QED  BY <1>9, <2>1, <2>2
<1>25. RepliesMatch'
  BY <1>8, <1>24 DEF RepliesMatch
<1>26. Unanswered'
  <2>1. SUFFICES ASSUME NEW q \in requests'
                 PROVE  /\ q \in 1 .. a + k
                        /\ \A i \in 1 .. a + k : sent'[i].kind = "reply" => sent'[i].replyTo # q
    BY <1>8 DEF Unanswered
  <2>2. CASE q \in requests
    BY <1>10, <1>asked, <1>23, <1>24, <2>1, <2>2
  <2>3. CASE q \notin requests
    <3>1. PICK j \in 1 .. k : q = a + j
      BY <1>asked, <2>1, <2>3
    <3>2. q \in 1 .. a + k /\ q \notin 1 .. a
      BY <3>1
    <3>. QED  BY <1>24, <3>2
  <2>. QED  BY <2>2, <2>3
<1>27. AnsweredOnce'
  <2>1. SUFFICES ASSUME NEW i \in 1 .. a + k, NEW j \in 1 .. a + k, sent'[i].kind = "reply"
                 PROVE  /\ sent'[sent'[i].replyTo].rcpt = sent'[i].from
                        /\ sent'[j].kind = "reply" /\ sent'[j].replyTo = sent'[i].replyTo => i = j
    BY <1>8 DEF AnsweredOnce
  <2>2. \A m, n \in 1 .. a : sent[m].kind = "reply" =>
          /\ sent[sent[m].replyTo].rcpt = sent[m].from
          /\ sent[n].kind = "reply" /\ sent[n].replyTo = sent[m].replyTo => m = n
    BY <1>3 DEF IInv, TrafficBounded, AnsweredOnce
  <2>3. sent'[sent'[i].replyTo].rcpt = sent'[i].from
    <3>1. sent'[i].replyTo \in 1 .. a
      BY <1>24, <2>1
    <3>2. CASE i \in 1 .. a
      BY <1>8, <1>24, <2>1, <2>2, <3>1, <3>2
    <3>3. CASE i = a + 1 /\ kind = "reply" /\ k = 1 /\ sent'[i].replyTo = id
      <4>1. sent'[i].from = p
        BY <1>fields, <3>3
      <4>. QED  BY <1>8, <1>asked, <3>1, <3>3, <4>1
    <3>. QED  BY <1>24, <2>1, <3>2, <3>3
  <2>4. ASSUME sent'[j].kind = "reply", sent'[j].replyTo = sent'[i].replyTo PROVE i = j
    <3>1. CASE i \in 1 .. a /\ j \in 1 .. a
      BY <1>8, <2>1, <2>2, <2>4, <3>1
    <3>2. CASE ~(i \in 1 .. a /\ j \in 1 .. a)
      <4>1. /\ sent'[i].kind = "reply" /\ sent'[j].kind = "reply"
            /\ sent'[j].replyTo = sent'[i].replyTo
        BY <2>1, <2>4
      <4>2. \/ i \in 1 .. a /\ sent[i].kind = "reply" /\ sent[i].replyTo = sent'[i].replyTo
            \/ i = a + 1 /\ kind = "reply" /\ sent'[i].replyTo = id
        BY <1>24, <4>1
      <4>3. \/ j \in 1 .. a /\ sent[j].kind = "reply" /\ sent[j].replyTo = sent'[j].replyTo
            \/ j = a + 1 /\ kind = "reply" /\ sent'[j].replyTo = id
        BY <1>24, <4>1
      <4>4. kind = "reply" => \A m \in 1 .. a : sent[m].kind = "reply" => sent[m].replyTo # id
        BY <1>asked, <1>23
      <4>. QED  BY <3>2, <4>1, <4>2, <4>3, <4>4
    <3>. QED  BY <3>1, <3>2
  <2>. QED  BY <2>3, <2>4
<1>28. TrafficBounded'
  BY <1>15, <1>17, <1>18, <1>27 DEF TrafficBounded, WithinLimits
<1>. QED  BY <1>15, <1>19, <1>20, <1>25, <1>26, <1>28 DEF IInv
(* Whom a broadcast goes to are peers, each of them once. *)
LEMMA OthersDiffer ==
  ASSUME RelayAssumption, NEW p \in Peer
  PROVE  /\ Others(p) \in Seq(Peer)
         /\ \A i, j \in DOMAIN Others(p) : Others(p)[i] = Others(p)[j] => i = j
<1>1. NPeers \in Nat \ {0} /\ p \in 1 .. NPeers
  BY DEF RelayAssumption, Peer
<1>2. \A i \in 1 .. NPeers - 1 : (IF i < p THEN i ELSE i + 1) \in 1 .. NPeers
  BY <1>1
<1>3. Others(p) \in [1 .. NPeers - 1 -> 1 .. NPeers]
  BY <1>2 DEF Others
<1>4. NPeers - 1 \in Nat
  BY <1>1
<1>5. Others(p) \in Seq(Peer)
  BY <1>3, <1>4 DEF Peer
<1>6. ASSUME NEW i \in 1 .. NPeers - 1, NEW j \in 1 .. NPeers - 1, Others(p)[i] = Others(p)[j]
      PROVE  i = j
  <2>1. (IF i < p THEN i ELSE i + 1) = (IF j < p THEN j ELSE j + 1)
    BY <1>6 DEF Others
  <2>. QED  BY <1>1, <2>1
<1>. QED  BY <1>3, <1>5, <1>6

(* A peer sends to one other or to all of them. *)
LEMMA SendAnySafe ==
  ASSUME RelayAssumption, IInv, NEW p \in Peer, SendAny(p)
  PROVE  IInv'
<1>1. PICK kind \in Kind, id \in {Nothing} \cup requests :
        \/ \E r \in Peer \ {p} : Send(p, <<r>>, kind, id)
        \/ Send(p, Others(p), kind, id)
  BY DEF SendAny
<1>2. ASSUME NEW r \in Peer \ {p}, Send(p, <<r>>, kind, id) PROVE IInv'
  <2>1. <<r>> \in Seq(Peer) /\ \A i, j \in DOMAIN <<r>> : <<r>>[i] = <<r>>[j] => i = j
    OBVIOUS
  <2>. QED  BY <1>1, <1>2, <2>1, SendSafe
<1>3. CASE Send(p, Others(p), kind, id)
  BY <1>1, <1>3, OthersDiffer, SendSafe
<1>. QED  BY <1>1, <1>2, <1>3

(* A read. *)
LEMMA ReadSafe ==
  ASSUME RelayAssumption, IInv, NEW p \in Peer, Read(p)
  PROVE  IInv'
<1>1. PICK after \in {0} \cup ToSet(got[p]), limit \in {1, MailboxLimit} : Inbox(p, after, limit)
  BY DEF Read
<1>2. limit \in Nat
  BY DEF RelayAssumption
<1>3. PICK seen \in 0 .. Len(mailbox[p]), last \in 0 .. Len(mailbox[p]) :
        /\ Take(p, after, limit, seen, last)
        /\ got' = [got EXCEPT ![p] = @ \o SubSeq(mailbox[p], seen + 1, last)]
  BY <1>1 DEF Inbox
<1>4. /\ seen = 0
      /\ \A i \in 1 .. last, j \in DOMAIN pending[p] : mailbox[p][i] < pending[p][j]
  BY <1>2, <1>3, TakeEffect
<1>5. /\ mailbox' = [mailbox EXCEPT ![p] = SubSeq(@, last + 1, Len(@))]
      /\ got' = [got EXCEPT ![p] = @ \o SubSeq(mailbox[p], 1, last)]
  BY <1>3, <1>4 DEF Take
<1>6. UNCHANGED << open, sent, pending, receiver, bindings, binds, requests, cut >>
  BY <1>1 DEF Inbox
<1>7. /\ cut' \in SUBSET Peer /\ binds' \in 0 .. MaxBinds
      /\ receiver' \in [Peer -> 0 .. binds'] /\ bindings' \in [Peer -> SUBSET (1 .. binds')]
  BY <1>6 DEF IInv, TrafficBounded, WithinLimits, TypeOK
<1>8. last \in 0 .. last
  OBVIOUS
<1>. QED  BY <1>4, <1>5, <1>6, <1>7, <1>8, TakeSafe

(* A token that a new binding takes is the latest. *)
LEMMA TokenTypes ==
  ASSUME RelayAssumption, TypeOK, NEW p \in Peer, NewToken(p)
  PROVE  /\ binds' \in 0 .. MaxBinds
         /\ binds + 1 \in 1 .. binds'
         /\ receiver \in [Peer -> 0 .. binds']
         /\ bindings \in [Peer -> SUBSET (1 .. binds')]
<1>1. binds \in Nat /\ binds' = binds + 1 /\ binds' \in 0 .. MaxBinds
  BY DEF NewToken, TypeOK, RelayAssumption
<1>2. 0 .. binds \subseteq 0 .. binds' /\ 1 .. binds \subseteq 1 .. binds'
  BY <1>1
<1>. QED  BY <1>1, <1>2, SMTT(25) DEF TypeOK

(* A binding with or without a callback. *)
LEMMA BindSafe ==
  ASSUME RelayAssumption, IInv, NEW p \in Peer, Bind(p)
  PROVE  IInv'
<1>1. NewToken(p) /\ bindings' = [bindings EXCEPT ![p] = @ \cup {binds + 1}]
  BY DEF Bind, NewBinding
<1>2. TypeOK
  BY DEF IInv, TrafficBounded, WithinLimits
<1>3. /\ binds' \in 0 .. MaxBinds /\ binds + 1 \in 1 .. binds'
      /\ receiver \in [Peer -> 0 .. binds'] /\ bindings \in [Peer -> SUBSET (1 .. binds')]
  BY <1>1, <1>2, TokenTypes
<1>4. bindings' \in [Peer -> SUBSET (1 .. binds')]
  BY <1>1, <1>3
<1>5. receiver' \in [Peer -> 0 .. binds']
  BY <1>3 DEF Bind
<1>. QED  BY <1>3, <1>4, <1>5, BoxesStay DEF Bind, NewBinding, NewToken

(* A worker's binding with the mail that waited, written to its end or cut. *)
LEMMA BindClaudeSafe ==
  ASSUME RelayAssumption, IInv, NEW p \in Peer, BindClaude(p)
  PROVE  IInv'
<1>1. PICK seen \in 0 .. Len(mailbox[p]), last \in 0 .. Len(mailbox[p]) :
        /\ Take(p, 0, MailboxLimit, seen, last)
        /\ \/ /\ NewBinding(p)
              /\ got' = [got EXCEPT ![p] = @ \o SubSeq(mailbox[p], seen + 1, last)]
              /\ receiver' = [receiver EXCEPT ![p] = binds + 1]
              /\ UNCHANGED cut
           \/ \E n \in seen .. last - 1 :
                /\ NewToken(p) /\ UNCHANGED bindings
                /\ got' = [got EXCEPT ![p] = @ \o SubSeq(mailbox[p], seen + 1, n)]
                /\ receiver' = [receiver EXCEPT ![p] = Nothing]
                /\ cut' = cut \cup {p}
  BY DEF BindClaude
<1>2. TypeOK /\ MailboxLimit \in Nat
  BY DEF IInv, TrafficBounded, WithinLimits, RelayAssumption
<1>3. /\ seen = 0
      /\ \A i \in 1 .. last, j \in DOMAIN pending[p] : mailbox[p][i] < pending[p][j]
  BY <1>1, <1>2, TakeEffect
<1>4. NewToken(p)
  BY <1>1 DEF NewBinding
<1>5. /\ binds' \in 0 .. MaxBinds /\ binds + 1 \in 1 .. binds'
      /\ receiver \in [Peer -> 0 .. binds'] /\ bindings \in [Peer -> SUBSET (1 .. binds')]
  BY <1>2, <1>4, TokenTypes
<1>6. mailbox' = [mailbox EXCEPT ![p] = SubSeq(@, last + 1, Len(@))]
  BY <1>1 DEF Take
<1>7. UNCHANGED << open, sent, pending, requests >>
  BY <1>4 DEF BindClaude
<1>8. CASE /\ NewBinding(p)
           /\ got' = [got EXCEPT ![p] = @ \o SubSeq(mailbox[p], seen + 1, last)]
           /\ receiver' = [receiver EXCEPT ![p] = binds + 1]
           /\ UNCHANGED cut
  <2>1. bindings' \in [Peer -> SUBSET (1 .. binds')] /\ receiver' \in [Peer -> 0 .. binds']
    BY <1>5, <1>8 DEF NewBinding
  <2>2. cut' \in SUBSET Peer /\ cut \subseteq cut'
    BY <1>2, <1>8 DEF TypeOK
  <2>3. got' = [got EXCEPT ![p] = @ \o SubSeq(mailbox[p], 1, last)]
    BY <1>3, <1>8
  <2>4. last \in 0 .. last
    OBVIOUS
  <2>. QED  BY <1>3, <1>5, <1>6, <1>7, <2>1, <2>2, <2>3, <2>4, TakeSafe
<1>9. ASSUME NEW n \in seen .. last - 1, UNCHANGED bindings,
             got' = [got EXCEPT ![p] = @ \o SubSeq(mailbox[p], seen + 1, n)],
             receiver' = [receiver EXCEPT ![p] = Nothing],
             cut' = cut \cup {p}
      PROVE  IInv'
  <2>1. bindings' \in [Peer -> SUBSET (1 .. binds')] /\ receiver' \in [Peer -> 0 .. binds']
    BY <1>5, <1>9 DEF Nothing
  <2>2. cut' \in SUBSET Peer /\ cut \subseteq cut' /\ p \in cut'
    BY <1>2, <1>9 DEF TypeOK
  <2>3. got' = [got EXCEPT ![p] = @ \o SubSeq(mailbox[p], 1, n)]
    BY <1>3, <1>9
  <2>4. n \in 0 .. last
    BY <1>3
  <2>. QED  BY <1>3, <1>5, <1>6, <1>7, <2>1, <2>2, <2>3, <2>4, TakeSafe
<1>. QED  BY <1>1, <1>8, <1>9

(* A close. *)
LEMMA CloseSafe ==
  ASSUME RelayAssumption, IInv, NEW p \in Peer, NEW t, Close(p, t)
  PROVE  IInv'
<1>1. TypeOK
  BY DEF IInv, TrafficBounded, WithinLimits
<1>2. binds' \in 0 .. MaxBinds /\ 0 \in 0 .. binds'
  BY <1>1 DEF Close, TypeOK, RelayAssumption
<1>3. bindings' \in [Peer -> SUBSET (1 .. binds')] /\ receiver' \in [Peer -> 0 .. binds']
  BY <1>1, <1>2 DEF Close, TypeOK, Nothing
<1>. QED  BY <1>2, <1>3, BoxesStay DEF Close

(* The end of the run: what is left of it is what the peers have. *)
LEMMA CleanupSafe ==
  ASSUME RelayAssumption, IInv, Cleanup
  PROVE  IInv'
<1>1. /\ TypeOK /\ UNCHANGED << sent, bindings, binds, got, cut >>
      /\ open' = FALSE /\ requests' = {}
      /\ \A p \in Peer : mailbox'[p] = <<>> /\ pending'[p] = <<>>
      /\ mailbox' \in [Peer -> Seq(Nat)] /\ pending' \in [Peer -> Seq(Nat)]
  BY DEF IInv, TrafficBounded, WithinLimits, Cleanup
<1>2. TypeOK'
  <2>1. 0 \in 0 .. binds
    BY <1>1 DEF TypeOK, RelayAssumption
  <2>2. receiver' \in [Peer -> 0 .. binds']
    BY <1>1, <2>1 DEF Cleanup, Nothing
  <2>. QED  BY <1>1, <2>2 DEF TypeOK
<1>3. MailKept'
  BY <1>1 DEF IInv, MailKept, FifoPerRecipient, NothingLost
<1>4. TrafficBounded'
  <2>1. ASSUME NEW p \in Peer PROVE Backlog(p)' <= MailboxLimit
    <3>1. Backlog(p)' = 0
      BY <1>1 DEF Backlog
    <3>. QED  BY <3>1 DEF RelayAssumption
  <2>. QED  BY <1>1, <1>2, <2>1 DEF IInv, TrafficBounded, WithinLimits, AnsweredOnce
<1>5. ASSUME NEW p \in Peer PROVE InLine(p)' /\ Addressed(p)'
  BY <1>1 DEF IInv, InLine, Addressed, Mail, InOrder, AllBefore, ToSet
<1>6. Unanswered' /\ RepliesMatch'
  BY <1>1 DEF IInv, Unanswered, RepliesMatch
<1>. QED  BY <1>3, <1>4, <1>5, <1>6 DEF IInv

-----------------------------------------------------------------------------
(* Every step keeps the invariant. *)
LEMMA StepSafe == RelayAssumption /\ IInv /\ [Next]_vars => IInv'
<1>. SUFFICES ASSUME RelayAssumption, IInv, [Next]_vars PROVE IInv'
  OBVIOUS
<1>1. CASE UNCHANGED vars
  <2>1. TypeOK
    BY DEF IInv, TrafficBounded, WithinLimits
  <2>. QED  BY <1>1, <2>1, BoxesStay DEF vars, TypeOK
<1>2. ASSUME NEW p \in Peer, SendAny(p) PROVE IInv'
  BY <1>2, SendAnySafe
<1>3. ASSUME NEW p \in Peer, Settle(p) PROVE IInv'
  BY <1>3, SettleSafe
<1>4. ASSUME NEW p \in Peer, Read(p) PROVE IInv'
  BY <1>4, ReadSafe
<1>5. ASSUME NEW p \in Peer, Bind(p) PROVE IInv'
  BY <1>5, BindSafe
<1>6. ASSUME NEW p \in Peer, BindClaude(p) PROVE IInv'
  BY <1>6, BindClaudeSafe
<1>7. ASSUME NEW p \in Peer, NEW t \in 1 .. MaxBinds, Close(p, t) PROVE IInv'
  BY <1>7, CloseSafe
<1>8. CASE Cleanup
  BY <1>8, CleanupSafe
<1>. QED  BY <1>1, <1>2, <1>3, <1>4, <1>5, <1>6, <1>7, <1>8 DEF Next

(* In every run of the relay, whatever its receivers answer and when: each *)
(* peer's mail is in line, and open requests are unanswered.               *)
THEOREM SafetyInvariant == Spec => []IInv
<1>1. Init => IInv
  BY InitSafe, RelayAssumption
<1>2. IInv /\ [Next]_vars => IInv'
  BY StepSafe, RelayAssumption
<1>. QED  BY <1>1, <1>2, PTL DEF Spec

(* A peer receives what it is sent once and in the order it was accepted,  *)
(* over direct delivery, late refusals and the inbox together, and nothing *)
(* accepted disappears while the run is open, but for a worker whose stdin *)
(* fails as its mailbox is emptied (RelayBroker.send, readInbox).          *)
THEOREM MailIsKept == Spec => []MailKept
<1>1. IInv => MailKept
  BY DEF IInv
<1>. QED  BY <1>1, SafetyInvariant, PTL

(* No mailbox grows past its limit, unresolved deliveries included, no run *)
(* accepts more than its own, and a request is answered at most once, by   *)
(* the peer it was sent to.                                                *)
THEOREM TrafficIsBounded == Spec => []TrafficBounded
<1>1. IInv => TrafficBounded
  BY DEF IInv
<1>. QED  BY <1>1, SafetyInvariant, PTL

(* A receiver stays registered through the close of an earlier binding; it *)
(* goes with its own binding, the run, or a later binding that fails.      *)
THEOREM ReceiversAreKept == Spec => ReceiverKept
<1>. DEFINE Stays(p) == receiver[p] # Nothing /\ receiver[p] \in bindings'[p] /\ open'
                          => receiver'[p] # Nothing \/ (p \in cut' /\ binds' # binds)
<1>1. IInv /\ [Next]_vars => [\A p \in Peer : Stays(p)]_vars
  <2>. SUFFICES ASSUME IInv, Next, NEW p \in Peer PROVE Stays(p)
    OBVIOUS
  <2>1. /\ binds \in Nat /\ receiver \in [Peer -> 0 .. binds]
        /\ bindings \in [Peer -> SUBSET (1 .. binds)]
    BY RelayAssumption DEF RelayAssumption, IInv, TrafficBounded, WithinLimits, TypeOK
  <2>2. ASSUME UNCHANGED receiver PROVE Stays(p)
    BY <2>2
  <2>3. ASSUME NEW q \in Peer, SendAny(q) \/ Settle(q) \/ Read(q) PROVE UNCHANGED receiver
    BY <2>3 DEF SendAny, Send, Settle, Read, Inbox
  <2>4. ASSUME NEW q \in Peer, Bind(q) \/ BindClaude(q) PROVE Stays(p)
    <3>1. binds + 1 # Nothing /\ binds' = binds + 1 /\ binds' # binds
      <4>1. NewToken(q)
        BY <2>4 DEF Bind, BindClaude, NewBinding
      <4>. QED  BY <2>1, <4>1 DEF NewToken, Nothing
    <3>2. \/ receiver' = receiver
          \/ receiver' = [receiver EXCEPT ![q] = binds + 1]
          \/ receiver' = [receiver EXCEPT ![q] = Nothing] /\ q \in cut'
      BY <2>4 DEF Bind, BindClaude
    <3>. QED  BY <2>1, <3>1, <3>2
  <2>5. ASSUME NEW q \in Peer, NEW t, Close(q, t) PROVE Stays(p)
    BY <2>1, <2>5 DEF Close
  <2>6. ASSUME Cleanup PROVE Stays(p)
    BY <2>6 DEF Cleanup
  <2>. QED  BY <2>2, <2>3, <2>4, <2>5, <2>6 DEF Next
<1>. QED  BY <1>1, SafetyInvariant, PTL DEF Spec, ReceiverKept
-----------------------------------------------------------------------------
(* PiWorker. An attempt of a native worker: its lease outlives its session,*)
(* and its report is honest, for any budget and any number of envelopes,   *)
(* renewals and tools.                                                     *)

-----------------------------------------------------------------------------
\* What promptError may be.
Errors == {"none", "stopped", "lease", "init", "prompt", "cooldown", "release"}

\* An element at the end leaves the head.
LEMMA PiAppends ==
  ASSUME NEW s \in Seq(Nat), NEW x \in Nat
  PROVE  /\ Append(s, x) \in Seq(Nat) /\ Append(s, x) # <<>>
         /\ s # <<>> => Head(Append(s, x)) = Head(s)
         /\ s = <<>> => Head(Append(s, x)) = x
<1>1. Append(s, x) \in Seq(Nat) /\ Len(Append(s, x)) = Len(s) + 1 /\ Len(s) \in Nat
  OBVIOUS
<1>2. Append(s, x) # <<>>
  BY <1>1
<1>3. s # <<>> => Append(s, x)[1] = s[1]
  BY <1>1
<1>4. s = <<>> => Append(s, x)[1] = x
  BY <1>1
<1> QED
  BY <1>1, <1>2, <1>3, <1>4

\* What the runner returns: done only for a last message that is an answer or cut off,
\* and then with the report, for an attempt that nothing has stopped.
LEMMA PiReturns ==
  ASSUME Pi!IInv, NEW err \in Errors, Pi!Return(err)
  PROVE  /\ nResult' \in [state : {"none", "timed_out", "aborted", "failed", "done"}, report : Seq(Nat),
                         cleanup : BOOLEAN]
         /\ nResult'.state # "none" /\ nError' = err
         /\ nResult'.state = "done" => /\ nSignal = "live" /\ ~nStalled /\ ~nLimit /\ err = "none"
                                       /\ nFinal \in {"answer", "cut"} /\ nResult'.report = nReport
<1>1. nFinal \in Pi!Kinds \cup {"none"} /\ nSignal \in {"live", "abort", "timeout"} /\ nReport \in Seq(Nat)
  BY DEF Pi!IInv, Pi!PiWorkerSound, Pi!TypeOK, Pi!Typed
<1>2. /\ Pi!Verdict(err) \in {"timed_out", "aborted", "failed", "done"}
      /\ Pi!Verdict(err) = "done" => /\ nSignal = "live" /\ ~nStalled /\ ~nLimit /\ err = "none"
                                     /\ nFinal \in {"answer", "cut"}
  BY <1>1 DEF Pi!Verdict, Pi!Kinds
<1>3. nResult' = [state |-> Pi!Verdict(err), report |-> nReport, cleanup |-> nLate # "none"] /\ nError' = err
  BY DEF Pi!Return
<1> HIDE DEF Pi!Verdict
<1>4. (nLate # "none") \in BOOLEAN
  OBVIOUS
<1> QED
  BY <1>1, <1>2, <1>3, <1>4

-----------------------------------------------------------------------------
(* The steps.                                                              *)

LEMMA PiStageDoneSafe == ASSUME Pi!IInv, Pi!StageDone PROVE Pi!IInv'
<1>1. Pi!TypeOK'
  BY PiAssumption DEF Pi!IInv, Pi!PiWorkerSound, Pi!StageDone, Pi!After, Pi!Stages, Pi!Abandonable,
     Pi!Router, Pi!model, Pi!stream, Pi!relayed, Pi!account, Pi!TypeOK, Pi!Typed, Pi!Cleanup
<1>2. Pi!Typed'
  BY PiAssumption, ZenonT(60) DEF Pi!IInv, Pi!PiWorkerSound, Pi!StageDone, Pi!After, Pi!Stages,
     Pi!Abandonable,
     Pi!Router, Pi!model, Pi!stream, Pi!relayed, Pi!account, Pi!TypeOK, Pi!Typed
<1>3. Pi!Placed'
  BY DEF Pi!IInv, Pi!PiWorkerSound, Pi!StageDone, Pi!After, Pi!Stages, Pi!Abandonable, Pi!Router,
     Pi!model, Pi!stream, Pi!relayed, Pi!account, Pi!Placed, Pi!Typed, Pi!TypeOK
<1>4. Pi!Spoken'
  BY DEF Pi!IInv, Pi!PiWorkerSound, Pi!StageDone, Pi!After, Pi!Stages, Pi!Abandonable, Pi!Router,
     Pi!model, Pi!stream, Pi!relayed, Pi!account, Pi!Spoken, Pi!Typed, Pi!TypeOK
<1>5. Pi!Keeping'
  BY DEF Pi!IInv, Pi!PiWorkerSound, Pi!StageDone, Pi!After, Pi!Stages, Pi!Abandonable, Pi!Router,
     Pi!model, Pi!stream, Pi!relayed, Pi!account, Pi!Keeping, Pi!Typed, Pi!TypeOK
<1>6. Pi!Returned'
  BY DEF Pi!IInv, Pi!PiWorkerSound, Pi!StageDone, Pi!After, Pi!Stages, Pi!Abandonable, Pi!Router,
     Pi!model, Pi!stream, Pi!relayed, Pi!account, Pi!Returned, Pi!Typed
<1>7. Pi!LeaseOutlivesSession'
  BY DEF Pi!IInv, Pi!PiWorkerSound, Pi!StageDone, Pi!After, Pi!Stages, Pi!Abandonable, Pi!Router,
     Pi!model, Pi!stream, Pi!relayed, Pi!account, Pi!LeaseOutlivesSession, Pi!Keeping, Pi!Placed,
     Pi!Typed, Pi!TypeOK
<1>8. Pi!ReportHonest'
  BY DEF Pi!IInv, Pi!PiWorkerSound, Pi!StageDone, Pi!After, Pi!Stages, Pi!Abandonable, Pi!Router,
     Pi!model, Pi!stream, Pi!relayed, Pi!account, Pi!ReportHonest, Pi!Spoken, Pi!Placed, Pi!Keeping,
     Pi!Returned, Pi!Typed, Pi!TypeOK
<1> QED
  BY <1>1, <1>2, <1>3, <1>4, <1>5, <1>6, <1>7, <1>8 DEF Pi!IInv, Pi!PiWorkerSound

LEMMA PiFactoryDoneSafe == ASSUME Pi!IInv, Pi!FactoryDone PROVE Pi!IInv'
<1>1. Pi!TypeOK'
  BY PiAssumption DEF Pi!IInv, Pi!PiWorkerSound, Pi!FactoryDone, Pi!stream, Pi!relayed, Pi!account,
     Pi!TypeOK, Pi!Typed, Pi!Stages, Pi!Abandonable, Pi!Router, Pi!Cleanup
<1>2. Pi!Typed'
  BY PiAssumption, ZenonT(60) DEF Pi!IInv, Pi!PiWorkerSound, Pi!FactoryDone, Pi!stream, Pi!relayed,
     Pi!account,
     Pi!TypeOK, Pi!Typed
<1>3. Pi!Placed'
  BY DEF Pi!IInv, Pi!PiWorkerSound, Pi!FactoryDone, Pi!stream, Pi!relayed, Pi!account, Pi!Placed,
     Pi!Typed, Pi!TypeOK
<1>4. Pi!Spoken'
  BY DEF Pi!IInv, Pi!PiWorkerSound, Pi!FactoryDone, Pi!stream, Pi!relayed, Pi!account, Pi!Spoken,
     Pi!Typed, Pi!TypeOK
<1>5. Pi!Keeping'
  BY DEF Pi!IInv, Pi!PiWorkerSound, Pi!FactoryDone, Pi!stream, Pi!relayed, Pi!account, Pi!Keeping,
     Pi!Typed, Pi!TypeOK
<1>6. Pi!Returned'
  BY DEF Pi!IInv, Pi!PiWorkerSound, Pi!FactoryDone, Pi!stream, Pi!relayed, Pi!account, Pi!Returned,
     Pi!Typed
<1>7. Pi!LeaseOutlivesSession'
  BY DEF Pi!IInv, Pi!PiWorkerSound, Pi!FactoryDone, Pi!stream, Pi!relayed, Pi!account,
     Pi!LeaseOutlivesSession, Pi!Keeping, Pi!Placed, Pi!Typed, Pi!TypeOK
<1>8. Pi!ReportHonest'
  BY DEF Pi!IInv, Pi!PiWorkerSound, Pi!FactoryDone, Pi!stream, Pi!relayed, Pi!account, Pi!ReportHonest,
     Pi!Spoken, Pi!Placed, Pi!Keeping, Pi!Returned, Pi!Typed, Pi!TypeOK
<1> QED
  BY <1>1, <1>2, <1>3, <1>4, <1>5, <1>6, <1>7, <1>8 DEF Pi!IInv, Pi!PiWorkerSound

LEMMA PiStageFailsSafe == ASSUME Pi!IInv, Pi!StageFails PROVE Pi!IInv'
<1>1. Pi!TypeOK'
  BY PiAssumption DEF Pi!IInv, Pi!PiWorkerSound, Pi!StageFails, Pi!Stages, Pi!Abandonable, Pi!Router,
     Pi!model, Pi!stream, Pi!relayed, Pi!account, Pi!TypeOK, Pi!Typed, Pi!Cleanup
<1>2. Pi!Typed'
  BY PiAssumption DEF Pi!IInv, Pi!PiWorkerSound, Pi!StageFails, Pi!Stages, Pi!Abandonable, Pi!Router,
     Pi!model, Pi!stream, Pi!relayed, Pi!account, Pi!TypeOK, Pi!Typed
<1>3. Pi!Placed' /\ Pi!Spoken' /\ Pi!Keeping' /\ Pi!Returned'
  BY DEF Pi!IInv, Pi!PiWorkerSound, Pi!StageFails, Pi!Stages, Pi!Abandonable, Pi!Router, Pi!model,
     Pi!stream, Pi!relayed, Pi!account, Pi!Placed, Pi!Typed, Pi!TypeOK, Pi!Spoken, Pi!Keeping,
     Pi!Returned
<1>4. Pi!LeaseOutlivesSession' /\ Pi!ReportHonest'
  BY DEF Pi!IInv, Pi!PiWorkerSound, Pi!StageFails, Pi!Stages, Pi!Abandonable, Pi!Router, Pi!model,
     Pi!stream, Pi!relayed, Pi!account, Pi!LeaseOutlivesSession, Pi!Keeping, Pi!Placed, Pi!Typed,
     Pi!TypeOK, Pi!ReportHonest, Pi!Spoken, Pi!Returned
<1> QED
  BY <1>1, <1>2, <1>3, <1>4 DEF Pi!IInv, Pi!PiWorkerSound

\* Who is stopped in a stage leaves it behind, before there is a lease to give back.
LEMMA PiAbortSafe == ASSUME Pi!IInv, NEW why \in {"abort", "timeout"}, Pi!Abort(why) PROVE Pi!IInv'
<1>1. Pi!TypeOK'
  BY PiAssumption DEF Pi!IInv, Pi!PiWorkerSound, Pi!Abort, Pi!Abandonable, Pi!stream, Pi!relayed,
     Pi!account, Pi!TypeOK, Pi!Typed, Pi!Stages, Pi!Router, Pi!Cleanup
<1>2. Pi!Typed'
  BY PiAssumption DEF Pi!IInv, Pi!PiWorkerSound, Pi!Abort, Pi!Abandonable, Pi!stream, Pi!relayed,
     Pi!account, Pi!TypeOK, Pi!Typed
<1>3. Pi!Placed'
  BY DEF Pi!IInv, Pi!PiWorkerSound, Pi!Abort, Pi!Abandonable, Pi!stream, Pi!relayed, Pi!account,
     Pi!Placed, Pi!Typed, Pi!TypeOK
<1>4. Pi!Spoken'
  BY DEF Pi!IInv, Pi!PiWorkerSound, Pi!Abort, Pi!Abandonable, Pi!stream, Pi!relayed, Pi!account,
     Pi!Spoken, Pi!Typed, Pi!TypeOK
<1>5. Pi!Keeping'
  BY DEF Pi!IInv, Pi!PiWorkerSound, Pi!Abort, Pi!Abandonable, Pi!stream, Pi!relayed, Pi!account,
     Pi!Keeping, Pi!Typed, Pi!TypeOK
<1>6. Pi!Returned'
  BY DEF Pi!IInv, Pi!PiWorkerSound, Pi!Abort, Pi!Abandonable, Pi!stream, Pi!relayed, Pi!account,
     Pi!Returned, Pi!Typed
<1>7. Pi!LeaseOutlivesSession'
  BY DEF Pi!IInv, Pi!PiWorkerSound, Pi!Abort, Pi!Abandonable, Pi!stream, Pi!relayed, Pi!account,
     Pi!LeaseOutlivesSession, Pi!Keeping, Pi!Placed, Pi!Typed, Pi!TypeOK
<1>8. Pi!ReportHonest'
  BY DEF Pi!IInv, Pi!PiWorkerSound, Pi!Abort, Pi!Abandonable, Pi!stream, Pi!relayed, Pi!account,
     Pi!ReportHonest, Pi!Spoken, Pi!Placed, Pi!Keeping, Pi!Returned, Pi!Typed, Pi!TypeOK
<1> QED
  BY <1>1, <1>2, <1>3, <1>4, <1>5, <1>6, <1>7, <1>8 DEF Pi!IInv, Pi!PiWorkerSound

LEMMA PiTurnStartSafe == ASSUME Pi!IInv, Pi!TurnStart PROVE Pi!IInv'
<1>1. Pi!TypeOK'
  BY PiAssumption DEF Pi!IInv, Pi!PiWorkerSound, Pi!TurnStart, Pi!Live, Pi!life, Pi!relayed, Pi!account,
     Pi!TypeOK, Pi!Typed, Pi!Stages, Pi!Abandonable, Pi!Router, Pi!Cleanup
<1>2. Pi!Typed'
  BY PiAssumption DEF Pi!IInv, Pi!PiWorkerSound, Pi!TurnStart, Pi!Live, Pi!life, Pi!relayed, Pi!account,
     Pi!TypeOK, Pi!Typed
<1>3. Pi!Placed' /\ Pi!Spoken' /\ Pi!Keeping' /\ Pi!Returned'
  BY DEF Pi!IInv, Pi!PiWorkerSound, Pi!TurnStart, Pi!Live, Pi!life, Pi!relayed, Pi!account, Pi!Placed,
     Pi!Typed, Pi!TypeOK, Pi!Spoken, Pi!Keeping, Pi!Returned
<1>4. Pi!LeaseOutlivesSession' /\ Pi!ReportHonest'
  BY DEF Pi!IInv, Pi!PiWorkerSound, Pi!TurnStart, Pi!Live, Pi!life, Pi!relayed, Pi!account,
     Pi!LeaseOutlivesSession, Pi!Keeping, Pi!Placed, Pi!Typed, Pi!TypeOK, Pi!ReportHonest, Pi!Spoken,
     Pi!Returned
<1> QED
  BY <1>1, <1>2, <1>3, <1>4 DEF Pi!IInv, Pi!PiWorkerSound

\* The first answer stays the head of the report.
LEMMA PiMessageEndSafe == ASSUME Pi!IInv, NEW kind \in Pi!Kinds, Pi!MessageEnd(kind) PROVE Pi!IInv'
<1>1. Pi!TypeOK'
  BY PiAssumption DEF Pi!IInv, Pi!PiWorkerSound, Pi!MessageEnd, Pi!MergeReport, Pi!Live, Pi!Kinds,
     Pi!life, Pi!relayed, Pi!account, Pi!TypeOK, Pi!Typed, Pi!Stages, Pi!Abandonable, Pi!Router,
     Pi!Cleanup
<1>2. Pi!Typed'
  <2>1. nTurns \in Nat
    BY PiAssumption DEF Pi!IInv, Pi!PiWorkerSound, Pi!TypeOK
  <2>2. nReport' \in Seq(Nat) /\ nAnswers' \in Seq(Nat)
    BY <2>1, PiAppends DEF Pi!IInv, Pi!MessageEnd, Pi!MergeReport, Pi!Typed
  <2> QED
    BY <2>2 DEF Pi!IInv, Pi!MessageEnd, Pi!Live, Pi!life, Pi!relayed, Pi!account, Pi!Typed
<1>3. Pi!Placed'
  BY DEF Pi!IInv, Pi!PiWorkerSound, Pi!MessageEnd, Pi!MergeReport, Pi!Live, Pi!Kinds, Pi!life,
     Pi!relayed, Pi!account, Pi!Placed, Pi!Typed, Pi!TypeOK
<1>4. Pi!Spoken'
  <2>1. nTurns \in Nat
    BY PiAssumption DEF Pi!IInv, Pi!PiWorkerSound, Pi!TypeOK
  <2> QED
    BY <2>1, PiAppends DEF Pi!IInv, Pi!MessageEnd, Pi!MergeReport, Pi!Spoken, Pi!Typed
<1>5. Pi!Keeping'
  BY DEF Pi!IInv, Pi!PiWorkerSound, Pi!MessageEnd, Pi!MergeReport, Pi!Live, Pi!Kinds, Pi!life,
     Pi!relayed, Pi!account, Pi!Keeping, Pi!Typed, Pi!TypeOK
<1>6. Pi!Returned'
  BY DEF Pi!IInv, Pi!PiWorkerSound, Pi!MessageEnd, Pi!MergeReport, Pi!Live, Pi!Kinds, Pi!life,
     Pi!relayed, Pi!account, Pi!Returned, Pi!Typed
<1>7. Pi!LeaseOutlivesSession'
  BY DEF Pi!IInv, Pi!PiWorkerSound, Pi!MessageEnd, Pi!MergeReport, Pi!Live, Pi!Kinds, Pi!life,
     Pi!relayed, Pi!account, Pi!LeaseOutlivesSession, Pi!Keeping, Pi!Placed, Pi!Typed, Pi!TypeOK
<1>8. Pi!ReportHonest'
  <2>1. nTurns \in Nat /\ nResult.state # "done"
    BY PiAssumption DEF Pi!IInv, Pi!PiWorkerSound, Pi!TypeOK, Pi!Returned, Pi!Placed, Pi!MessageEnd,
       Pi!Live
  <2>2. nResult' = nResult
    BY DEF Pi!MessageEnd
  <2>3. nAnswers' # <<>> => nReport' # <<>> /\ Head(nReport') = Head(nAnswers')
    <3>1. CASE kind = "answer"
      <4>1. nAnswers' = Append(nAnswers, nTurns) /\ (nReport' = Append(nReport, nTurns) \/ (nReport # <<>> /\ nReport' = nReport))
        BY <3>1 DEF Pi!MessageEnd, Pi!MergeReport
      <4> QED
        BY <2>1, <4>1, PiAppends DEF Pi!IInv, Pi!PiWorkerSound, Pi!ReportHonest, Pi!Spoken, Pi!Typed
    <3>2. CASE kind # "answer"
      BY <3>2 DEF Pi!IInv, Pi!PiWorkerSound, Pi!ReportHonest, Pi!MessageEnd
    <3> QED
      BY <3>1, <3>2
  <2> QED
    BY <2>1, <2>2, <2>3 DEF Pi!ReportHonest
<1> QED
  BY <1>1, <1>2, <1>3, <1>4, <1>5, <1>6, <1>7, <1>8 DEF Pi!IInv, Pi!PiWorkerSound

LEMMA PiToolStartSafe == ASSUME Pi!IInv, Pi!ToolStart PROVE Pi!IInv'
<1>1. Pi!TypeOK'
  BY PiAssumption DEF Pi!IInv, Pi!PiWorkerSound, Pi!ToolStart, Pi!life, Pi!stream, Pi!relayed,
     Pi!account, Pi!TypeOK, Pi!Typed, Pi!Stages, Pi!Abandonable, Pi!Router, Pi!Cleanup
<1>2. Pi!Typed'
  BY PiAssumption DEF Pi!IInv, Pi!PiWorkerSound, Pi!ToolStart, Pi!life, Pi!stream, Pi!relayed,
     Pi!account, Pi!TypeOK, Pi!Typed
<1>3. Pi!Placed' /\ Pi!Spoken' /\ Pi!Keeping' /\ Pi!Returned'
  BY DEF Pi!IInv, Pi!PiWorkerSound, Pi!ToolStart, Pi!life, Pi!stream, Pi!relayed, Pi!account, Pi!Placed,
     Pi!Typed, Pi!TypeOK, Pi!Spoken, Pi!Keeping, Pi!Returned
<1>4. Pi!LeaseOutlivesSession' /\ Pi!ReportHonest'
  BY DEF Pi!IInv, Pi!PiWorkerSound, Pi!ToolStart, Pi!life, Pi!stream, Pi!relayed, Pi!account,
     Pi!LeaseOutlivesSession, Pi!Keeping, Pi!Placed, Pi!Typed, Pi!TypeOK, Pi!ReportHonest, Pi!Spoken,
     Pi!Returned
<1> QED
  BY <1>1, <1>2, <1>3, <1>4 DEF Pi!IInv, Pi!PiWorkerSound

LEMMA PiToolEndSafe == ASSUME Pi!IInv, Pi!ToolEnd PROVE Pi!IInv'
<1>1. Pi!TypeOK'
  BY PiAssumption DEF Pi!IInv, Pi!PiWorkerSound, Pi!ToolEnd, Pi!life, Pi!stream, Pi!relayed, Pi!account,
     Pi!TypeOK, Pi!Typed, Pi!Stages, Pi!Abandonable, Pi!Router, Pi!Cleanup
<1>2. Pi!Typed'
  BY PiAssumption, ZenonT(60) DEF Pi!IInv, Pi!PiWorkerSound, Pi!ToolEnd, Pi!life, Pi!stream,
     Pi!relayed, Pi!account,
     Pi!TypeOK, Pi!Typed
<1>3. Pi!Placed' /\ Pi!Spoken' /\ Pi!Keeping' /\ Pi!Returned'
  BY DEF Pi!IInv, Pi!PiWorkerSound, Pi!ToolEnd, Pi!life, Pi!stream, Pi!relayed, Pi!account, Pi!Placed,
     Pi!Typed, Pi!TypeOK, Pi!Spoken, Pi!Keeping, Pi!Returned
<1>4. Pi!LeaseOutlivesSession' /\ Pi!ReportHonest'
  BY DEF Pi!IInv, Pi!PiWorkerSound, Pi!ToolEnd, Pi!life, Pi!stream, Pi!relayed, Pi!account,
     Pi!LeaseOutlivesSession, Pi!Keeping, Pi!Placed, Pi!Typed, Pi!TypeOK, Pi!ReportHonest, Pi!Spoken,
     Pi!Returned
<1> QED
  BY <1>1, <1>2, <1>3, <1>4 DEF Pi!IInv, Pi!PiWorkerSound

LEMMA PiTurnEndSafe == ASSUME Pi!IInv, Pi!TurnEnd PROVE Pi!IInv'
<1>1. Pi!TypeOK'
  BY PiAssumption DEF Pi!IInv, Pi!PiWorkerSound, Pi!TurnEnd, Pi!Live, Pi!life, Pi!relayed, Pi!account,
     Pi!TypeOK, Pi!Typed, Pi!Stages, Pi!Abandonable, Pi!Router, Pi!Cleanup
<1>2. Pi!Typed'
  BY PiAssumption DEF Pi!IInv, Pi!PiWorkerSound, Pi!TurnEnd, Pi!Live, Pi!life, Pi!relayed, Pi!account,
     Pi!TypeOK, Pi!Typed
<1>3. Pi!Placed' /\ Pi!Spoken' /\ Pi!Keeping' /\ Pi!Returned'
  BY DEF Pi!IInv, Pi!PiWorkerSound, Pi!TurnEnd, Pi!Live, Pi!life, Pi!relayed, Pi!account, Pi!Placed,
     Pi!Typed, Pi!TypeOK, Pi!Spoken, Pi!Keeping, Pi!Returned
<1>4. Pi!LeaseOutlivesSession' /\ Pi!ReportHonest'
  BY DEF Pi!IInv, Pi!PiWorkerSound, Pi!TurnEnd, Pi!Live, Pi!life, Pi!relayed, Pi!account,
     Pi!LeaseOutlivesSession, Pi!Keeping, Pi!Placed, Pi!Typed, Pi!TypeOK, Pi!ReportHonest, Pi!Spoken,
     Pi!Returned
<1> QED
  BY <1>1, <1>2, <1>3, <1>4 DEF Pi!IInv, Pi!PiWorkerSound

LEMMA PiSessionEndsSafe == ASSUME Pi!IInv, Pi!SessionEnds PROVE Pi!IInv'
<1>1. Pi!TypeOK'
  BY PiAssumption DEF Pi!IInv, Pi!PiWorkerSound, Pi!SessionEnds, Pi!life, Pi!stream, Pi!relayed,
     Pi!account, Pi!TypeOK, Pi!Typed, Pi!Stages, Pi!Abandonable, Pi!Router, Pi!Cleanup
<1>2. Pi!Typed'
  BY PiAssumption, ZenonT(60) DEF Pi!IInv, Pi!PiWorkerSound, Pi!SessionEnds, Pi!life, Pi!stream,
     Pi!relayed,
     Pi!account, Pi!TypeOK, Pi!Typed
<1>3. Pi!Placed' /\ Pi!Spoken' /\ Pi!Keeping' /\ Pi!Returned'
  BY DEF Pi!IInv, Pi!PiWorkerSound, Pi!SessionEnds, Pi!life, Pi!stream, Pi!relayed, Pi!account,
     Pi!Placed, Pi!Typed, Pi!TypeOK, Pi!Spoken, Pi!Keeping, Pi!Returned
<1>4. Pi!LeaseOutlivesSession' /\ Pi!ReportHonest'
  BY DEF Pi!IInv, Pi!PiWorkerSound, Pi!SessionEnds, Pi!life, Pi!stream, Pi!relayed, Pi!account,
     Pi!LeaseOutlivesSession, Pi!Keeping, Pi!Placed, Pi!Typed, Pi!TypeOK, Pi!ReportHonest, Pi!Spoken,
     Pi!Returned
<1> QED
  BY <1>1, <1>2, <1>3, <1>4 DEF Pi!IInv, Pi!PiWorkerSound

LEMMA PiSteerSafe == ASSUME Pi!IInv, Pi!Steer PROVE Pi!IInv'
<1>1. Pi!TypeOK'
  BY PiAssumption DEF Pi!IInv, Pi!PiWorkerSound, Pi!Steer, Pi!life, Pi!model, Pi!stream, Pi!account,
     Pi!TypeOK, Pi!Typed, Pi!Stages, Pi!Abandonable, Pi!Router, Pi!Cleanup
<1>2. Pi!Typed'
  BY PiAssumption DEF Pi!IInv, Pi!PiWorkerSound, Pi!Steer, Pi!life, Pi!model, Pi!stream, Pi!account,
     Pi!TypeOK, Pi!Typed
<1>3. Pi!Placed' /\ Pi!Spoken' /\ Pi!Keeping' /\ Pi!Returned'
  BY DEF Pi!IInv, Pi!PiWorkerSound, Pi!Steer, Pi!life, Pi!model, Pi!stream, Pi!account, Pi!Placed,
     Pi!Typed, Pi!TypeOK, Pi!Spoken, Pi!Keeping, Pi!Returned
<1>4. Pi!LeaseOutlivesSession' /\ Pi!ReportHonest'
  BY DEF Pi!IInv, Pi!PiWorkerSound, Pi!Steer, Pi!life, Pi!model, Pi!stream, Pi!account,
     Pi!LeaseOutlivesSession, Pi!Keeping, Pi!Placed, Pi!Typed, Pi!TypeOK, Pi!ReportHonest, Pi!Spoken,
     Pi!Returned
<1> QED
  BY <1>1, <1>2, <1>3, <1>4 DEF Pi!IInv, Pi!PiWorkerSound

LEMMA PiSteerSettlesSafe == ASSUME Pi!IInv, Pi!SteerSettles PROVE Pi!IInv'
<1>1. Pi!TypeOK'
  BY PiAssumption DEF Pi!IInv, Pi!PiWorkerSound, Pi!SteerSettles, Pi!life, Pi!model, Pi!stream,
     Pi!account, Pi!TypeOK, Pi!Typed, Pi!Stages, Pi!Abandonable, Pi!Router, Pi!Cleanup
<1>2. Pi!Typed'
  BY PiAssumption DEF Pi!IInv, Pi!PiWorkerSound, Pi!SteerSettles, Pi!life, Pi!model, Pi!stream,
     Pi!account, Pi!TypeOK, Pi!Typed
<1>3. Pi!Placed' /\ Pi!Spoken' /\ Pi!Keeping' /\ Pi!Returned'
  BY DEF Pi!IInv, Pi!PiWorkerSound, Pi!SteerSettles, Pi!life, Pi!model, Pi!stream, Pi!account,
     Pi!Placed, Pi!Typed, Pi!TypeOK, Pi!Spoken, Pi!Keeping, Pi!Returned
<1>4. Pi!LeaseOutlivesSession' /\ Pi!ReportHonest'
  BY DEF Pi!IInv, Pi!PiWorkerSound, Pi!SteerSettles, Pi!life, Pi!model, Pi!stream, Pi!account,
     Pi!LeaseOutlivesSession, Pi!Keeping, Pi!Placed, Pi!Typed, Pi!TypeOK, Pi!ReportHonest, Pi!Spoken,
     Pi!Returned
<1> QED
  BY <1>1, <1>2, <1>3, <1>4 DEF Pi!IInv, Pi!PiWorkerSound

LEMMA PiStallSafe == ASSUME Pi!IInv, Pi!Stall PROVE Pi!IInv'
<1>1. Pi!TypeOK'
  BY PiAssumption DEF Pi!IInv, Pi!PiWorkerSound, Pi!Stall, Pi!life, Pi!stream, Pi!relayed, Pi!account,
     Pi!TypeOK, Pi!Typed, Pi!Stages, Pi!Abandonable, Pi!Router, Pi!Cleanup
<1>2. Pi!Typed'
  BY PiAssumption DEF Pi!IInv, Pi!PiWorkerSound, Pi!Stall, Pi!life, Pi!stream, Pi!relayed, Pi!account,
     Pi!TypeOK, Pi!Typed
<1>3. Pi!Placed' /\ Pi!Spoken' /\ Pi!Keeping' /\ Pi!Returned'
  BY DEF Pi!IInv, Pi!PiWorkerSound, Pi!Stall, Pi!life, Pi!stream, Pi!relayed, Pi!account, Pi!Placed,
     Pi!Typed, Pi!TypeOK, Pi!Spoken, Pi!Keeping, Pi!Returned
<1>4. Pi!LeaseOutlivesSession' /\ Pi!ReportHonest'
  BY DEF Pi!IInv, Pi!PiWorkerSound, Pi!Stall, Pi!life, Pi!stream, Pi!relayed, Pi!account,
     Pi!LeaseOutlivesSession, Pi!Keeping, Pi!Placed, Pi!Typed, Pi!TypeOK, Pi!ReportHonest, Pi!Spoken,
     Pi!Returned
<1> QED
  BY <1>1, <1>2, <1>3, <1>4 DEF Pi!IInv, Pi!PiWorkerSound

LEMMA PiTickSafe == ASSUME Pi!IInv, Pi!Tick PROVE Pi!IInv'
<1>1. Pi!TypeOK'
  BY PiAssumption DEF Pi!IInv, Pi!PiWorkerSound, Pi!Tick, Pi!life, Pi!model, Pi!stream, Pi!relayed,
     Pi!TypeOK, Pi!Typed, Pi!Stages, Pi!Abandonable, Pi!Router, Pi!Cleanup
<1>2. Pi!Typed'
  <2>1. nKeeper.calls + 1 \in Nat
    BY DEF Pi!IInv, Pi!Typed
  <2>2. nKeeper' \in [on : BOOLEAN, renewing : BOOLEAN, failed : BOOLEAN, calls : Nat]
    BY <2>1 DEF Pi!IInv, Pi!Tick, Pi!Typed
  <2> QED
    BY <2>2 DEF Pi!IInv, Pi!Tick, Pi!life, Pi!model, Pi!stream, Pi!relayed, Pi!Typed
<1>3. Pi!Placed'
  BY DEF Pi!IInv, Pi!PiWorkerSound, Pi!Tick, Pi!life, Pi!model, Pi!stream, Pi!relayed, Pi!Placed,
     Pi!Typed, Pi!TypeOK
<1>4. Pi!Spoken'
  BY DEF Pi!IInv, Pi!PiWorkerSound, Pi!Tick, Pi!life, Pi!model, Pi!stream, Pi!relayed, Pi!Spoken,
     Pi!Typed, Pi!TypeOK
<1>5. Pi!Keeping'
  BY DEF Pi!IInv, Pi!PiWorkerSound, Pi!Tick, Pi!life, Pi!model, Pi!stream, Pi!relayed, Pi!Keeping,
     Pi!Typed, Pi!TypeOK
<1>6. Pi!Returned'
  BY DEF Pi!IInv, Pi!PiWorkerSound, Pi!Tick, Pi!life, Pi!model, Pi!stream, Pi!relayed, Pi!Returned,
     Pi!Typed
<1>7. Pi!LeaseOutlivesSession'
  BY DEF Pi!IInv, Pi!PiWorkerSound, Pi!Tick, Pi!life, Pi!model, Pi!stream, Pi!relayed,
     Pi!LeaseOutlivesSession, Pi!Keeping, Pi!Placed, Pi!Typed, Pi!TypeOK
<1>8. Pi!ReportHonest'
  BY DEF Pi!IInv, Pi!PiWorkerSound, Pi!Tick, Pi!life, Pi!model, Pi!stream, Pi!relayed, Pi!ReportHonest,
     Pi!Spoken, Pi!Placed, Pi!Keeping, Pi!Returned, Pi!Typed, Pi!TypeOK
<1> QED
  BY <1>1, <1>2, <1>3, <1>4, <1>5, <1>6, <1>7, <1>8 DEF Pi!IInv, Pi!PiWorkerSound

LEMMA PiRenewedSafe == ASSUME Pi!IInv, Pi!Renewed PROVE Pi!IInv'
<1>1. Pi!TypeOK'
  BY PiAssumption DEF Pi!IInv, Pi!PiWorkerSound, Pi!Renewed, Pi!life, Pi!stream, Pi!relayed, Pi!TypeOK,
     Pi!Typed, Pi!Stages, Pi!Abandonable, Pi!Router, Pi!Cleanup
<1>2. Pi!Typed'
  BY PiAssumption, ZenonT(60) DEF Pi!IInv, Pi!PiWorkerSound, Pi!Renewed, Pi!life, Pi!stream,
     Pi!relayed, Pi!TypeOK,
     Pi!Typed
<1>3. Pi!Placed' /\ Pi!Spoken' /\ Pi!Keeping' /\ Pi!Returned'
  BY ZenonT(60) DEF Pi!IInv, Pi!PiWorkerSound, Pi!Renewed, Pi!life, Pi!stream, Pi!relayed,
     Pi!Placed, Pi!Typed,
     Pi!TypeOK, Pi!Spoken, Pi!Keeping, Pi!Returned
<1>4. Pi!LeaseOutlivesSession' /\ Pi!ReportHonest'
  BY DEF Pi!IInv, Pi!PiWorkerSound, Pi!Renewed, Pi!life, Pi!stream, Pi!relayed, Pi!LeaseOutlivesSession,
     Pi!Keeping, Pi!Placed, Pi!Typed, Pi!TypeOK, Pi!ReportHonest, Pi!Spoken, Pi!Returned
<1> QED
  BY <1>1, <1>2, <1>3, <1>4 DEF Pi!IInv, Pi!PiWorkerSound

LEMMA PiPromptOverSafe == ASSUME Pi!IInv, Pi!PromptOver PROVE Pi!IInv'
<1>1. Pi!TypeOK'
  BY PiAssumption DEF Pi!IInv, Pi!PiWorkerSound, Pi!PromptOver, Pi!stream, Pi!relayed, Pi!account,
     Pi!TypeOK, Pi!Typed, Pi!Stages, Pi!Abandonable, Pi!Router, Pi!Cleanup
<1>2. Pi!Typed'
  BY PiAssumption DEF Pi!IInv, Pi!PiWorkerSound, Pi!PromptOver, Pi!stream, Pi!relayed, Pi!account,
     Pi!TypeOK, Pi!Typed
<1>3. Pi!Placed' /\ Pi!Spoken' /\ Pi!Keeping' /\ Pi!Returned'
  BY DEF Pi!IInv, Pi!PiWorkerSound, Pi!PromptOver, Pi!stream, Pi!relayed, Pi!account, Pi!Placed,
     Pi!Typed, Pi!TypeOK, Pi!Spoken, Pi!Keeping, Pi!Returned
<1>4. Pi!LeaseOutlivesSession' /\ Pi!ReportHonest'
  BY DEF Pi!IInv, Pi!PiWorkerSound, Pi!PromptOver, Pi!stream, Pi!relayed, Pi!account,
     Pi!LeaseOutlivesSession, Pi!Keeping, Pi!Placed, Pi!Typed, Pi!TypeOK, Pi!ReportHonest, Pi!Spoken,
     Pi!Returned
<1> QED
  BY <1>1, <1>2, <1>3, <1>4 DEF Pi!IInv, Pi!PiWorkerSound

LEMMA PiGraceOverSafe == ASSUME Pi!IInv, Pi!GraceOver PROVE Pi!IInv'
<1>1. Pi!TypeOK'
  BY PiAssumption DEF Pi!IInv, Pi!PiWorkerSound, Pi!GraceOver, Pi!model, Pi!stream, Pi!relayed,
     Pi!account, Pi!TypeOK, Pi!Typed, Pi!Stages, Pi!Abandonable, Pi!Router, Pi!Cleanup
<1>2. Pi!Typed'
  BY PiAssumption DEF Pi!IInv, Pi!PiWorkerSound, Pi!GraceOver, Pi!model, Pi!stream, Pi!relayed,
     Pi!account, Pi!TypeOK, Pi!Typed
<1>3. Pi!Placed' /\ Pi!Spoken' /\ Pi!Keeping' /\ Pi!Returned'
  BY DEF Pi!IInv, Pi!PiWorkerSound, Pi!GraceOver, Pi!model, Pi!stream, Pi!relayed, Pi!account,
     Pi!Placed, Pi!Typed, Pi!TypeOK, Pi!Spoken, Pi!Keeping, Pi!Returned
<1>4. Pi!LeaseOutlivesSession' /\ Pi!ReportHonest'
  BY DEF Pi!IInv, Pi!PiWorkerSound, Pi!GraceOver, Pi!model, Pi!stream, Pi!relayed, Pi!account,
     Pi!LeaseOutlivesSession, Pi!Keeping, Pi!Placed, Pi!Typed, Pi!TypeOK, Pi!ReportHonest, Pi!Spoken,
     Pi!Returned
<1> QED
  BY <1>1, <1>2, <1>3, <1>4 DEF Pi!IInv, Pi!PiWorkerSound

\* The session is gone before its lease can be.
LEMMA PiCloseSafe == ASSUME Pi!IInv, Pi!Close PROVE Pi!IInv'
<1>1. Pi!TypeOK'
  BY PiAssumption DEF Pi!IInv, Pi!PiWorkerSound, Pi!Close, Pi!Return, Pi!Verdict, Pi!stream, Pi!relayed,
     Pi!account, Pi!NoResult, Pi!TypeOK, Pi!Typed, Pi!Stages, Pi!Abandonable, Pi!Router, Pi!Cleanup
<1>2. Pi!Typed'
  <2>1. nError \in Errors
    BY DEF Pi!IInv, Pi!Typed, Errors
  <2>2. /\ nError' \in Errors
        /\ nResult' \in [state : {"none", "timed_out", "aborted", "failed", "done"}, report : Seq(Nat),
                       cleanup : BOOLEAN]
    BY <2>1, PiReturns DEF Pi!IInv, Pi!Close, Pi!Typed
  <2>3. nStreaming' = FALSE /\ UNCHANGED <<nRouted, nAsked, nStalled, Pi!stream, nTool, Pi!relayed, Pi!account>>
    BY DEF Pi!Close
  <2> QED
    BY <2>2, <2>3 DEF Pi!IInv, Pi!stream, Pi!relayed, Pi!account, Errors, Pi!Typed
<1>3. Pi!Placed'
  BY DEF Pi!IInv, Pi!PiWorkerSound, Pi!Close, Pi!Return, Pi!Verdict, Pi!stream, Pi!relayed, Pi!account,
     Pi!NoResult, Pi!Placed, Pi!Typed, Pi!TypeOK
<1>4. Pi!Spoken'
  BY DEF Pi!IInv, Pi!PiWorkerSound, Pi!Close, Pi!Return, Pi!Verdict, Pi!stream, Pi!relayed, Pi!account,
     Pi!NoResult, Pi!Spoken, Pi!Typed, Pi!TypeOK
<1>5. Pi!Keeping'
  BY DEF Pi!IInv, Pi!PiWorkerSound, Pi!Close, Pi!Return, Pi!Verdict, Pi!stream, Pi!relayed, Pi!account,
     Pi!NoResult, Pi!Keeping, Pi!Typed, Pi!TypeOK
<1>6. Pi!Returned'
  BY DEF Pi!IInv, Pi!PiWorkerSound, Pi!Close, Pi!Return, Pi!Verdict, Pi!stream, Pi!relayed, Pi!account,
     Pi!NoResult, Pi!Returned, Pi!Typed
<1>7. Pi!LeaseOutlivesSession'
  BY DEF Pi!IInv, Pi!PiWorkerSound, Pi!Close, Pi!Return, Pi!Verdict, Pi!stream, Pi!relayed, Pi!account,
     Pi!NoResult, Pi!LeaseOutlivesSession, Pi!Keeping, Pi!Placed, Pi!Typed, Pi!TypeOK
<1>8. Pi!ReportHonest'
  <2>1. CASE nLease = "none"
    <3>1. Pi!Return(nError) /\ nError \in Errors
      BY <2>1 DEF Pi!IInv, Pi!Close, Pi!Typed, Errors
    <3>2. nResult'.state = "done" => /\ nSignal = "live" /\ ~nStalled /\ ~nLimit /\ nError = "none"
                                     /\ nFinal \in {"answer", "cut"} /\ nResult'.report = nReport
      BY <3>1, PiReturns
    <3>3. nResult'.state = "done" => nSession' = "disposed" /\ nLate = "none"
      BY <3>2 DEF Pi!IInv, Pi!PiWorkerSound, Pi!TypeOK, Pi!Placed, Pi!Keeping, Pi!Close
    <3> QED
      BY <3>1, <3>2, <3>3 DEF Pi!IInv, Pi!PiWorkerSound, Pi!ReportHonest, Pi!Spoken, Pi!Close,
         Pi!Return, Pi!stream
  <2>2. CASE nLease # "none"
    BY <2>2 DEF Pi!IInv, Pi!PiWorkerSound, Pi!ReportHonest, Pi!Returned, Pi!Close, Pi!stream
  <2> QED
    BY <2>1, <2>2
<1> QED
  BY <1>1, <1>2, <1>3, <1>4, <1>5, <1>6, <1>7, <1>8 DEF Pi!IInv, Pi!PiWorkerSound

\* An abandoned stage keeps the lease beyond the return.
LEMMA PiReportSafe == ASSUME Pi!IInv, Pi!Report PROVE Pi!IInv'
<1>1. Pi!TypeOK'
  BY PiAssumption DEF Pi!IInv, Pi!PiWorkerSound, Pi!Report, Pi!Return, Pi!Verdict, Pi!model, Pi!stream,
     Pi!relayed, Pi!TypeOK, Pi!Typed, Pi!Stages, Pi!Abandonable, Pi!Router, Pi!Cleanup
<1>2. Pi!Typed'
  <2>1. PICK err \in Errors :
          IF nLate # "none" THEN Pi!Return(err) /\ UNCHANGED nKeeper
          ELSE /\ nPc' = "releasing" /\ nError' = err /\ UNCHANGED nResult
               /\ nKeeper' = [nKeeper EXCEPT !.on = FALSE]
    BY DEF Pi!IInv, Pi!Report, Pi!Typed, Errors
  <2> QED
    BY <2>1, PiReturns, ZenonT(60) DEF Pi!IInv, Pi!Report, Errors, Pi!model, Pi!stream, Pi!relayed,
       Pi!Typed
<1>3. Pi!Placed'
  BY DEF Pi!IInv, Pi!PiWorkerSound, Pi!Report, Pi!Return, Pi!Verdict, Pi!model, Pi!stream, Pi!relayed,
     Pi!Placed, Pi!Typed, Pi!TypeOK
<1>4. Pi!Spoken'
  BY DEF Pi!IInv, Pi!PiWorkerSound, Pi!Report, Pi!Return, Pi!Verdict, Pi!model, Pi!stream, Pi!relayed,
     Pi!Spoken, Pi!Typed, Pi!TypeOK
<1>5. Pi!Keeping'
  BY DEF Pi!IInv, Pi!PiWorkerSound, Pi!Report, Pi!Return, Pi!Verdict, Pi!model, Pi!stream, Pi!relayed,
     Pi!Keeping, Pi!Typed, Pi!TypeOK
<1>6. Pi!Returned'
  BY DEF Pi!IInv, Pi!PiWorkerSound, Pi!Report, Pi!Return, Pi!Verdict, Pi!model, Pi!stream, Pi!relayed,
     Pi!Returned, Pi!Typed
<1>7. Pi!LeaseOutlivesSession'
  BY DEF Pi!IInv, Pi!PiWorkerSound, Pi!Report, Pi!Return, Pi!Verdict, Pi!model, Pi!stream, Pi!relayed,
     Pi!LeaseOutlivesSession, Pi!Keeping, Pi!Placed, Pi!Typed, Pi!TypeOK
<1>8. Pi!ReportHonest'
  <2>1. nResult' = nResult \/ nResult'.state # "done"
    <3>1. ASSUME nLate # "none", NEW err \in Errors, Pi!Return(err) PROVE nResult'.state # "done"
      BY <3>1, PiReturns DEF Pi!IInv, Pi!Keeping
    <3> QED
      BY <3>1 DEF Pi!IInv, Pi!Report, Pi!Typed, Errors
  <2>2. nResult.state # "done"
    BY DEF Pi!IInv, Pi!Report, Pi!Returned
  <2> QED
    BY <2>1, <2>2 DEF Pi!IInv, Pi!PiWorkerSound, Pi!ReportHonest, Pi!Report, Pi!model, Pi!stream
<1> QED
  BY <1>1, <1>2, <1>3, <1>4, <1>5, <1>6, <1>7, <1>8 DEF Pi!IInv, Pi!PiWorkerSound

LEMMA PiReleaseSafe == ASSUME Pi!IInv, Pi!Release PROVE Pi!IInv'
<1>1. Pi!TypeOK'
  BY PiAssumption DEF Pi!IInv, Pi!PiWorkerSound, Pi!Release, Pi!Return, Pi!Verdict, Pi!model, Pi!stream,
     Pi!relayed, Pi!TypeOK, Pi!Typed, Pi!Stages, Pi!Abandonable, Pi!Router, Pi!Cleanup
<1>2. Pi!Typed'
  <2>1. PICK err \in Errors : Pi!Return(err)
    BY DEF Pi!IInv, Pi!Release, Pi!Typed, Errors
  <2> QED
    BY <2>1, PiReturns DEF Pi!IInv, Pi!Release, Errors, Pi!model, Pi!stream, Pi!relayed, Pi!Typed
<1>3. Pi!Placed'
  BY DEF Pi!IInv, Pi!PiWorkerSound, Pi!Release, Pi!Return, Pi!Verdict, Pi!model, Pi!stream, Pi!relayed,
     Pi!Placed, Pi!Typed, Pi!TypeOK
<1>4. Pi!Spoken'
  BY DEF Pi!IInv, Pi!PiWorkerSound, Pi!Release, Pi!Return, Pi!Verdict, Pi!model, Pi!stream, Pi!relayed,
     Pi!Spoken, Pi!Typed, Pi!TypeOK
<1>5. Pi!Keeping'
  BY DEF Pi!IInv, Pi!PiWorkerSound, Pi!Release, Pi!Return, Pi!Verdict, Pi!model, Pi!stream, Pi!relayed,
     Pi!Keeping, Pi!Typed, Pi!TypeOK
<1>6. Pi!Returned'
  BY DEF Pi!IInv, Pi!PiWorkerSound, Pi!Release, Pi!Return, Pi!Verdict, Pi!model, Pi!stream, Pi!relayed,
     Pi!Returned, Pi!Typed
<1>7. Pi!LeaseOutlivesSession'
  BY DEF Pi!IInv, Pi!PiWorkerSound, Pi!Release, Pi!Return, Pi!Verdict, Pi!model, Pi!stream, Pi!relayed,
     Pi!LeaseOutlivesSession, Pi!Keeping, Pi!Placed, Pi!Typed, Pi!TypeOK
<1>8. Pi!ReportHonest'
  <2>1. PICK err \in Errors : Pi!Return(err) /\ nError' = err
    BY DEF Pi!IInv, Pi!Release, Pi!Return, Pi!Typed, Errors
  <2>2. nResult'.state = "done" => /\ nSignal = "live" /\ ~nStalled /\ ~nLimit /\ err = "none"
                                   /\ nFinal \in {"answer", "cut"} /\ nResult'.report = nReport
    BY <2>1, PiReturns
  <2>3. nResult'.state = "done" => nSession = "disposed" /\ nLate = "none"
    BY <2>2 DEF Pi!IInv, Pi!PiWorkerSound, Pi!TypeOK, Pi!Placed, Pi!Keeping, Pi!Release
  <2> QED
    BY <2>1, <2>2, <2>3 DEF Pi!IInv, Pi!PiWorkerSound, Pi!ReportHonest, Pi!Spoken, Pi!Release, Pi!model,
       Pi!stream
<1> QED
  BY <1>1, <1>2, <1>3, <1>4, <1>5, <1>6, <1>7, <1>8 DEF Pi!IInv, Pi!PiWorkerSound

LEMMA PiLateSettlesSafe == ASSUME Pi!IInv, Pi!LateSettles PROVE Pi!IInv'
<1>1. Pi!TypeOK'
  BY PiAssumption DEF Pi!IInv, Pi!PiWorkerSound, Pi!LateSettles, Pi!Abandonable, Pi!model, Pi!stream,
     Pi!relayed, Pi!account, Pi!TypeOK, Pi!Typed, Pi!Stages, Pi!Router, Pi!Cleanup
<1>2. Pi!Typed'
  BY PiAssumption DEF Pi!IInv, Pi!PiWorkerSound, Pi!LateSettles, Pi!Abandonable, Pi!model, Pi!stream,
     Pi!relayed, Pi!account, Pi!TypeOK, Pi!Typed
<1>3. Pi!Placed' /\ Pi!Spoken' /\ Pi!Keeping' /\ Pi!Returned'
  BY DEF Pi!IInv, Pi!PiWorkerSound, Pi!LateSettles, Pi!Abandonable, Pi!model, Pi!stream, Pi!relayed,
     Pi!account, Pi!Placed, Pi!Typed, Pi!TypeOK, Pi!Spoken, Pi!Keeping, Pi!Returned
<1>4. Pi!LeaseOutlivesSession' /\ Pi!ReportHonest'
  BY DEF Pi!IInv, Pi!PiWorkerSound, Pi!LateSettles, Pi!Abandonable, Pi!model, Pi!stream, Pi!relayed,
     Pi!account, Pi!LeaseOutlivesSession, Pi!Keeping, Pi!Placed, Pi!Typed, Pi!TypeOK, Pi!ReportHonest,
     Pi!Spoken, Pi!Returned
<1> QED
  BY <1>1, <1>2, <1>3, <1>4 DEF Pi!IInv, Pi!PiWorkerSound

LEMMA PiLateReleaseSafe == ASSUME Pi!IInv, Pi!LateRelease PROVE Pi!IInv'
<1>1. Pi!TypeOK'
  BY PiAssumption DEF Pi!IInv, Pi!PiWorkerSound, Pi!LateRelease, Pi!life, Pi!model, Pi!stream,
     Pi!relayed, Pi!TypeOK, Pi!Typed, Pi!Stages, Pi!Abandonable, Pi!Router, Pi!Cleanup
<1>2. Pi!Typed'
  BY PiAssumption DEF Pi!IInv, Pi!PiWorkerSound, Pi!LateRelease, Pi!life, Pi!model, Pi!stream,
     Pi!relayed, Pi!TypeOK, Pi!Typed
<1>3. Pi!Placed' /\ Pi!Spoken' /\ Pi!Keeping' /\ Pi!Returned'
  BY DEF Pi!IInv, Pi!PiWorkerSound, Pi!LateRelease, Pi!life, Pi!model, Pi!stream, Pi!relayed, Pi!Placed,
     Pi!Typed, Pi!TypeOK, Pi!Spoken, Pi!Keeping, Pi!Returned
<1>4. Pi!LeaseOutlivesSession' /\ Pi!ReportHonest'
  BY DEF Pi!IInv, Pi!PiWorkerSound, Pi!LateRelease, Pi!life, Pi!model, Pi!stream, Pi!relayed,
     Pi!LeaseOutlivesSession, Pi!Keeping, Pi!Placed, Pi!Typed, Pi!TypeOK, Pi!ReportHonest, Pi!Spoken,
     Pi!Returned
<1> QED
  BY <1>1, <1>2, <1>3, <1>4 DEF Pi!IInv, Pi!PiWorkerSound

-----------------------------------------------------------------------------
(* The theorem.                                                            *)

LEMMA PiInitSafe == ASSUME Pi!Init PROVE Pi!IInv
<1>1. Pi!TypeOK
  BY PiAssumption DEF Pi!Init, Pi!TypeOK, Pi!Stages, Pi!Abandonable
<1>2. Pi!Typed
  <2>1. 0 \in 0 .. MaxEnvelopes /\ <<>> \in Seq(Nat)
    BY PiAssumption
  <2>2. nResult \in [state : {"none", "timed_out", "aborted", "failed", "done"}, report : Seq(Nat),
                    cleanup : BOOLEAN]
    BY <2>1 DEF Pi!Init, Pi!NoResult
  <2>3. nKeeper \in [on : BOOLEAN, renewing : BOOLEAN, failed : BOOLEAN, calls : Nat]
    BY DEF Pi!Init
  <2>4. nReport \in Seq(Nat) /\ nAnswers \in Seq(Nat) /\ nEnvelopes \in 0 .. MaxEnvelopes /\ nSteering <= nEnvelopes
    BY <2>1 DEF Pi!Init
  <2>5. {nRouted, nStreaming, nAsked, nLimit, nAnswered, nStalled, nTool} \subseteq BOOLEAN
    BY DEF Pi!Init
  <2>6. nTurn \in {"none", "model", "tools", "spoken"}
        /\ nError \in {"none", "stopped", "lease", "init", "prompt", "cooldown", "release"}
    BY DEF Pi!Init
  <2> QED
    BY <2>2, <2>3, <2>4, <2>5, <2>6 DEF Pi!Typed
<1>3. Pi!Placed /\ Pi!Spoken /\ Pi!Keeping /\ Pi!Returned
  BY DEF Pi!Init, Pi!Placed, Pi!Spoken, Pi!Keeping, Pi!Returned, Pi!NoResult
<1>4. Pi!LeaseOutlivesSession /\ Pi!ReportHonest
  BY DEF Pi!Init, Pi!LeaseOutlivesSession, Pi!ReportHonest, Pi!NoResult
<1> QED
  BY <1>1, <1>2, <1>3, <1>4 DEF Pi!IInv, Pi!PiWorkerSound

LEMMA PiNextSafe == ASSUME Pi!IInv, [Pi!Next]_(Pi!vars) PROVE Pi!IInv'
<1>1. CASE Pi!Runner
  BY <1>1, PiStageDoneSafe, PiPromptOverSafe, PiGraceOverSafe, PiCloseSafe, PiReportSafe, PiReleaseSafe,
     PiLateReleaseSafe
     DEF Pi!Runner
<1>2. CASE Pi!SessionSteps
  BY <1>2, PiTurnStartSafe, PiMessageEndSafe, PiToolStartSafe, PiToolEndSafe, PiTurnEndSafe,
     PiSessionEndsSafe
     DEF Pi!SessionSteps
<1>3. CASE Pi!FactoryDone \/ Pi!StageFails \/ (\E why \in {"abort", "timeout"} : Pi!Abort(why))
  BY <1>3, PiFactoryDoneSafe, PiStageFailsSafe, PiAbortSafe
<1>4. CASE Pi!Steer \/ Pi!SteerSettles \/ Pi!Stall \/ Pi!Tick \/ Pi!Renewed \/ Pi!LateSettles
  BY <1>4, PiSteerSafe, PiSteerSettlesSafe, PiStallSafe, PiTickSafe, PiRenewedSafe, PiLateSettlesSafe
<1>5. CASE UNCHANGED Pi!vars
  <2>1. Pi!TypeOK' /\ Pi!Typed'
    BY <1>5 DEF Pi!IInv, Pi!PiWorkerSound, Pi!vars, Pi!TypeOK, Pi!Typed
  <2>2. Pi!Placed' /\ Pi!Spoken' /\ Pi!Keeping' /\ Pi!Returned' /\ Pi!LeaseOutlivesSession' /\ Pi!ReportHonest'
    BY <1>5 DEF Pi!IInv, Pi!PiWorkerSound, Pi!vars, Pi!Placed, Pi!Spoken, Pi!Keeping, Pi!Returned,
       Pi!LeaseOutlivesSession, Pi!ReportHonest
  <2> QED
    BY <2>1, <2>2 DEF Pi!IInv, Pi!PiWorkerSound
<1> QED
  BY <1>1, <1>2, <1>3, <1>4, <1>5 DEF Pi!Next

\* A session that can still spend has its reservation, a report keeps the first final
\* answer, and nothing that was stopped, overspent or failed counts as done.
THEOREM PiWorkerIsSound == Pi!Spec => []PiSound
<1>1. Pi!Init => Pi!IInv
  BY PiInitSafe
<1>2. Pi!IInv /\ [Pi!Next]_(Pi!vars) => Pi!IInv'
  BY PiNextSafe
<1>3. Pi!IInv => PiSound
  BY DEF PiSound, Pi!IInv
<1> QED
  BY <1>1, <1>2, <1>3, PTL DEF Pi!Spec

-----------------------------------------------------------------------------
(* ClaudeWorker. An attempt of a Claude Code worker: what counts as done is*)
(* earned, no child is left behind in silence, and steering ends with the  *)
(* final result, for any limit of turns and any number of envelopes.       *)

-----------------------------------------------------------------------------
\* killOnce sets flags, and touches neither the child nor its exit.
LEMMA ClaudeKilled ==
  ASSUME Claude!Flags, NEW why \in BOOLEAN, Claude!Kill(why)
  PROVE  /\ cKilled' \in BOOLEAN /\ cExpired' \in BOOLEAN /\ cFailed' \in BOOLEAN
         /\ cClosed' = cClosed /\ cOwned' = cOwned /\ cChild' = cChild /\ cExit' = cExit
BY DEF Claude!Kill, Claude!Flags

\* What a refusal and the classification of an attempt return.
LEMMA ClaudeRefused ==
  ASSUME NEW st \in {"failed", "timed_out", "aborted"}, NEW f \in BOOLEAN, Claude!Refuse(st, f)
  PROVE  cVerdict' \in [state : {"none", "timed_out", "aborted", "failed", "done"}, cleanup : BOOLEAN,
                      fallback : BOOLEAN]
BY DEF Claude!Refuse

LEMMA ClaudeClassified ==
  ASSUME Claude!Flags, NEW failure \in BOOLEAN
  PROVE  /\ Claude!Classify(failure) \in {"timed_out", "aborted", "failed", "done"}
         /\ failure => Claude!Classify(failure) = "failed"
         /\ Claude!Classify(failure) = "done" => /\ ~failure /\ cCancel = "live" /\ ~cOver /\ cExit = "zero"
                                          /\ cLast = "report" /\ cVerified /\ (cApi => cAttested)
BY DEF Claude!Classify, Claude!Stopped, Claude!Flags

(* The steps.                                                              *)

LEMMA ClaudeAdmitSafe == ASSUME Claude!IInv, Claude!Admit PROVE Claude!IInv'
<1>1. Claude!TypeOK'
  BY ClaudeAssumption DEF Claude!IInv, Claude!ClaudeWorkerSound, Claude!Admit, Claude!Refuse,
     Claude!Stopped, Claude!process, Claude!frames, Claude!TypeOK, Claude!Counted, Claude!Flags
<1>2. Claude!Typed'
  <2>1. Claude!Refuse("failed", FALSE) \/ Claude!Refuse(Claude!Stopped, FALSE) \/ cVerdict' = cVerdict
    BY DEF Claude!Admit
  <2>2. cVerdict' \in [state : {"none", "timed_out", "aborted", "failed", "done"}, cleanup : BOOLEAN,
                    fallback : BOOLEAN]
    <3>1. Claude!Stopped \in {"timed_out", "aborted"}
      BY DEF Claude!Stopped
    <3> QED
      BY <2>1, <3>1, ClaudeRefused DEF Claude!IInv, Claude!Typed
  <2> QED
    BY <2>2 DEF Claude!IInv, Claude!Admit, Claude!Refuse, Claude!process, Claude!frames, Claude!Typed
<1>3. Claude!Flags'
  BY DEF Claude!IInv, Claude!ClaudeWorkerSound, Claude!Admit, Claude!Refuse, Claude!Stopped,
     Claude!process, Claude!frames, Claude!Flags
<1>4. Claude!Counted'
  BY ClaudeAssumption DEF Claude!IInv, Claude!ClaudeWorkerSound, Claude!Admit, Claude!Refuse,
     Claude!Stopped, Claude!process, Claude!frames, Claude!Counted, Claude!Flags
<1>5. Claude!Early' /\ Claude!Exited' /\ Claude!Stopping'
  BY DEF Claude!IInv, Claude!ClaudeWorkerSound, Claude!Admit, Claude!Refuse, Claude!Stopped,
     Claude!process, Claude!frames, Claude!Early, Claude!Typed, Claude!Flags, Claude!Exited,
     Claude!Stopping
<1>6. Claude!Answered'
  BY DEF Claude!IInv, Claude!ClaudeWorkerSound, Claude!Admit, Claude!Refuse, Claude!Stopped,
     Claude!process, Claude!frames, Claude!Answered, Claude!Exited, Claude!Stopping, Claude!Early,
     Claude!Typed, Claude!Flags, Claude!Pending, Claude!Inputs
<1>7. Claude!Decided'
  BY DEF Claude!IInv, Claude!ClaudeWorkerSound, Claude!Admit, Claude!Refuse, Claude!Stopped,
     Claude!process, Claude!frames, Claude!Decided, Claude!Typed, Claude!Flags
<1>8. Claude!DoneIsEarned'
  BY DEF Claude!IInv, Claude!ClaudeWorkerSound, Claude!Admit, Claude!Refuse, Claude!Stopped,
     Claude!process, Claude!frames, Claude!DoneIsEarned, Claude!Answered, Claude!Counted,
     Claude!Stopping, Claude!Exited, Claude!Early, Claude!Decided, Claude!Typed, Claude!Flags,
     Claude!Pending, Claude!Inputs
<1>9. Claude!NoChildLeft' /\ Claude!FallbackIsSilent'
  BY DEF Claude!IInv, Claude!ClaudeWorkerSound, Claude!Admit, Claude!Refuse, Claude!Stopped,
     Claude!process, Claude!frames, Claude!NoChildLeft, Claude!Early, Claude!Exited, Claude!Decided,
     Claude!Typed, Claude!Flags, Claude!FallbackIsSilent
<1>10. Claude!FinalIsFinal'
  BY DEF Claude!IInv, Claude!ClaudeWorkerSound, Claude!Admit, Claude!Refuse, Claude!Stopped,
     Claude!process, Claude!frames, Claude!FinalIsFinal, Claude!Early, Claude!Exited, Claude!Typed,
     Claude!TypeOK, Claude!Pending, Claude!Inputs
<1> QED
  BY <1>1, <1>2, <1>3, <1>4, <1>5, <1>6, <1>7, <1>8, <1>9, <1>10 DEF Claude!IInv,
     Claude!ClaudeWorkerSound

LEMMA ClaudeAccountSafe == ASSUME Claude!IInv, Claude!Account PROVE Claude!IInv'
<1>1. Claude!TypeOK'
  BY ClaudeAssumption DEF Claude!IInv, Claude!ClaudeWorkerSound, Claude!Account, Claude!Refuse,
     Claude!Stopped, Claude!process, Claude!frames, Claude!TypeOK, Claude!Counted, Claude!Flags
<1>2. Claude!Typed'
  <2>1. Claude!Refuse("failed", FALSE) \/ cVerdict' = cVerdict
    BY DEF Claude!Account
  <2>2. cVerdict' \in [state : {"none", "timed_out", "aborted", "failed", "done"}, cleanup : BOOLEAN,
                    fallback : BOOLEAN]
    <3>1. Claude!Stopped \in {"timed_out", "aborted"}
      BY DEF Claude!Stopped
    <3> QED
      BY <2>1, <3>1, ClaudeRefused DEF Claude!IInv, Claude!Typed
  <2> QED
    BY <2>2 DEF Claude!IInv, Claude!Account, Claude!Refuse, Claude!process, Claude!frames, Claude!Typed
<1>3. Claude!Flags'
  BY DEF Claude!IInv, Claude!ClaudeWorkerSound, Claude!Account, Claude!Refuse, Claude!Stopped,
     Claude!process, Claude!frames, Claude!Flags
<1>4. Claude!Counted'
  BY ClaudeAssumption DEF Claude!IInv, Claude!ClaudeWorkerSound, Claude!Account, Claude!Refuse,
     Claude!Stopped, Claude!process, Claude!frames, Claude!Counted, Claude!Flags
<1>5. Claude!Early' /\ Claude!Exited' /\ Claude!Stopping'
  BY DEF Claude!IInv, Claude!ClaudeWorkerSound, Claude!Account, Claude!Refuse, Claude!Stopped,
     Claude!process, Claude!frames, Claude!Early, Claude!Typed, Claude!Flags, Claude!Exited,
     Claude!Stopping
<1>6. Claude!Answered'
  BY DEF Claude!IInv, Claude!ClaudeWorkerSound, Claude!Account, Claude!Refuse, Claude!Stopped,
     Claude!process, Claude!frames, Claude!Answered, Claude!Exited, Claude!Stopping, Claude!Early,
     Claude!Typed, Claude!Flags, Claude!Pending, Claude!Inputs
<1>7. Claude!Decided'
  BY DEF Claude!IInv, Claude!ClaudeWorkerSound, Claude!Account, Claude!Refuse, Claude!Stopped,
     Claude!process, Claude!frames, Claude!Decided, Claude!Typed, Claude!Flags
<1>8. Claude!DoneIsEarned'
  BY DEF Claude!IInv, Claude!ClaudeWorkerSound, Claude!Account, Claude!Refuse, Claude!Stopped,
     Claude!process, Claude!frames, Claude!DoneIsEarned, Claude!Answered, Claude!Counted,
     Claude!Stopping, Claude!Exited, Claude!Early, Claude!Decided, Claude!Typed, Claude!Flags,
     Claude!Pending, Claude!Inputs
<1>9. Claude!NoChildLeft' /\ Claude!FallbackIsSilent'
  BY DEF Claude!IInv, Claude!ClaudeWorkerSound, Claude!Account, Claude!Refuse, Claude!Stopped,
     Claude!process, Claude!frames, Claude!NoChildLeft, Claude!Early, Claude!Exited, Claude!Decided,
     Claude!Typed, Claude!Flags, Claude!FallbackIsSilent
<1>10. Claude!FinalIsFinal'
  BY DEF Claude!IInv, Claude!ClaudeWorkerSound, Claude!Account, Claude!Refuse, Claude!Stopped,
     Claude!process, Claude!frames, Claude!FinalIsFinal, Claude!Early, Claude!Exited, Claude!Typed,
     Claude!TypeOK, Claude!Pending, Claude!Inputs
<1> QED
  BY <1>1, <1>2, <1>3, <1>4, <1>5, <1>6, <1>7, <1>8, <1>9, <1>10 DEF Claude!IInv,
     Claude!ClaudeWorkerSound

LEMMA ClaudePreflightSafe == ASSUME Claude!IInv, Claude!Preflight PROVE Claude!IInv'
<1>1. Claude!TypeOK'
  BY ClaudeAssumption DEF Claude!IInv, Claude!ClaudeWorkerSound, Claude!Preflight, Claude!Refuse,
     Claude!Stopped, Claude!process, Claude!frames, Claude!TypeOK, Claude!Counted, Claude!Flags
<1>2. Claude!Typed'
  <2>1. Claude!Refuse("failed", FALSE) \/ Claude!Refuse("failed", TRUE) \/ Claude!Refuse(Claude!Stopped, FALSE) \/ cVerdict' = cVerdict
    BY DEF Claude!Preflight
  <2>2. cVerdict' \in [state : {"none", "timed_out", "aborted", "failed", "done"}, cleanup : BOOLEAN,
                    fallback : BOOLEAN]
    <3>1. Claude!Stopped \in {"timed_out", "aborted"}
      BY DEF Claude!Stopped
    <3> QED
      BY <2>1, <3>1, ClaudeRefused DEF Claude!IInv, Claude!Typed
  <2> QED
    BY <2>2 DEF Claude!IInv, Claude!Preflight, Claude!Refuse, Claude!process, Claude!frames,
       Claude!Typed
<1>3. Claude!Flags'
  BY DEF Claude!IInv, Claude!ClaudeWorkerSound, Claude!Preflight, Claude!Refuse, Claude!Stopped,
     Claude!process, Claude!frames, Claude!Flags
<1>4. Claude!Counted'
  BY ClaudeAssumption DEF Claude!IInv, Claude!ClaudeWorkerSound, Claude!Preflight, Claude!Refuse,
     Claude!Stopped, Claude!process, Claude!frames, Claude!Counted, Claude!Flags
<1>5. Claude!Early' /\ Claude!Exited' /\ Claude!Stopping'
  BY DEF Claude!IInv, Claude!ClaudeWorkerSound, Claude!Preflight, Claude!Refuse, Claude!Stopped,
     Claude!process, Claude!frames, Claude!Early, Claude!Typed, Claude!Flags, Claude!Exited,
     Claude!Stopping
<1>6. Claude!Answered'
  BY DEF Claude!IInv, Claude!ClaudeWorkerSound, Claude!Preflight, Claude!Refuse, Claude!Stopped,
     Claude!process, Claude!frames, Claude!Answered, Claude!Exited, Claude!Stopping, Claude!Early,
     Claude!Typed, Claude!Flags, Claude!Pending, Claude!Inputs
<1>7. Claude!Decided'
  BY DEF Claude!IInv, Claude!ClaudeWorkerSound, Claude!Preflight, Claude!Refuse, Claude!Stopped,
     Claude!process, Claude!frames, Claude!Decided, Claude!Typed, Claude!Flags
<1>8. Claude!DoneIsEarned'
  BY DEF Claude!IInv, Claude!ClaudeWorkerSound, Claude!Preflight, Claude!Refuse, Claude!Stopped,
     Claude!process, Claude!frames, Claude!DoneIsEarned, Claude!Answered, Claude!Counted,
     Claude!Stopping, Claude!Exited, Claude!Early, Claude!Decided, Claude!Typed, Claude!Flags,
     Claude!Pending, Claude!Inputs
<1>9. Claude!NoChildLeft' /\ Claude!FallbackIsSilent'
  BY DEF Claude!IInv, Claude!ClaudeWorkerSound, Claude!Preflight, Claude!Refuse, Claude!Stopped,
     Claude!process, Claude!frames, Claude!NoChildLeft, Claude!Early, Claude!Exited, Claude!Decided,
     Claude!Typed, Claude!Flags, Claude!FallbackIsSilent
<1>10. Claude!FinalIsFinal'
  BY DEF Claude!IInv, Claude!ClaudeWorkerSound, Claude!Preflight, Claude!Refuse, Claude!Stopped,
     Claude!process, Claude!frames, Claude!FinalIsFinal, Claude!Early, Claude!Exited, Claude!Typed,
     Claude!TypeOK, Claude!Pending, Claude!Inputs
<1> QED
  BY <1>1, <1>2, <1>3, <1>4, <1>5, <1>6, <1>7, <1>8, <1>9, <1>10 DEF Claude!IInv,
     Claude!ClaudeWorkerSound

LEMMA ClaudeCancelSafe ==
  ASSUME Claude!IInv, NEW why \in {"abort", "timeout"}, Claude!Cancel(why)
  PROVE  Claude!IInv'
<1>1. Claude!TypeOK'
  BY ClaudeAssumption DEF Claude!IInv, Claude!ClaudeWorkerSound, Claude!Cancel, Claude!Kill,
     Claude!process, Claude!frames, Claude!TypeOK, Claude!Counted, Claude!Flags
<1>2. Claude!Typed'
  BY DEF Claude!IInv, Claude!ClaudeWorkerSound, Claude!Cancel, Claude!Kill, Claude!process,
     Claude!frames, Claude!Typed, Claude!Flags
<1>3. Claude!Flags'
  <2>1. cKilled' \in BOOLEAN /\ cExpired' \in BOOLEAN /\ cFailed' \in BOOLEAN /\ cClosed' = cClosed /\ cOwned' = cOwned
    BY ClaudeKilled DEF Claude!IInv, Claude!Cancel, Claude!process, Claude!Flags
  <2> QED
    BY <2>1 DEF Claude!IInv, Claude!Cancel, Claude!Flags
<1>4. Claude!Counted'
  BY ClaudeAssumption DEF Claude!IInv, Claude!ClaudeWorkerSound, Claude!Cancel, Claude!Kill,
     Claude!process, Claude!frames, Claude!Counted, Claude!Flags
<1>5. Claude!Early' /\ Claude!Exited' /\ Claude!Stopping'
  BY DEF Claude!IInv, Claude!ClaudeWorkerSound, Claude!Cancel, Claude!Kill, Claude!process,
     Claude!frames, Claude!Early, Claude!Typed, Claude!Flags, Claude!Exited, Claude!Stopping
<1>6. Claude!Answered'
  BY DEF Claude!IInv, Claude!ClaudeWorkerSound, Claude!Cancel, Claude!Kill, Claude!process,
     Claude!frames, Claude!Answered, Claude!Exited, Claude!Stopping, Claude!Early, Claude!Typed,
     Claude!Flags, Claude!Pending, Claude!Inputs
<1>7. Claude!Decided'
  BY DEF Claude!IInv, Claude!ClaudeWorkerSound, Claude!Cancel, Claude!Kill, Claude!process,
     Claude!frames, Claude!Decided, Claude!Typed, Claude!Flags
<1>8. Claude!DoneIsEarned'
  BY DEF Claude!IInv, Claude!ClaudeWorkerSound, Claude!Cancel, Claude!Kill, Claude!process,
     Claude!frames, Claude!DoneIsEarned, Claude!Answered, Claude!Counted, Claude!Stopping,
     Claude!Exited, Claude!Early, Claude!Decided, Claude!Typed, Claude!Flags, Claude!Pending,
     Claude!Inputs
<1>9. Claude!NoChildLeft' /\ Claude!FallbackIsSilent'
  BY DEF Claude!IInv, Claude!ClaudeWorkerSound, Claude!Cancel, Claude!Kill, Claude!process,
     Claude!frames, Claude!NoChildLeft, Claude!Early, Claude!Exited, Claude!Decided, Claude!Typed,
     Claude!Flags, Claude!FallbackIsSilent
<1>10. Claude!FinalIsFinal'
  BY DEF Claude!IInv, Claude!ClaudeWorkerSound, Claude!Cancel, Claude!Kill, Claude!process,
     Claude!frames, Claude!FinalIsFinal, Claude!Early, Claude!Exited, Claude!Typed, Claude!TypeOK,
     Claude!Pending, Claude!Inputs
<1> QED
  BY <1>1, <1>2, <1>3, <1>4, <1>5, <1>6, <1>7, <1>8, <1>9, <1>10 DEF Claude!IInv,
     Claude!ClaudeWorkerSound

LEMMA ClaudeDeadlineSafe == ASSUME Claude!IInv, Claude!Deadline PROVE Claude!IInv'
<1>1. Claude!TypeOK'
  BY ClaudeAssumption DEF Claude!IInv, Claude!ClaudeWorkerSound, Claude!Deadline, Claude!process,
     Claude!frames, Claude!TypeOK, Claude!Counted, Claude!Flags
<1>2. Claude!Typed'
  BY DEF Claude!IInv, Claude!ClaudeWorkerSound, Claude!Deadline, Claude!process, Claude!frames,
     Claude!Typed, Claude!Flags
<1>3. Claude!Flags'
  BY DEF Claude!IInv, Claude!ClaudeWorkerSound, Claude!Deadline, Claude!process, Claude!frames,
     Claude!Flags
<1>4. Claude!Counted'
  BY ClaudeAssumption DEF Claude!IInv, Claude!ClaudeWorkerSound, Claude!Deadline, Claude!process,
     Claude!frames, Claude!Counted, Claude!Flags
<1>5. Claude!Early' /\ Claude!Exited' /\ Claude!Stopping'
  BY DEF Claude!IInv, Claude!ClaudeWorkerSound, Claude!Deadline, Claude!process, Claude!frames,
     Claude!Early, Claude!Typed, Claude!Flags, Claude!Exited, Claude!Stopping
<1>6. Claude!Answered'
  BY DEF Claude!IInv, Claude!ClaudeWorkerSound, Claude!Deadline, Claude!process, Claude!frames,
     Claude!Answered, Claude!Exited, Claude!Stopping, Claude!Early, Claude!Typed, Claude!Flags,
     Claude!Pending, Claude!Inputs
<1>7. Claude!Decided'
  BY DEF Claude!IInv, Claude!ClaudeWorkerSound, Claude!Deadline, Claude!process, Claude!frames,
     Claude!Decided, Claude!Typed, Claude!Flags
<1>8. Claude!DoneIsEarned'
  BY DEF Claude!IInv, Claude!ClaudeWorkerSound, Claude!Deadline, Claude!process, Claude!frames,
     Claude!DoneIsEarned, Claude!Answered, Claude!Counted, Claude!Stopping, Claude!Exited, Claude!Early,
     Claude!Decided, Claude!Typed, Claude!Flags, Claude!Pending, Claude!Inputs
<1>9. Claude!NoChildLeft' /\ Claude!FallbackIsSilent'
  BY DEF Claude!IInv, Claude!ClaudeWorkerSound, Claude!Deadline, Claude!process, Claude!frames,
     Claude!NoChildLeft, Claude!Early, Claude!Exited, Claude!Decided, Claude!Typed, Claude!Flags,
     Claude!FallbackIsSilent
<1>10. Claude!FinalIsFinal'
  BY DEF Claude!IInv, Claude!ClaudeWorkerSound, Claude!Deadline, Claude!process, Claude!frames,
     Claude!FinalIsFinal, Claude!Early, Claude!Exited, Claude!Typed, Claude!TypeOK, Claude!Pending,
     Claude!Inputs
<1> QED
  BY <1>1, <1>2, <1>3, <1>4, <1>5, <1>6, <1>7, <1>8, <1>9, <1>10 DEF Claude!IInv,
     Claude!ClaudeWorkerSound

LEMMA ClaudeLoseIdentitySafe == ASSUME Claude!IInv, Claude!LoseIdentity PROVE Claude!IInv'
<1>1. Claude!TypeOK'
  BY ClaudeAssumption DEF Claude!IInv, Claude!ClaudeWorkerSound, Claude!LoseIdentity, Claude!Running,
     Claude!process, Claude!frames, Claude!TypeOK, Claude!Counted, Claude!Flags
<1>2. Claude!Typed'
  BY DEF Claude!IInv, Claude!ClaudeWorkerSound, Claude!LoseIdentity, Claude!Running, Claude!process,
     Claude!frames, Claude!Typed, Claude!Flags
<1>3. Claude!Flags'
  BY DEF Claude!IInv, Claude!ClaudeWorkerSound, Claude!LoseIdentity, Claude!Running, Claude!process,
     Claude!frames, Claude!Flags
<1>4. Claude!Counted'
  BY ClaudeAssumption DEF Claude!IInv, Claude!ClaudeWorkerSound, Claude!LoseIdentity, Claude!Running,
     Claude!process, Claude!frames, Claude!Counted, Claude!Flags
<1>5. Claude!Early' /\ Claude!Exited' /\ Claude!Stopping'
  BY DEF Claude!IInv, Claude!ClaudeWorkerSound, Claude!LoseIdentity, Claude!Running, Claude!process,
     Claude!frames, Claude!Early, Claude!Typed, Claude!Flags, Claude!Exited, Claude!Stopping
<1>6. Claude!Answered'
  BY DEF Claude!IInv, Claude!ClaudeWorkerSound, Claude!LoseIdentity, Claude!Running, Claude!process,
     Claude!frames, Claude!Answered, Claude!Exited, Claude!Stopping, Claude!Early, Claude!Typed,
     Claude!Flags, Claude!Pending, Claude!Inputs
<1>7. Claude!Decided'
  BY DEF Claude!IInv, Claude!ClaudeWorkerSound, Claude!LoseIdentity, Claude!Running, Claude!process,
     Claude!frames, Claude!Decided, Claude!Typed, Claude!Flags
<1>8. Claude!DoneIsEarned'
  BY DEF Claude!IInv, Claude!ClaudeWorkerSound, Claude!LoseIdentity, Claude!Running, Claude!process,
     Claude!frames, Claude!DoneIsEarned, Claude!Answered, Claude!Counted, Claude!Stopping,
     Claude!Exited, Claude!Early, Claude!Decided, Claude!Typed, Claude!Flags, Claude!Pending,
     Claude!Inputs
<1>9. Claude!NoChildLeft' /\ Claude!FallbackIsSilent'
  BY DEF Claude!IInv, Claude!ClaudeWorkerSound, Claude!LoseIdentity, Claude!Running, Claude!process,
     Claude!frames, Claude!NoChildLeft, Claude!Early, Claude!Exited, Claude!Decided, Claude!Typed,
     Claude!Flags, Claude!FallbackIsSilent
<1>10. Claude!FinalIsFinal'
  BY DEF Claude!IInv, Claude!ClaudeWorkerSound, Claude!LoseIdentity, Claude!Running, Claude!process,
     Claude!frames, Claude!FinalIsFinal, Claude!Early, Claude!Exited, Claude!Typed, Claude!TypeOK,
     Claude!Pending, Claude!Inputs
<1> QED
  BY <1>1, <1>2, <1>3, <1>4, <1>5, <1>6, <1>7, <1>8, <1>9, <1>10 DEF Claude!IInv,
     Claude!ClaudeWorkerSound

\* What was left unanswered at an exit that nothing explains is a failure.
LEMMA ClaudeChildExitsSafe ==
  ASSUME Claude!IInv, NEW code \in {"zero", "other", "cut"}, Claude!ChildExits(code)
  PROVE  Claude!IInv'
<1>1. Claude!TypeOK'
  BY ClaudeAssumption DEF Claude!IInv, Claude!ClaudeWorkerSound, Claude!ChildExits, Claude!Pending,
     Claude!TypeOK, Claude!Counted, Claude!Flags
<1>2. Claude!Typed'
  BY DEF Claude!IInv, Claude!ClaudeWorkerSound, Claude!ChildExits, Claude!Pending, Claude!Typed,
     Claude!Flags
<1>3. Claude!Flags'
  BY ZenonT(60) DEF Claude!IInv, Claude!ClaudeWorkerSound, Claude!ChildExits, Claude!Pending,
     Claude!Flags
<1>4. Claude!Counted'
  BY ClaudeAssumption DEF Claude!IInv, Claude!ClaudeWorkerSound, Claude!ChildExits, Claude!Pending,
     Claude!Counted, Claude!Flags
<1>5. Claude!Early' /\ Claude!Exited' /\ Claude!Stopping'
  BY DEF Claude!IInv, Claude!ClaudeWorkerSound, Claude!ChildExits, Claude!Pending, Claude!Early,
     Claude!Typed, Claude!Flags, Claude!Exited, Claude!Stopping
<1>6. Claude!Answered'
  BY DEF Claude!IInv, Claude!ClaudeWorkerSound, Claude!ChildExits, Claude!Pending, Claude!Answered,
     Claude!Exited, Claude!Stopping, Claude!Early, Claude!Typed, Claude!Flags, Claude!Inputs
<1>7. Claude!Decided'
  BY DEF Claude!IInv, Claude!ClaudeWorkerSound, Claude!ChildExits, Claude!Pending, Claude!Decided,
     Claude!Typed, Claude!Flags
<1>8. Claude!DoneIsEarned'
  BY DEF Claude!IInv, Claude!ClaudeWorkerSound, Claude!ChildExits, Claude!Pending, Claude!DoneIsEarned,
     Claude!Answered, Claude!Counted, Claude!Stopping, Claude!Exited, Claude!Early, Claude!Decided,
     Claude!Typed, Claude!Flags, Claude!Inputs
<1>9. Claude!NoChildLeft' /\ Claude!FallbackIsSilent'
  BY DEF Claude!IInv, Claude!ClaudeWorkerSound, Claude!ChildExits, Claude!Pending, Claude!NoChildLeft,
     Claude!Early, Claude!Exited, Claude!Decided, Claude!Typed, Claude!Flags, Claude!FallbackIsSilent
<1>10. Claude!FinalIsFinal'
  BY DEF Claude!IInv, Claude!ClaudeWorkerSound, Claude!ChildExits, Claude!Pending, Claude!FinalIsFinal,
     Claude!Early, Claude!Exited, Claude!Typed, Claude!TypeOK, Claude!Inputs
<1> QED
  BY <1>1, <1>2, <1>3, <1>4, <1>5, <1>6, <1>7, <1>8, <1>9, <1>10 DEF Claude!IInv,
     Claude!ClaudeWorkerSound

LEMMA ClaudeChildErrorSafe == ASSUME Claude!IInv, Claude!ChildError PROVE Claude!IInv'
<1>1. Claude!TypeOK'
  BY ClaudeAssumption DEF Claude!IInv, Claude!ClaudeWorkerSound, Claude!ChildError, Claude!Kill,
     Claude!TypeOK, Claude!Counted, Claude!Flags
<1>2. Claude!Typed'
  BY DEF Claude!IInv, Claude!ClaudeWorkerSound, Claude!ChildError, Claude!Kill, Claude!Typed,
     Claude!Flags
<1>3. Claude!Flags'
  BY DEF Claude!IInv, Claude!ClaudeWorkerSound, Claude!ChildError, Claude!Kill, Claude!Flags
<1>4. Claude!Counted'
  BY ClaudeAssumption DEF Claude!IInv, Claude!ClaudeWorkerSound, Claude!ChildError, Claude!Kill,
     Claude!Counted, Claude!Flags
<1>5. Claude!Early' /\ Claude!Exited' /\ Claude!Stopping'
  BY DEF Claude!IInv, Claude!ClaudeWorkerSound, Claude!ChildError, Claude!Kill, Claude!Early,
     Claude!Typed, Claude!Flags, Claude!Exited, Claude!Stopping
<1>6. Claude!Answered'
  BY DEF Claude!IInv, Claude!ClaudeWorkerSound, Claude!ChildError, Claude!Kill, Claude!Answered,
     Claude!Exited, Claude!Stopping, Claude!Early, Claude!Typed, Claude!Flags, Claude!Pending,
     Claude!Inputs
<1>7. Claude!Decided'
  BY DEF Claude!IInv, Claude!ClaudeWorkerSound, Claude!ChildError, Claude!Kill, Claude!Decided,
     Claude!Typed, Claude!Flags
<1>8. Claude!DoneIsEarned'
  BY DEF Claude!IInv, Claude!ClaudeWorkerSound, Claude!ChildError, Claude!Kill, Claude!DoneIsEarned,
     Claude!Answered, Claude!Counted, Claude!Stopping, Claude!Exited, Claude!Early, Claude!Decided,
     Claude!Typed, Claude!Flags, Claude!Pending, Claude!Inputs
<1>9. Claude!NoChildLeft' /\ Claude!FallbackIsSilent'
  BY DEF Claude!IInv, Claude!ClaudeWorkerSound, Claude!ChildError, Claude!Kill, Claude!NoChildLeft,
     Claude!Early, Claude!Exited, Claude!Decided, Claude!Typed, Claude!Flags, Claude!FallbackIsSilent
<1>10. Claude!FinalIsFinal'
  BY DEF Claude!IInv, Claude!ClaudeWorkerSound, Claude!ChildError, Claude!Kill, Claude!FinalIsFinal,
     Claude!Early, Claude!Exited, Claude!Typed, Claude!TypeOK, Claude!Pending, Claude!Inputs
<1> QED
  BY <1>1, <1>2, <1>3, <1>4, <1>5, <1>6, <1>7, <1>8, <1>9, <1>10 DEF Claude!IInv,
     Claude!ClaudeWorkerSound

LEMMA ClaudeBadFrameSafe == ASSUME Claude!IInv, Claude!BadFrame PROVE Claude!IInv'
<1>1. Claude!TypeOK'
  BY ClaudeAssumption DEF Claude!IInv, Claude!ClaudeWorkerSound, Claude!BadFrame, Claude!Heard,
     Claude!Running, Claude!Kill, Claude!TypeOK, Claude!Counted, Claude!Flags
<1>2. Claude!Typed'
  BY DEF Claude!IInv, Claude!ClaudeWorkerSound, Claude!BadFrame, Claude!Heard, Claude!Running,
     Claude!Kill, Claude!Typed, Claude!Flags
<1>3. Claude!Flags'
  BY DEF Claude!IInv, Claude!ClaudeWorkerSound, Claude!BadFrame, Claude!Heard, Claude!Running,
     Claude!Kill, Claude!Flags
<1>4. Claude!Counted'
  BY ClaudeAssumption DEF Claude!IInv, Claude!ClaudeWorkerSound, Claude!BadFrame, Claude!Heard,
     Claude!Running, Claude!Kill, Claude!Counted, Claude!Flags
<1>5. Claude!Early' /\ Claude!Exited' /\ Claude!Stopping'
  BY DEF Claude!IInv, Claude!ClaudeWorkerSound, Claude!BadFrame, Claude!Heard, Claude!Running,
     Claude!Kill, Claude!Early, Claude!Typed, Claude!Flags, Claude!Exited, Claude!Stopping
<1>6. Claude!Answered'
  BY DEF Claude!IInv, Claude!ClaudeWorkerSound, Claude!BadFrame, Claude!Heard, Claude!Running,
     Claude!Kill, Claude!Answered, Claude!Exited, Claude!Stopping, Claude!Early, Claude!Typed,
     Claude!Flags, Claude!Pending, Claude!Inputs
<1>7. Claude!Decided'
  BY DEF Claude!IInv, Claude!ClaudeWorkerSound, Claude!BadFrame, Claude!Heard, Claude!Running,
     Claude!Kill, Claude!Decided, Claude!Typed, Claude!Flags
<1>8. Claude!DoneIsEarned'
  BY DEF Claude!IInv, Claude!ClaudeWorkerSound, Claude!BadFrame, Claude!Heard, Claude!Running,
     Claude!Kill, Claude!DoneIsEarned, Claude!Answered, Claude!Counted, Claude!Stopping, Claude!Exited,
     Claude!Early, Claude!Decided, Claude!Typed, Claude!Flags, Claude!Pending, Claude!Inputs
<1>9. Claude!NoChildLeft' /\ Claude!FallbackIsSilent'
  BY DEF Claude!IInv, Claude!ClaudeWorkerSound, Claude!BadFrame, Claude!Heard, Claude!Running,
     Claude!Kill, Claude!NoChildLeft, Claude!Early, Claude!Exited, Claude!Decided, Claude!Typed,
     Claude!Flags, Claude!FallbackIsSilent
<1>10. Claude!FinalIsFinal'
  BY DEF Claude!IInv, Claude!ClaudeWorkerSound, Claude!BadFrame, Claude!Heard, Claude!Running,
     Claude!Kill, Claude!FinalIsFinal, Claude!Early, Claude!Exited, Claude!Typed, Claude!TypeOK,
     Claude!Pending, Claude!Inputs
<1> QED
  BY <1>1, <1>2, <1>3, <1>4, <1>5, <1>6, <1>7, <1>8, <1>9, <1>10 DEF Claude!IInv,
     Claude!ClaudeWorkerSound

LEMMA ClaudeSyntheticSafe == ASSUME Claude!IInv, Claude!Synthetic PROVE Claude!IInv'
<1>1. Claude!TypeOK'
  BY ClaudeAssumption DEF Claude!IInv, Claude!ClaudeWorkerSound, Claude!Synthetic, Claude!Heard,
     Claude!Running, Claude!Kill, Claude!TypeOK, Claude!Counted, Claude!Flags
<1>2. Claude!Typed'
  BY DEF Claude!IInv, Claude!ClaudeWorkerSound, Claude!Synthetic, Claude!Heard, Claude!Running,
     Claude!Kill, Claude!Typed, Claude!Flags
<1>3. Claude!Flags'
  BY DEF Claude!IInv, Claude!ClaudeWorkerSound, Claude!Synthetic, Claude!Heard, Claude!Running,
     Claude!Kill, Claude!Flags
<1>4. Claude!Counted'
  BY ClaudeAssumption DEF Claude!IInv, Claude!ClaudeWorkerSound, Claude!Synthetic, Claude!Heard,
     Claude!Running, Claude!Kill, Claude!Counted, Claude!Flags
<1>5. Claude!Early' /\ Claude!Exited' /\ Claude!Stopping'
  BY DEF Claude!IInv, Claude!ClaudeWorkerSound, Claude!Synthetic, Claude!Heard, Claude!Running,
     Claude!Kill, Claude!Early, Claude!Typed, Claude!Flags, Claude!Exited, Claude!Stopping
<1>6. Claude!Answered'
  BY DEF Claude!IInv, Claude!ClaudeWorkerSound, Claude!Synthetic, Claude!Heard, Claude!Running,
     Claude!Kill, Claude!Answered, Claude!Exited, Claude!Stopping, Claude!Early, Claude!Typed,
     Claude!Flags, Claude!Pending, Claude!Inputs
<1>7. Claude!Decided'
  BY DEF Claude!IInv, Claude!ClaudeWorkerSound, Claude!Synthetic, Claude!Heard, Claude!Running,
     Claude!Kill, Claude!Decided, Claude!Typed, Claude!Flags
<1>8. Claude!DoneIsEarned'
  BY DEF Claude!IInv, Claude!ClaudeWorkerSound, Claude!Synthetic, Claude!Heard, Claude!Running,
     Claude!Kill, Claude!DoneIsEarned, Claude!Answered, Claude!Counted, Claude!Stopping, Claude!Exited,
     Claude!Early, Claude!Decided, Claude!Typed, Claude!Flags, Claude!Pending, Claude!Inputs
<1>9. Claude!NoChildLeft' /\ Claude!FallbackIsSilent'
  BY DEF Claude!IInv, Claude!ClaudeWorkerSound, Claude!Synthetic, Claude!Heard, Claude!Running,
     Claude!Kill, Claude!NoChildLeft, Claude!Early, Claude!Exited, Claude!Decided, Claude!Typed,
     Claude!Flags, Claude!FallbackIsSilent
<1>10. Claude!FinalIsFinal'
  BY DEF Claude!IInv, Claude!ClaudeWorkerSound, Claude!Synthetic, Claude!Heard, Claude!Running,
     Claude!Kill, Claude!FinalIsFinal, Claude!Early, Claude!Exited, Claude!Typed, Claude!TypeOK,
     Claude!Pending, Claude!Inputs
<1> QED
  BY <1>1, <1>2, <1>3, <1>4, <1>5, <1>6, <1>7, <1>8, <1>9, <1>10 DEF Claude!IInv,
     Claude!ClaudeWorkerSound

LEMMA ClaudeIdentitySafe == ASSUME Claude!IInv, Claude!Identity PROVE Claude!IInv'
<1>1. Claude!TypeOK'
  BY ClaudeAssumption DEF Claude!IInv, Claude!ClaudeWorkerSound, Claude!Identity, Claude!Heard,
     Claude!Running, Claude!process, Claude!frames, Claude!TypeOK, Claude!Counted, Claude!Flags
<1>2. Claude!Typed'
  BY DEF Claude!IInv, Claude!ClaudeWorkerSound, Claude!Identity, Claude!Heard, Claude!Running,
     Claude!process, Claude!frames, Claude!Typed, Claude!Flags
<1>3. Claude!Flags'
  BY DEF Claude!IInv, Claude!ClaudeWorkerSound, Claude!Identity, Claude!Heard, Claude!Running,
     Claude!process, Claude!frames, Claude!Flags
<1>4. Claude!Counted'
  BY ClaudeAssumption DEF Claude!IInv, Claude!ClaudeWorkerSound, Claude!Identity, Claude!Heard,
     Claude!Running, Claude!process, Claude!frames, Claude!Counted, Claude!Flags
<1>5. Claude!Early' /\ Claude!Exited' /\ Claude!Stopping'
  BY DEF Claude!IInv, Claude!ClaudeWorkerSound, Claude!Identity, Claude!Heard, Claude!Running,
     Claude!process, Claude!frames, Claude!Early, Claude!Typed, Claude!Flags, Claude!Exited,
     Claude!Stopping
<1>6. Claude!Answered'
  BY DEF Claude!IInv, Claude!ClaudeWorkerSound, Claude!Identity, Claude!Heard, Claude!Running,
     Claude!process, Claude!frames, Claude!Answered, Claude!Exited, Claude!Stopping, Claude!Early,
     Claude!Typed, Claude!Flags, Claude!Pending, Claude!Inputs
<1>7. Claude!Decided'
  BY DEF Claude!IInv, Claude!ClaudeWorkerSound, Claude!Identity, Claude!Heard, Claude!Running,
     Claude!process, Claude!frames, Claude!Decided, Claude!Typed, Claude!Flags
<1>8. Claude!DoneIsEarned'
  BY DEF Claude!IInv, Claude!ClaudeWorkerSound, Claude!Identity, Claude!Heard, Claude!Running,
     Claude!process, Claude!frames, Claude!DoneIsEarned, Claude!Answered, Claude!Counted,
     Claude!Stopping, Claude!Exited, Claude!Early, Claude!Decided, Claude!Typed, Claude!Flags,
     Claude!Pending, Claude!Inputs
<1>9. Claude!NoChildLeft' /\ Claude!FallbackIsSilent'
  BY DEF Claude!IInv, Claude!ClaudeWorkerSound, Claude!Identity, Claude!Heard, Claude!Running,
     Claude!process, Claude!frames, Claude!NoChildLeft, Claude!Early, Claude!Exited, Claude!Decided,
     Claude!Typed, Claude!Flags, Claude!FallbackIsSilent
<1>10. Claude!FinalIsFinal'
  BY DEF Claude!IInv, Claude!ClaudeWorkerSound, Claude!Identity, Claude!Heard, Claude!Running,
     Claude!process, Claude!frames, Claude!FinalIsFinal, Claude!Early, Claude!Exited, Claude!Typed,
     Claude!TypeOK, Claude!Pending, Claude!Inputs
<1> QED
  BY <1>1, <1>2, <1>3, <1>4, <1>5, <1>6, <1>7, <1>8, <1>9, <1>10 DEF Claude!IInv,
     Claude!ClaudeWorkerSound

LEMMA ClaudeAssistantSafe ==
  ASSUME Claude!IInv, NEW fresh \in BOOLEAN, Claude!Assistant(fresh)
  PROVE  Claude!IInv'
<1>1. Claude!TypeOK'
  BY ClaudeAssumption DEF Claude!IInv, Claude!ClaudeWorkerSound, Claude!Assistant, Claude!Heard,
     Claude!Running, Claude!Kill, Claude!process, Claude!frames, Claude!TypeOK, Claude!Counted,
     Claude!Flags
<1>2. Claude!Typed'
  BY DEF Claude!IInv, Claude!ClaudeWorkerSound, Claude!Assistant, Claude!Heard, Claude!Running,
     Claude!Kill, Claude!process, Claude!frames, Claude!Typed, Claude!Flags
<1>3. Claude!Flags'
  <2>1. cKilled' \in BOOLEAN /\ cExpired' \in BOOLEAN /\ cFailed' \in BOOLEAN /\ cClosed' = cClosed /\ cOwned' = cOwned
    BY ClaudeKilled DEF Claude!IInv, Claude!Assistant, Claude!process, Claude!Flags
  <2>2. cOver' \in BOOLEAN
    BY DEF Claude!Assistant
  <2> QED
    BY <2>1, <2>2 DEF Claude!IInv, Claude!Assistant, Claude!Flags
<1>4. Claude!Counted'
  BY ClaudeAssumption DEF Claude!IInv, Claude!ClaudeWorkerSound, Claude!Assistant, Claude!Heard,
     Claude!Running, Claude!Kill, Claude!process, Claude!frames, Claude!Counted, Claude!Flags
<1>5. Claude!Early' /\ Claude!Exited' /\ Claude!Stopping'
  BY DEF Claude!IInv, Claude!ClaudeWorkerSound, Claude!Assistant, Claude!Heard, Claude!Running,
     Claude!Kill, Claude!process, Claude!frames, Claude!Early, Claude!Typed, Claude!Flags,
     Claude!Exited, Claude!Stopping
<1>6. Claude!Answered'
  BY DEF Claude!IInv, Claude!ClaudeWorkerSound, Claude!Assistant, Claude!Heard, Claude!Running,
     Claude!Kill, Claude!process, Claude!frames, Claude!Answered, Claude!Exited, Claude!Stopping,
     Claude!Early, Claude!Typed, Claude!Flags, Claude!Pending, Claude!Inputs
<1>7. Claude!Decided'
  BY DEF Claude!IInv, Claude!ClaudeWorkerSound, Claude!Assistant, Claude!Heard, Claude!Running,
     Claude!Kill, Claude!process, Claude!frames, Claude!Decided, Claude!Typed, Claude!Flags
<1>8. Claude!DoneIsEarned'
  BY DEF Claude!IInv, Claude!ClaudeWorkerSound, Claude!Assistant, Claude!Heard, Claude!Running,
     Claude!Kill, Claude!process, Claude!frames, Claude!DoneIsEarned, Claude!Answered, Claude!Counted,
     Claude!Stopping, Claude!Exited, Claude!Early, Claude!Decided, Claude!Typed, Claude!Flags,
     Claude!Pending, Claude!Inputs
<1>9. Claude!NoChildLeft' /\ Claude!FallbackIsSilent'
  BY DEF Claude!IInv, Claude!ClaudeWorkerSound, Claude!Assistant, Claude!Heard, Claude!Running,
     Claude!Kill, Claude!process, Claude!frames, Claude!NoChildLeft, Claude!Early, Claude!Exited,
     Claude!Decided, Claude!Typed, Claude!Flags, Claude!FallbackIsSilent
<1>10. Claude!FinalIsFinal'
  BY DEF Claude!IInv, Claude!ClaudeWorkerSound, Claude!Assistant, Claude!Heard, Claude!Running,
     Claude!Kill, Claude!process, Claude!frames, Claude!FinalIsFinal, Claude!Early, Claude!Exited,
     Claude!Typed, Claude!TypeOK, Claude!Pending, Claude!Inputs
<1> QED
  BY <1>1, <1>2, <1>3, <1>4, <1>5, <1>6, <1>7, <1>8, <1>9, <1>10 DEF Claude!IInv,
     Claude!ClaudeWorkerSound

LEMMA ClaudeReplaySafe ==
  ASSUME Claude!IInv, NEW i \in Claude!Inputs, Claude!Replay(i)
  PROVE  Claude!IInv'
<1>1. Claude!TypeOK'
  BY ClaudeAssumption DEF Claude!IInv, Claude!ClaudeWorkerSound, Claude!Replay, Claude!Heard,
     Claude!Running, Claude!process, Claude!frames, Claude!TypeOK, Claude!Counted, Claude!Flags
<1>2. Claude!Typed'
  BY DEF Claude!IInv, Claude!ClaudeWorkerSound, Claude!Replay, Claude!Heard, Claude!Running,
     Claude!process, Claude!frames, Claude!Typed, Claude!Flags
<1>3. Claude!Flags'
  BY DEF Claude!IInv, Claude!ClaudeWorkerSound, Claude!Replay, Claude!Heard, Claude!Running,
     Claude!process, Claude!frames, Claude!Flags
<1>4. Claude!Counted'
  BY ClaudeAssumption DEF Claude!IInv, Claude!ClaudeWorkerSound, Claude!Replay, Claude!Heard,
     Claude!Running, Claude!process, Claude!frames, Claude!Counted, Claude!Flags
<1>5. Claude!Early' /\ Claude!Exited' /\ Claude!Stopping'
  BY DEF Claude!IInv, Claude!ClaudeWorkerSound, Claude!Replay, Claude!Heard, Claude!Running,
     Claude!process, Claude!frames, Claude!Early, Claude!Typed, Claude!Flags, Claude!Exited,
     Claude!Stopping
<1>6. Claude!Answered'
  BY DEF Claude!IInv, Claude!ClaudeWorkerSound, Claude!Replay, Claude!Heard, Claude!Running,
     Claude!process, Claude!frames, Claude!Answered, Claude!Exited, Claude!Stopping, Claude!Early,
     Claude!Typed, Claude!Flags, Claude!Pending, Claude!Inputs
<1>7. Claude!Decided'
  BY DEF Claude!IInv, Claude!ClaudeWorkerSound, Claude!Replay, Claude!Heard, Claude!Running,
     Claude!process, Claude!frames, Claude!Decided, Claude!Typed, Claude!Flags
<1>8. Claude!DoneIsEarned'
  BY DEF Claude!IInv, Claude!ClaudeWorkerSound, Claude!Replay, Claude!Heard, Claude!Running,
     Claude!process, Claude!frames, Claude!DoneIsEarned, Claude!Answered, Claude!Counted,
     Claude!Stopping, Claude!Exited, Claude!Early, Claude!Decided, Claude!Typed, Claude!Flags,
     Claude!Pending, Claude!Inputs
<1>9. Claude!NoChildLeft' /\ Claude!FallbackIsSilent'
  BY DEF Claude!IInv, Claude!ClaudeWorkerSound, Claude!Replay, Claude!Heard, Claude!Running,
     Claude!process, Claude!frames, Claude!NoChildLeft, Claude!Early, Claude!Exited, Claude!Decided,
     Claude!Typed, Claude!Flags, Claude!FallbackIsSilent
<1>10. Claude!FinalIsFinal'
  BY DEF Claude!IInv, Claude!ClaudeWorkerSound, Claude!Replay, Claude!Heard, Claude!Running,
     Claude!process, Claude!frames, Claude!FinalIsFinal, Claude!Early, Claude!Exited, Claude!Typed,
     Claude!TypeOK, Claude!Pending, Claude!Inputs
<1> QED
  BY <1>1, <1>2, <1>3, <1>4, <1>5, <1>6, <1>7, <1>8, <1>9, <1>10 DEF Claude!IInv,
     Claude!ClaudeWorkerSound

LEMMA ClaudeRateLimitSafe == ASSUME Claude!IInv, Claude!RateLimit PROVE Claude!IInv'
<1>1. Claude!TypeOK'
  BY ClaudeAssumption DEF Claude!IInv, Claude!ClaudeWorkerSound, Claude!RateLimit, Claude!Heard,
     Claude!Running, Claude!process, Claude!frames, Claude!TypeOK, Claude!Counted, Claude!Flags
<1>2. Claude!Typed'
  BY DEF Claude!IInv, Claude!ClaudeWorkerSound, Claude!RateLimit, Claude!Heard, Claude!Running,
     Claude!process, Claude!frames, Claude!Typed, Claude!Flags
<1>3. Claude!Flags'
  BY DEF Claude!IInv, Claude!ClaudeWorkerSound, Claude!RateLimit, Claude!Heard, Claude!Running,
     Claude!process, Claude!frames, Claude!Flags
<1>4. Claude!Counted'
  BY ClaudeAssumption DEF Claude!IInv, Claude!ClaudeWorkerSound, Claude!RateLimit, Claude!Heard,
     Claude!Running, Claude!process, Claude!frames, Claude!Counted, Claude!Flags
<1>5. Claude!Early' /\ Claude!Exited' /\ Claude!Stopping'
  BY DEF Claude!IInv, Claude!ClaudeWorkerSound, Claude!RateLimit, Claude!Heard, Claude!Running,
     Claude!process, Claude!frames, Claude!Early, Claude!Typed, Claude!Flags, Claude!Exited,
     Claude!Stopping
<1>6. Claude!Answered'
  BY DEF Claude!IInv, Claude!ClaudeWorkerSound, Claude!RateLimit, Claude!Heard, Claude!Running,
     Claude!process, Claude!frames, Claude!Answered, Claude!Exited, Claude!Stopping, Claude!Early,
     Claude!Typed, Claude!Flags, Claude!Pending, Claude!Inputs
<1>7. Claude!Decided'
  BY DEF Claude!IInv, Claude!ClaudeWorkerSound, Claude!RateLimit, Claude!Heard, Claude!Running,
     Claude!process, Claude!frames, Claude!Decided, Claude!Typed, Claude!Flags
<1>8. Claude!DoneIsEarned'
  BY DEF Claude!IInv, Claude!ClaudeWorkerSound, Claude!RateLimit, Claude!Heard, Claude!Running,
     Claude!process, Claude!frames, Claude!DoneIsEarned, Claude!Answered, Claude!Counted,
     Claude!Stopping, Claude!Exited, Claude!Early, Claude!Decided, Claude!Typed, Claude!Flags,
     Claude!Pending, Claude!Inputs
<1>9. Claude!NoChildLeft' /\ Claude!FallbackIsSilent'
  BY DEF Claude!IInv, Claude!ClaudeWorkerSound, Claude!RateLimit, Claude!Heard, Claude!Running,
     Claude!process, Claude!frames, Claude!NoChildLeft, Claude!Early, Claude!Exited, Claude!Decided,
     Claude!Typed, Claude!Flags, Claude!FallbackIsSilent
<1>10. Claude!FinalIsFinal'
  BY DEF Claude!IInv, Claude!ClaudeWorkerSound, Claude!RateLimit, Claude!Heard, Claude!Running,
     Claude!process, Claude!frames, Claude!FinalIsFinal, Claude!Early, Claude!Exited, Claude!Typed,
     Claude!TypeOK, Claude!Pending, Claude!Inputs
<1> QED
  BY <1>1, <1>2, <1>3, <1>4, <1>5, <1>6, <1>7, <1>8, <1>9, <1>10 DEF Claude!IInv,
     Claude!ClaudeWorkerSound

LEMMA ClaudeReserveKeptSafe == ASSUME Claude!IInv, Claude!ReserveKept PROVE Claude!IInv'
<1>1. Claude!TypeOK'
  BY ClaudeAssumption DEF Claude!IInv, Claude!ClaudeWorkerSound, Claude!ReserveKept, Claude!Running,
     Claude!process, Claude!frames, Claude!TypeOK, Claude!Counted, Claude!Flags
<1>2. Claude!Typed'
  BY DEF Claude!IInv, Claude!ClaudeWorkerSound, Claude!ReserveKept, Claude!Running, Claude!process,
     Claude!frames, Claude!Typed, Claude!Flags
<1>3. Claude!Flags'
  BY DEF Claude!IInv, Claude!ClaudeWorkerSound, Claude!ReserveKept, Claude!Running, Claude!process,
     Claude!frames, Claude!Flags
<1>4. Claude!Counted'
  BY ClaudeAssumption DEF Claude!IInv, Claude!ClaudeWorkerSound, Claude!ReserveKept, Claude!Running,
     Claude!process, Claude!frames, Claude!Counted, Claude!Flags
<1>5. Claude!Early' /\ Claude!Exited' /\ Claude!Stopping'
  BY DEF Claude!IInv, Claude!ClaudeWorkerSound, Claude!ReserveKept, Claude!Running, Claude!process,
     Claude!frames, Claude!Early, Claude!Typed, Claude!Flags, Claude!Exited, Claude!Stopping
<1>6. Claude!Answered'
  BY DEF Claude!IInv, Claude!ClaudeWorkerSound, Claude!ReserveKept, Claude!Running, Claude!process,
     Claude!frames, Claude!Answered, Claude!Exited, Claude!Stopping, Claude!Early, Claude!Typed,
     Claude!Flags, Claude!Pending, Claude!Inputs
<1>7. Claude!Decided'
  BY DEF Claude!IInv, Claude!ClaudeWorkerSound, Claude!ReserveKept, Claude!Running, Claude!process,
     Claude!frames, Claude!Decided, Claude!Typed, Claude!Flags
<1>8. Claude!DoneIsEarned'
  BY DEF Claude!IInv, Claude!ClaudeWorkerSound, Claude!ReserveKept, Claude!Running, Claude!process,
     Claude!frames, Claude!DoneIsEarned, Claude!Answered, Claude!Counted, Claude!Stopping,
     Claude!Exited, Claude!Early, Claude!Decided, Claude!Typed, Claude!Flags, Claude!Pending,
     Claude!Inputs
<1>9. Claude!NoChildLeft' /\ Claude!FallbackIsSilent'
  BY DEF Claude!IInv, Claude!ClaudeWorkerSound, Claude!ReserveKept, Claude!Running, Claude!process,
     Claude!frames, Claude!NoChildLeft, Claude!Early, Claude!Exited, Claude!Decided, Claude!Typed,
     Claude!Flags, Claude!FallbackIsSilent
<1>10. Claude!FinalIsFinal'
  BY DEF Claude!IInv, Claude!ClaudeWorkerSound, Claude!ReserveKept, Claude!Running, Claude!process,
     Claude!frames, Claude!FinalIsFinal, Claude!Early, Claude!Exited, Claude!Typed, Claude!TypeOK,
     Claude!Pending, Claude!Inputs
<1> QED
  BY <1>1, <1>2, <1>3, <1>4, <1>5, <1>6, <1>7, <1>8, <1>9, <1>10 DEF Claude!IInv,
     Claude!ClaudeWorkerSound

LEMMA ClaudeReserveReachedSafe == ASSUME Claude!IInv, Claude!ReserveReached PROVE Claude!IInv'
<1>1. Claude!TypeOK'
  BY ClaudeAssumption DEF Claude!IInv, Claude!ClaudeWorkerSound, Claude!ReserveReached, Claude!Running,
     Claude!Kill, Claude!process, Claude!frames, Claude!TypeOK, Claude!Counted, Claude!Flags
<1>2. Claude!Typed'
  BY DEF Claude!IInv, Claude!ClaudeWorkerSound, Claude!ReserveReached, Claude!Running, Claude!Kill,
     Claude!process, Claude!frames, Claude!Typed, Claude!Flags
<1>3. Claude!Flags'
  BY ZenonT(60) DEF Claude!IInv, Claude!ClaudeWorkerSound, Claude!ReserveReached, Claude!Running,
     Claude!Kill,
     Claude!process, Claude!frames, Claude!Flags
<1>4. Claude!Counted'
  BY ClaudeAssumption DEF Claude!IInv, Claude!ClaudeWorkerSound, Claude!ReserveReached, Claude!Running,
     Claude!Kill, Claude!process, Claude!frames, Claude!Counted, Claude!Flags
<1>5. Claude!Early' /\ Claude!Exited' /\ Claude!Stopping'
  BY DEF Claude!IInv, Claude!ClaudeWorkerSound, Claude!ReserveReached, Claude!Running, Claude!Kill,
     Claude!process, Claude!frames, Claude!Early, Claude!Typed, Claude!Flags, Claude!Exited,
     Claude!Stopping
<1>6. Claude!Answered'
  BY DEF Claude!IInv, Claude!ClaudeWorkerSound, Claude!ReserveReached, Claude!Running, Claude!Kill,
     Claude!process, Claude!frames, Claude!Answered, Claude!Exited, Claude!Stopping, Claude!Early,
     Claude!Typed, Claude!Flags, Claude!Pending, Claude!Inputs
<1>7. Claude!Decided'
  BY DEF Claude!IInv, Claude!ClaudeWorkerSound, Claude!ReserveReached, Claude!Running, Claude!Kill,
     Claude!process, Claude!frames, Claude!Decided, Claude!Typed, Claude!Flags
<1>8. Claude!DoneIsEarned'
  BY DEF Claude!IInv, Claude!ClaudeWorkerSound, Claude!ReserveReached, Claude!Running, Claude!Kill,
     Claude!process, Claude!frames, Claude!DoneIsEarned, Claude!Answered, Claude!Counted,
     Claude!Stopping, Claude!Exited, Claude!Early, Claude!Decided, Claude!Typed, Claude!Flags,
     Claude!Pending, Claude!Inputs
<1>9. Claude!NoChildLeft' /\ Claude!FallbackIsSilent'
  BY DEF Claude!IInv, Claude!ClaudeWorkerSound, Claude!ReserveReached, Claude!Running, Claude!Kill,
     Claude!process, Claude!frames, Claude!NoChildLeft, Claude!Early, Claude!Exited, Claude!Decided,
     Claude!Typed, Claude!Flags, Claude!FallbackIsSilent
<1>10. Claude!FinalIsFinal'
  BY DEF Claude!IInv, Claude!ClaudeWorkerSound, Claude!ReserveReached, Claude!Running, Claude!Kill,
     Claude!process, Claude!frames, Claude!FinalIsFinal, Claude!Early, Claude!Exited, Claude!Typed,
     Claude!TypeOK, Claude!Pending, Claude!Inputs
<1> QED
  BY <1>1, <1>2, <1>3, <1>4, <1>5, <1>6, <1>7, <1>8, <1>9, <1>10 DEF Claude!IInv,
     Claude!ClaudeWorkerSound

\* A result is final when nothing is left to consume, and nothing is accepted after it.
LEMMA ClaudeResultSafe ==
  ASSUME Claude!IInv, NEW kind \in {"report", "empty", "error"}, NEW count \in 0 .. 1, NEW proves \in
         BOOLEAN, Claude!Result(kind, count, proves)
  PROVE  Claude!IInv'
<1>0. /\ cUsed' \in Nat /\ cCompleted' = cUsed' /\ cUsed' <= QueryTurns + 1 /\ cCompleted' <= cUsed'
      /\ ~cOver' => cUsed' <= QueryTurns
  <2>1. /\ cUsed \in Nat /\ cCompleted \in Nat /\ cCompleted <= cUsed /\ cUsed <= QueryTurns /\ QueryTurns \in Nat
        /\ count \in {0, 1}
    BY ClaudeAssumption DEF Claude!IInv, Claude!Counted, Claude!Result, Claude!Heard
  <2>2. cUsed' = IF cCompleted + count > cUsed THEN cCompleted + count ELSE cUsed
    BY DEF Claude!Result
  <2>3. cUsed' \in Nat /\ cUsed' <= QueryTurns + 1
    BY <2>1, <2>2
  <2>4. cCompleted' = cUsed' /\ (cUsed' > QueryTurns => cOver')
    BY DEF Claude!Result
  <2> QED
    BY <2>1, <2>3, <2>4
<1>1. Claude!TypeOK'
  <2>1. cAt' = cAt /\ (cInput' = cInput \/ cInput' = Claude!Consume)
    BY DEF Claude!Result
  <2>2. cUsed' <= QueryTurns + 1 /\ cUsed' \in Nat
    BY <1>0
  <2>3. Claude!Consume \in [Claude!Inputs -> {"none", "written", "replayed", "consumed"}]
    BY DEF Claude!IInv, Claude!ClaudeWorkerSound, Claude!TypeOK, Claude!Consume
  <2>4. cUsed' \in 0 .. QueryTurns + 2
    BY <2>2, ClaudeAssumption
  <2> QED
    BY <2>1, <2>3, <2>4 DEF Claude!IInv, Claude!ClaudeWorkerSound, Claude!TypeOK
<1>2. Claude!Typed'
  BY ZenonT(60) DEF Claude!IInv, Claude!ClaudeWorkerSound, Claude!Result, Claude!Heard, Claude!Running,
     Claude!Kill, Claude!Consume, Claude!Consumed, Claude!process, Claude!frames, Claude!Typed,
     Claude!Flags
<1>3. Claude!Flags'
  BY ZenonT(60) DEF Claude!IInv, Claude!ClaudeWorkerSound, Claude!Result, Claude!Heard, Claude!Running,
     Claude!Kill, Claude!Consume, Claude!Consumed, Claude!process, Claude!frames, Claude!Flags
<1>4. Claude!Counted'
  BY <1>0 DEF Claude!Counted
<1>5. Claude!Early' /\ Claude!Exited' /\ Claude!Stopping'
  BY DEF Claude!IInv, Claude!ClaudeWorkerSound, Claude!Result, Claude!Heard, Claude!Running,
     Claude!Kill, Claude!Consume, Claude!Consumed, Claude!process, Claude!frames, Claude!Early,
     Claude!Typed, Claude!Flags, Claude!Exited, Claude!Stopping
<1>6. Claude!Answered'
  BY DEF Claude!IInv, Claude!ClaudeWorkerSound, Claude!Result, Claude!Heard, Claude!Running,
     Claude!Kill, Claude!Consume, Claude!Consumed, Claude!process, Claude!frames, Claude!Answered,
     Claude!Exited, Claude!Stopping, Claude!Early, Claude!Typed, Claude!Flags, Claude!Pending,
     Claude!Inputs
<1>7. Claude!Decided'
  BY DEF Claude!IInv, Claude!ClaudeWorkerSound, Claude!Result, Claude!Heard, Claude!Running,
     Claude!Kill, Claude!Consume, Claude!Consumed, Claude!process, Claude!frames, Claude!Decided,
     Claude!Typed, Claude!Flags
<1>8. Claude!DoneIsEarned'
  BY DEF Claude!IInv, Claude!ClaudeWorkerSound, Claude!Result, Claude!Heard, Claude!Running,
     Claude!Kill, Claude!Consume, Claude!Consumed, Claude!process, Claude!frames, Claude!DoneIsEarned,
     Claude!Answered, Claude!Counted, Claude!Stopping, Claude!Exited, Claude!Early, Claude!Decided,
     Claude!Typed, Claude!Flags, Claude!Pending, Claude!Inputs
<1>9. Claude!NoChildLeft' /\ Claude!FallbackIsSilent'
  BY DEF Claude!IInv, Claude!ClaudeWorkerSound, Claude!Result, Claude!Heard, Claude!Running,
     Claude!Kill, Claude!Consume, Claude!Consumed, Claude!process, Claude!frames, Claude!NoChildLeft,
     Claude!Early, Claude!Exited, Claude!Decided, Claude!Typed, Claude!Flags, Claude!FallbackIsSilent
<1>10. Claude!FinalIsFinal'
  BY DEF Claude!IInv, Claude!ClaudeWorkerSound, Claude!Result, Claude!Heard, Claude!Running,
     Claude!Kill, Claude!Consume, Claude!Consumed, Claude!process, Claude!frames, Claude!FinalIsFinal,
     Claude!Early, Claude!Exited, Claude!Typed, Claude!TypeOK, Claude!Pending, Claude!Inputs
<1> QED
  BY <1>1, <1>2, <1>3, <1>4, <1>5, <1>6, <1>7, <1>8, <1>9, <1>10 DEF Claude!IInv,
     Claude!ClaudeWorkerSound

LEMMA ClaudeDeliverSafe ==
  ASSUME Claude!IInv, NEW i \in Claude!Inputs, Claude!Deliver(i)
  PROVE  Claude!IInv'
<1>1. Claude!TypeOK'
  BY ClaudeAssumption DEF Claude!IInv, Claude!ClaudeWorkerSound, Claude!Deliver, Claude!Kill,
     Claude!process, Claude!frames, Claude!TypeOK, Claude!Counted, Claude!Flags
<1>2. Claude!Typed'
  BY DEF Claude!IInv, Claude!ClaudeWorkerSound, Claude!Deliver, Claude!Kill, Claude!process,
     Claude!frames, Claude!Typed, Claude!Flags
<1>3. Claude!Flags'
  <2>1. cKilled' \in BOOLEAN /\ cExpired' \in BOOLEAN /\ cFailed' \in BOOLEAN /\ cClosed' = cClosed /\ cOwned' = cOwned
    BY ClaudeKilled DEF Claude!IInv, Claude!Deliver, Claude!process, Claude!Flags
  <2> QED
    BY <2>1 DEF Claude!IInv, Claude!Deliver, Claude!Flags
<1>4. Claude!Counted'
  BY ClaudeAssumption DEF Claude!IInv, Claude!ClaudeWorkerSound, Claude!Deliver, Claude!Kill,
     Claude!process, Claude!frames, Claude!Counted, Claude!Flags
<1>5. Claude!Early' /\ Claude!Exited' /\ Claude!Stopping'
  BY DEF Claude!IInv, Claude!ClaudeWorkerSound, Claude!Deliver, Claude!Kill, Claude!process,
     Claude!frames, Claude!Early, Claude!Typed, Claude!Flags, Claude!Exited, Claude!Stopping
<1>6. Claude!Answered'
  BY DEF Claude!IInv, Claude!ClaudeWorkerSound, Claude!Deliver, Claude!Kill, Claude!process,
     Claude!frames, Claude!Answered, Claude!Exited, Claude!Stopping, Claude!Early, Claude!Typed,
     Claude!Flags, Claude!Pending, Claude!Inputs
<1>7. Claude!Decided'
  BY DEF Claude!IInv, Claude!ClaudeWorkerSound, Claude!Deliver, Claude!Kill, Claude!process,
     Claude!frames, Claude!Decided, Claude!Typed, Claude!Flags
<1>8. Claude!DoneIsEarned'
  BY DEF Claude!IInv, Claude!ClaudeWorkerSound, Claude!Deliver, Claude!Kill, Claude!process,
     Claude!frames, Claude!DoneIsEarned, Claude!Answered, Claude!Counted, Claude!Stopping,
     Claude!Exited, Claude!Early, Claude!Decided, Claude!Typed, Claude!Flags, Claude!Pending,
     Claude!Inputs
<1>9. Claude!NoChildLeft' /\ Claude!FallbackIsSilent'
  BY DEF Claude!IInv, Claude!ClaudeWorkerSound, Claude!Deliver, Claude!Kill, Claude!process,
     Claude!frames, Claude!NoChildLeft, Claude!Early, Claude!Exited, Claude!Decided, Claude!Typed,
     Claude!Flags, Claude!FallbackIsSilent
<1>10. Claude!FinalIsFinal'
  BY DEF Claude!IInv, Claude!ClaudeWorkerSound, Claude!Deliver, Claude!Kill, Claude!process,
     Claude!frames, Claude!FinalIsFinal, Claude!Early, Claude!Exited, Claude!Typed, Claude!TypeOK,
     Claude!Pending, Claude!Inputs
<1> QED
  BY <1>1, <1>2, <1>3, <1>4, <1>5, <1>6, <1>7, <1>8, <1>9, <1>10 DEF Claude!IInv,
     Claude!ClaudeWorkerSound

LEMMA ClaudeWindSafe == ASSUME Claude!IInv, Claude!Wind PROVE Claude!IInv'
<1>1. Claude!TypeOK'
  BY ClaudeAssumption DEF Claude!IInv, Claude!ClaudeWorkerSound, Claude!Wind, Claude!process,
     Claude!frames, Claude!TypeOK, Claude!Counted, Claude!Flags
<1>2. Claude!Typed'
  BY DEF Claude!IInv, Claude!ClaudeWorkerSound, Claude!Wind, Claude!process, Claude!frames,
     Claude!Typed, Claude!Flags
<1>3. Claude!Flags'
  BY DEF Claude!IInv, Claude!ClaudeWorkerSound, Claude!Wind, Claude!process, Claude!frames, Claude!Flags
<1>4. Claude!Counted'
  BY ClaudeAssumption DEF Claude!IInv, Claude!ClaudeWorkerSound, Claude!Wind, Claude!process,
     Claude!frames, Claude!Counted, Claude!Flags
<1>5. Claude!Early' /\ Claude!Exited' /\ Claude!Stopping'
  BY DEF Claude!IInv, Claude!ClaudeWorkerSound, Claude!Wind, Claude!process, Claude!frames,
     Claude!Early, Claude!Typed, Claude!Flags, Claude!Exited, Claude!Stopping
<1>6. Claude!Answered'
  BY DEF Claude!IInv, Claude!ClaudeWorkerSound, Claude!Wind, Claude!process, Claude!frames,
     Claude!Answered, Claude!Exited, Claude!Stopping, Claude!Early, Claude!Typed, Claude!Flags,
     Claude!Pending, Claude!Inputs
<1>7. Claude!Decided'
  BY DEF Claude!IInv, Claude!ClaudeWorkerSound, Claude!Wind, Claude!process, Claude!frames,
     Claude!Decided, Claude!Typed, Claude!Flags
<1>8. Claude!DoneIsEarned'
  BY DEF Claude!IInv, Claude!ClaudeWorkerSound, Claude!Wind, Claude!process, Claude!frames,
     Claude!DoneIsEarned, Claude!Answered, Claude!Counted, Claude!Stopping, Claude!Exited, Claude!Early,
     Claude!Decided, Claude!Typed, Claude!Flags, Claude!Pending, Claude!Inputs
<1>9. Claude!NoChildLeft' /\ Claude!FallbackIsSilent'
  BY DEF Claude!IInv, Claude!ClaudeWorkerSound, Claude!Wind, Claude!process, Claude!frames,
     Claude!NoChildLeft, Claude!Early, Claude!Exited, Claude!Decided, Claude!Typed, Claude!Flags,
     Claude!FallbackIsSilent
<1>10. Claude!FinalIsFinal'
  BY DEF Claude!IInv, Claude!ClaudeWorkerSound, Claude!Wind, Claude!process, Claude!frames,
     Claude!FinalIsFinal, Claude!Early, Claude!Exited, Claude!Typed, Claude!TypeOK, Claude!Pending,
     Claude!Inputs
<1> QED
  BY <1>1, <1>2, <1>3, <1>4, <1>5, <1>6, <1>7, <1>8, <1>9, <1>10 DEF Claude!IInv,
     Claude!ClaudeWorkerSound

LEMMA ClaudeGraceOverSafe == ASSUME Claude!IInv, Claude!GraceOver PROVE Claude!IInv'
<1>1. Claude!TypeOK'
  BY ClaudeAssumption DEF Claude!IInv, Claude!ClaudeWorkerSound, Claude!GraceOver, Claude!process,
     Claude!frames, Claude!TypeOK, Claude!Counted, Claude!Flags
<1>2. Claude!Typed'
  BY DEF Claude!IInv, Claude!ClaudeWorkerSound, Claude!GraceOver, Claude!process, Claude!frames,
     Claude!Typed, Claude!Flags
<1>3. Claude!Flags'
  BY DEF Claude!IInv, Claude!ClaudeWorkerSound, Claude!GraceOver, Claude!process, Claude!frames,
     Claude!Flags
<1>4. Claude!Counted'
  BY ClaudeAssumption DEF Claude!IInv, Claude!ClaudeWorkerSound, Claude!GraceOver, Claude!process,
     Claude!frames, Claude!Counted, Claude!Flags
<1>5. Claude!Early' /\ Claude!Exited' /\ Claude!Stopping'
  BY DEF Claude!IInv, Claude!ClaudeWorkerSound, Claude!GraceOver, Claude!process, Claude!frames,
     Claude!Early, Claude!Typed, Claude!Flags, Claude!Exited, Claude!Stopping
<1>6. Claude!Answered'
  BY DEF Claude!IInv, Claude!ClaudeWorkerSound, Claude!GraceOver, Claude!process, Claude!frames,
     Claude!Answered, Claude!Exited, Claude!Stopping, Claude!Early, Claude!Typed, Claude!Flags,
     Claude!Pending, Claude!Inputs
<1>7. Claude!Decided'
  BY DEF Claude!IInv, Claude!ClaudeWorkerSound, Claude!GraceOver, Claude!process, Claude!frames,
     Claude!Decided, Claude!Typed, Claude!Flags
<1>8. Claude!DoneIsEarned'
  BY DEF Claude!IInv, Claude!ClaudeWorkerSound, Claude!GraceOver, Claude!process, Claude!frames,
     Claude!DoneIsEarned, Claude!Answered, Claude!Counted, Claude!Stopping, Claude!Exited, Claude!Early,
     Claude!Decided, Claude!Typed, Claude!Flags, Claude!Pending, Claude!Inputs
<1>9. Claude!NoChildLeft' /\ Claude!FallbackIsSilent'
  BY DEF Claude!IInv, Claude!ClaudeWorkerSound, Claude!GraceOver, Claude!process, Claude!frames,
     Claude!NoChildLeft, Claude!Early, Claude!Exited, Claude!Decided, Claude!Typed, Claude!Flags,
     Claude!FallbackIsSilent
<1>10. Claude!FinalIsFinal'
  BY DEF Claude!IInv, Claude!ClaudeWorkerSound, Claude!GraceOver, Claude!process, Claude!frames,
     Claude!FinalIsFinal, Claude!Early, Claude!Exited, Claude!Typed, Claude!TypeOK, Claude!Pending,
     Claude!Inputs
<1> QED
  BY <1>1, <1>2, <1>3, <1>4, <1>5, <1>6, <1>7, <1>8, <1>9, <1>10 DEF Claude!IInv,
     Claude!ClaudeWorkerSound

\* Done is earned: by now a failure, a signal or an open envelope would be known.
LEMMA ClaudeReturnSafe == ASSUME Claude!IInv, Claude!Return PROVE Claude!IInv'
<1>1. Claude!TypeOK'
  BY ClaudeAssumption DEF Claude!IInv, Claude!ClaudeWorkerSound, Claude!Return, Claude!Classify,
     Claude!Stopped, Claude!process, Claude!frames, Claude!TypeOK, Claude!Counted, Claude!Flags
<1>2. Claude!Typed'
  BY DEF Claude!IInv, Claude!ClaudeWorkerSound, Claude!Return, Claude!Classify, Claude!Stopped,
     Claude!process, Claude!frames, Claude!Typed, Claude!Flags
<1>3. Claude!Flags'
  BY DEF Claude!IInv, Claude!ClaudeWorkerSound, Claude!Return, Claude!Classify, Claude!Stopped,
     Claude!process, Claude!frames, Claude!Flags
<1>4. Claude!Counted'
  BY ClaudeAssumption DEF Claude!IInv, Claude!ClaudeWorkerSound, Claude!Return, Claude!Classify,
     Claude!Stopped, Claude!process, Claude!frames, Claude!Counted, Claude!Flags
<1>5. Claude!Early' /\ Claude!Exited' /\ Claude!Stopping'
  BY DEF Claude!IInv, Claude!ClaudeWorkerSound, Claude!Return, Claude!Classify, Claude!Stopped,
     Claude!process, Claude!frames, Claude!Early, Claude!Typed, Claude!Flags, Claude!Exited,
     Claude!Stopping
<1>6. Claude!Answered'
  BY DEF Claude!IInv, Claude!ClaudeWorkerSound, Claude!Return, Claude!Classify, Claude!Stopped,
     Claude!process, Claude!frames, Claude!Answered, Claude!Exited, Claude!Stopping, Claude!Early,
     Claude!Typed, Claude!Flags, Claude!Pending, Claude!Inputs
<1>7. Claude!Decided'
  BY DEF Claude!IInv, Claude!ClaudeWorkerSound, Claude!Return, Claude!Classify, Claude!Stopped,
     Claude!process, Claude!frames, Claude!Decided, Claude!Typed, Claude!Flags
<1>8. Claude!DoneIsEarned'
  <2>1. PICK ending \in {"timed_out", "aborted", "failed", "done"} :
          /\ ending = Claude!Classify(cFailed')
          /\ cVerdict' = [state |-> ending, cleanup |-> ~cClosed,
                         fallback |-> cClosed /\ ~cOutput /\ ~cVerified /\ cCancel = "live"
                                      /\ ending = "failed" /\ cReason /\ ~cApi]
    <3>1. cFailed' \in BOOLEAN
      BY DEF Claude!Return
    <3>2. Claude!Classify(cFailed') \in {"timed_out", "aborted", "failed", "done"}
      BY <3>1, ClaudeClassified DEF Claude!IInv
    <3> QED
      BY <3>2 DEF Claude!Return
  <2>2. cFailed' = (cFailed \/ ~cClosed \/ (~cApi /\ ~cAttested))
    BY DEF Claude!Return
  <2>3. ending = "done" => /\ ~cFailed' /\ cCancel = "live" /\ ~cOver /\ cExit = "zero"
                           /\ cLast = "report" /\ cVerified /\ (cApi => cAttested)
    BY <2>1, ClaudeClassified DEF Claude!IInv, Claude!Return
  <2>4. ending = "done" => ~cFailed /\ cClosed /\ cAttested
    BY <2>2, <2>3 DEF Claude!IInv, Claude!Flags
  <2>5. ending = "done" => Claude!Pending = {} /\ cUsed <= QueryTurns
    BY <2>3, <2>4 DEF Claude!IInv, Claude!Answered, Claude!Counted
  <2>6. /\ UNCHANGED <<cAttested, cVerified, cLast, cUsed, cClosed, cExit, cCancel, cInput>>
        /\ cVerdict'.state = ending
    BY <2>1 DEF Claude!Return, Claude!process
  <2> QED
    BY <2>3, <2>4, <2>5, <2>6 DEF Claude!DoneIsEarned, Claude!Pending
<1>9. Claude!NoChildLeft' /\ Claude!FallbackIsSilent'
  <2>1. PICK ending \in {"timed_out", "aborted", "failed", "done"} :
          /\ ending = Claude!Classify(cFailed')
          /\ cVerdict' = [state |-> ending, cleanup |-> ~cClosed,
                         fallback |-> cClosed /\ ~cOutput /\ ~cVerified /\ cCancel = "live"
                                      /\ ending = "failed" /\ cReason /\ ~cApi]
    <3>1. cFailed' \in BOOLEAN
      BY DEF Claude!Return
    <3>2. Claude!Classify(cFailed') \in {"timed_out", "aborted", "failed", "done"}
      BY <3>1, ClaudeClassified DEF Claude!IInv
    <3> QED
      BY <3>2 DEF Claude!Return
  <2>2. ~cClosed => cFailed'
    BY DEF Claude!Return
  <2>3. ~cClosed => ending = "failed"
    BY <2>1, <2>2, ClaudeClassified DEF Claude!IInv, Claude!Return
  <2>4. cClosed => cChild = "gone"
    BY DEF Claude!IInv, Claude!Exited
  <2>5. UNCHANGED <<cChild, cOutput, cCancel, cApi>> /\ cClosed \in BOOLEAN
    BY DEF Claude!Return, Claude!process, Claude!IInv, Claude!Flags
  <2>6. cVerdict'.cleanup = ~cClosed /\ cVerdict'.state = ending
        /\ (cVerdict'.fallback => cClosed /\ ~cOutput /\ cCancel = "live" /\ ~cApi)
    BY <2>1
  <2> QED
    BY <2>3, <2>4, <2>5, <2>6 DEF Claude!NoChildLeft, Claude!FallbackIsSilent
<1>10. Claude!FinalIsFinal'
  BY DEF Claude!IInv, Claude!ClaudeWorkerSound, Claude!Return, Claude!Classify, Claude!Stopped,
     Claude!process, Claude!frames, Claude!FinalIsFinal, Claude!Early, Claude!Exited, Claude!Typed,
     Claude!TypeOK, Claude!Pending, Claude!Inputs
<1> QED
  BY <1>1, <1>2, <1>3, <1>4, <1>5, <1>6, <1>7, <1>8, <1>9, <1>10 DEF Claude!IInv,
     Claude!ClaudeWorkerSound

-----------------------------------------------------------------------------
(* The theorem.                                                            *)

LEMMA ClaudeInitSafe == ASSUME Claude!Init PROVE Claude!IInv
<1>1. Claude!TypeOK
  BY ClaudeAssumption DEF Claude!Init, Claude!TypeOK
<1>2. Claude!Typed /\ Claude!Flags /\ Claude!Counted
  <2>1. Claude!Flags
    BY DEF Claude!Init, Claude!Flags
  <2>2. Claude!Counted
    BY ClaudeAssumption DEF Claude!Init, Claude!Counted
  <2>3. Claude!Typed
    BY DEF Claude!Init, Claude!Typed
  <2> QED
    BY <2>1, <2>2, <2>3
<1>3. Claude!Early /\ Claude!Exited /\ Claude!Stopping /\ Claude!Answered /\ Claude!Decided
  BY ClaudeAssumption DEF Claude!Init, Claude!Early, Claude!Exited, Claude!Stopping, Claude!Answered,
     Claude!Decided
<1>4. Claude!DoneIsEarned /\ Claude!NoChildLeft /\ Claude!FallbackIsSilent /\ Claude!FinalIsFinal
  BY DEF Claude!Init, Claude!DoneIsEarned, Claude!NoChildLeft, Claude!FallbackIsSilent,
     Claude!FinalIsFinal
<1> QED
  BY <1>1, <1>2, <1>3, <1>4 DEF Claude!IInv, Claude!ClaudeWorkerSound

LEMMA ClaudeNextSafe == ASSUME Claude!IInv, [Claude!Next]_(Claude!vars) PROVE Claude!IInv'
<1>1. CASE Claude!Admit \/ Claude!Account \/ Claude!Preflight \/ (\E why \in {"abort", "timeout"} : Claude!Cancel(why))
  BY <1>1, ClaudeAdmitSafe, ClaudeAccountSafe, ClaudePreflightSafe, ClaudeCancelSafe
<1>2. CASE Claude!Deadline \/ Claude!LoseIdentity \/ Claude!ChildError \/ (\E code \in {"zero", "other", "cut"} : Claude!ChildExits(code))
  BY <1>2, ClaudeDeadlineSafe, ClaudeLoseIdentitySafe, ClaudeChildErrorSafe, ClaudeChildExitsSafe
<1>3. CASE Claude!Frame
  BY <1>3, ClaudeSyntheticSafe, ClaudeIdentitySafe, ClaudeRateLimitSafe, ClaudeBadFrameSafe,
     ClaudeAssistantSafe, ClaudeReplaySafe, ClaudeResultSafe
     DEF Claude!Frame
<1>4. CASE (\E i \in Claude!Inputs : Claude!Deliver(i)) \/ Claude!ReserveKept \/ Claude!ReserveReached \/ Claude!Wind \/ Claude!GraceOver \/ Claude!Return
  BY <1>4, ClaudeDeliverSafe, ClaudeReserveKeptSafe, ClaudeReserveReachedSafe, ClaudeWindSafe,
     ClaudeGraceOverSafe, ClaudeReturnSafe
<1>5. CASE UNCHANGED Claude!vars
  <2>1. Claude!TypeOK' /\ Claude!Typed' /\ Claude!Flags' /\ Claude!Counted'
    BY <1>5 DEF Claude!IInv, Claude!ClaudeWorkerSound, Claude!vars, Claude!TypeOK, Claude!Typed,
       Claude!Flags, Claude!Counted
  <2>2. Claude!Early' /\ Claude!Exited' /\ Claude!Stopping' /\ Claude!Answered' /\ Claude!Decided'
    BY <1>5 DEF Claude!IInv, Claude!vars, Claude!Early, Claude!Exited, Claude!Stopping, Claude!Answered,
       Claude!Decided, Claude!Pending
  <2>3. Claude!DoneIsEarned' /\ Claude!NoChildLeft' /\ Claude!FallbackIsSilent' /\ Claude!FinalIsFinal'
    BY <1>5 DEF Claude!IInv, Claude!ClaudeWorkerSound, Claude!vars, Claude!DoneIsEarned,
       Claude!NoChildLeft, Claude!FallbackIsSilent, Claude!FinalIsFinal, Claude!Pending
  <2> QED
    BY <2>1, <2>2, <2>3 DEF Claude!IInv, Claude!ClaudeWorkerSound
<1> QED
  BY <1>1, <1>2, <1>3, <1>4, <1>5 DEF Claude!Next

\* What counts as done has the pinned model's own report within its count, a clean
\* exit and no envelope left unanswered; a child that may live is handed over; a
\* reviewer moves on only from silence; nothing is accepted after the final result.
THEOREM ClaudeWorkerIsSound == Claude!Spec => []ClaudeSound
<1>1. Claude!Init => Claude!IInv
  BY ClaudeInitSafe
<1>2. Claude!IInv /\ [Claude!Next]_(Claude!vars) => Claude!IInv'
  BY ClaudeNextSafe
<1>3. Claude!IInv => ClaudeSound
  BY DEF ClaudeSound, Claude!IInv
<1> QED
  BY <1>1, <1>2, <1>3, PTL DEF Claude!Spec
=============================================================================
