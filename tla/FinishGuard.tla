----------------------------- MODULE FinishGuard -----------------------------
(***************************************************************************)
(* The guard that pushes a turn on while requested work is open, at most   *)
(* MaxPushes times per operator message.  The Pi extension                 *)
(* (extensions/finish-guard.ts) keeps a few variables and seeds them again *)
(* from the session's branch; the Claude Code hook                         *)
(* (src/finish-guard-hook.ts) has only the transcript, read backwards.     *)
(* Both judge by the verdict of src/finish-guard.ts.  A reply, a list and  *)
(* a request are reduced to what the verdict tells apart.                  *)
(***************************************************************************)
EXTENDS Naturals, Sequences, FiniteSets

CONSTANTS
  MaxPushes,  \* finishGuard.maxPushes
  MaxBranch   \* bound: entries of the branch

VARIABLES
  branch,   \* the session: operator and extension messages, replies, todo
            \* results and pushes, oldest first
  open, text, asked, pushes,  \* the extension's todos, finalText, lastUser
                              \* and pushes
  turn,     \* "idle", "working", "settling"
  continued, \* the turn goes on because somebody at its end asked for it
  forgot,   \* ghost: a seed stopped at a message that is no operator's
  reloaded  \* ghost: the variables were seeded since the operator spoke

vars == << branch, open, text, asked, pushes, turn, continued, forgot, reloaded >>

\* A request to work, or one to stop or only answer; a message of another
\* extension, which reads as a user's; a reply that reports open work and one
\* that does not (one without text changes nothing); the todo list.
Requests == {"go", "stop"}
Replies == {"reports", "clean"}
Lists == {"unfinished", "finished"}
Entries == Requests \cup Replies \cup Lists \cup {"ext", "push"}

TypeOK ==
  /\ branch \in Seq(Entries) /\ Len(branch) <= MaxBranch
  /\ open \in BOOLEAN /\ text \in {"none", "reports", "clean"}
  /\ asked \in Requests \cup {"none"} /\ pushes \in 0..MaxPushes
  /\ turn \in {"idle", "working", "settling"}
  /\ {continued, forgot, reloaded} \subseteq BOOLEAN

Init ==
  /\ branch = <<>> /\ open = FALSE /\ text = "none" /\ asked = "none"
  /\ pushes = 0 /\ turn = "idle" /\ continued = FALSE /\ forgot = FALSE /\ reloaded = FALSE

-----------------------------------------------------------------------------
BugBlocks(todo, reply, user, earlier) ==
  /\ earlier <= MaxPushes
  /\ todo \/ reply = "reports"
  /\ user # "stop"

(* The verdict: something is open, the cap is not reached, and the operator *)
(* did not ask to stop.                                                    *)
Blocks(todo, reply, user, earlier) ==
  /\ earlier < MaxPushes
  /\ todo \/ reply = "reports"
  /\ user # "stop"

-----------------------------------------------------------------------------
(* Reading a branch backwards. *)

Latest(S) == CHOOSE i \in S \cup {0} : \A j \in S : j <= i
Where(b, X) == {i \in DOMAIN b : b[i] \in X}

\* The last message of a user: anything the branch holds in that role.
LastUser(b) == Latest(Where(b, Requests \cup {"ext"}))
After(b, X) == {i \in Where(b, X) : i > LastUser(b)}

LastOf(b, X, none) == LET i == Latest(X) IN IF i = 0 THEN none ELSE b[i]
ListOf(b) == LastOf(b, Where(b, Lists), "finished") = "unfinished"
UserOf(b) == LET i == LastUser(b) IN
  IF i = 0 THEN "none" ELSE IF b[i] = "ext" THEN "go" ELSE b[i]

\* The extension's seed: pushes and the last reply after the last user.
Seeded(b) ==
  [open |-> ListOf(b), asked |-> UserOf(b),
   pushes |-> Cardinality(After(b, {"push"})),
   text |-> LastOf(b, After(b, Replies), "none")]

\* The hook's scan: as above, but only the reply to the last push counts, and
\* a transcript without an operator's message is left alone.
Scanned(b) ==
  LET locked == Latest(After(b, {"push"}))
  IN  [Seeded(b) EXCEPT
         !.text = LastOf(b, {i \in After(b, Replies) : i > locked}, "none")]

\* stop_hook_active: a turn that goes on already, with no push of the guard in sight,
\* counts as pushed on often enough.
HookBlocks(b) ==
  /\ LastUser(b) # 0
  /\ LET s == Scanned(b)
         earlier == IF continued /\ s.pushes = 0 THEN MaxPushes ELSE s.pushes
     IN  Blocks(s.open, s.text, s.asked, earlier)

-----------------------------------------------------------------------------
Grown(e) == Len(branch) < MaxBranch /\ branch' = Append(branch, e)

(* The operator speaks, also into a running turn. *)
Input(r) ==
  /\ Grown(r)
  /\ asked' = r /\ text' = "none" /\ pushes' = 0
  /\ turn' = "working" /\ continued' = FALSE /\ forgot' = FALSE /\ reloaded' = FALSE
  /\ UNCHANGED open

(* Another extension sends a user message: the guard does not take it for  *)
(* the operator's.                                                         *)
ExtensionSpeaks ==
  /\ Grown("ext") /\ turn' = "working"
  /\ UNCHANGED << open, text, asked, pushes, continued, forgot, reloaded >>

MessageEnd(e) ==
  /\ turn = "working" /\ Grown(e)
  /\ text' = e
  /\ UNCHANGED << open, asked, pushes, turn, continued, forgot, reloaded >>

ToolResult(l) ==
  /\ turn = "working" /\ Grown(l)
  /\ open' = (l = "unfinished")
  /\ UNCHANGED << text, asked, pushes, turn, continued, forgot, reloaded >>

(* The turn is over; an abort or an error settles it without the guard.    *)
TurnEnds ==
  /\ turn = "working"
  /\ \/ turn' = "settling" /\ UNCHANGED continued
     \/ turn' = "idle" /\ continued' = FALSE
  /\ UNCHANGED << branch, open, text, asked, pushes, forgot, reloaded >>

(* The guard pushes, and only the reply to a push counts the next time; or  *)
(* another extension had the turn go on before, and the guard says nothing; *)
(* or the turn ends.                                                        *)
BeforeSettle ==
  /\ turn = "settling"
  /\ \/ /\ Blocks(open, text, asked, pushes)
        /\ Grown("push")
        /\ pushes' = pushes + 1 /\ text' = "none" /\ turn' = "working" /\ continued' = TRUE
     \/ /\ turn' = "working" /\ continued' = TRUE
        /\ UNCHANGED << branch, pushes, text >>
     \/ /\ ~Blocks(open, text, asked, pushes)
        /\ turn' = "idle" /\ continued' = FALSE
        /\ UNCHANGED << branch, pushes, text >>
  /\ UNCHANGED << open, asked, forgot, reloaded >>

(* The session is started again or another branch is entered. *)
Reseed ==
  /\ turn = "idle" /\ branch # <<>> /\ ~reloaded
  /\ LET s == Seeded(branch)
     IN  /\ open' = s.open /\ text' = s.text /\ asked' = s.asked
         /\ pushes' = s.pushes
  /\ forgot' = (forgot \/ branch[LastUser(branch)] = "ext")
  /\ reloaded' = TRUE
  /\ UNCHANGED << branch, turn, continued >>

Next ==
  \/ \E r \in Requests : Input(r)
  \/ \E e \in Replies : MessageEnd(e)
  \/ \E l \in Lists : ToolResult(l)
  \/ ExtensionSpeaks \/ TurnEnds \/ BeforeSettle \/ Reseed

Spec == Init /\ [][Next]_vars

-----------------------------------------------------------------------------
\* Pushes since the operator last spoke.
Given == Cardinality({i \in Where(branch, {"push"}) :
                        i > Latest(Where(branch, Requests))})

(* The operator's message is pushed on at most MaxPushes times, over       *)
(* reloads too, unless a reload took another extension's message for his.  *)
PushesBounded == ~forgot => Given <= MaxPushes

(* The operator who asked to stop is not worked on: no push follows such a *)
(* message.                                                                *)
StopIsHeard ==
  ~forgot /\ asked = "stop" => Given = 0

(* The hook, which reads the transcript alone, never holds back a turn that *)
(* the extension, which remembers, would let go; and it lets go no other    *)
(* one than a turn that goes on for somebody else and has seen no push.     *)
HostsAgree ==
  turn = "settling" /\ ~reloaded /\ Where(branch, {"ext"}) = {} =>
    /\ HookBlocks(branch) => Blocks(open, text, asked, pushes)
    /\ Blocks(open, text, asked, pushes) /\ ~(continued /\ pushes = 0) => HookBlocks(branch)

GuardSound == TypeOK /\ PushesBounded /\ StopIsHeard /\ HostsAgree

(* An operator's message is pushed on at most MaxPushes times: not so when *)
(* a reload takes another extension's message for one of his.              *)
PushesPerOperator == Given <= MaxPushes
=============================================================================
