---------------------------- MODULE RouteChoice -----------------------------
(***************************************************************************)
(* Which route and which account a wave of workers runs on, as operators   *)
(* (src/subagents/provider-quota.ts, claude-account.ts, model-selection.ts,*)
(* task-class.ts, src/model-route-policy.ts), and one model request along  *)
(* the chain it was given, as a state machine.                             *)
(*                                                                         *)
(* First what a dispatch makes of the account router's `status`: whether a *)
(* tier can launch, which Claude account a worker is pinned on, whether a  *)
(* step held back by `onlyWhen` is open, and which config folder a Claude  *)
(* account stands for.  A window is [used, left]: percent of it used,      *)
(* percent of its time left; -1 when the router did not say, left = 0 when *)
(* its reset has passed.  An account is [eligible : "yes" | "no" |         *)
(* "unsaid", configured, cooling, signedOut, top, weekly, leases], weekly =*)
(* None without usage windows.  A snapshot is [known, listed, accounts].   *)
(***************************************************************************)
EXTENDS Integers, Sequences, SequencesExt, FiniteSets

CONSTANTS
  RemainingBelow, \* short: less than this percent of the week left
  BehindAbove,    \* short: used more than this many points before its time
  Default,        \* the folder ~/.claude
  DefaultB,       \* the folder ~/.claude-b
  Unsafe          \* the folders others may write to, or that are symlinks

None == [used |-> -1, left |-> -1]

Full(w) == w.used >= 100 /\ w.left # 0

(* The router's "yes" always wins, its "no" alone proves nothing: a busy   *)
(* account is not eligible either.                                         *)
BugSpent(a) == a.cooling \/ a.signedOut \/ Full(a.top) \/ Full(a.weekly)

Spent(a) ==
  /\ a.eligible # "yes"
  /\ a.cooling \/ a.signedOut \/ Full(a.top) \/ Full(a.weekly)

Rows(s) == SelectSeq(s.accounts, LAMBDA a : a.configured)

(* A router that is down or lists no such provider says nothing of it. *)
Said(s) == s.known /\ s.listed

Unconfigured(s) == Said(s) /\ Rows(s) = <<>>
AllAre(s, P(_)) ==
  Said(s) /\ Rows(s) # <<>> /\ \A i \in DOMAIN Rows(s) : P(Rows(s)[i])
Exhausted(s)    == AllAre(s, Spent)
Ineligible(s)   == AllAre(s, LAMBDA a : a.eligible = "no")

RouteBlocked(s)  == Exhausted(s) \/ Unconfigured(s)
ClaudeBlocked(s) == Exhausted(s) \/ Ineligible(s)

Pinnable(s) == {i \in DOMAIN Rows(s) : Rows(s)[i].eligible = "yes"}

\* Least used first, an account without a figure last; then fewest leases.
Before(a, b) ==
  LET rank(x) == IF x.top.used = -1 THEN 101 ELSE x.top.used
  IN rank(a) < rank(b) \/ (rank(a) = rank(b) /\ a.leases < b.leases)

\* The row a worker is pinned on, 0: none, -1: refused, there is none to pin.
Pick(s) ==
  IF ~Said(s) \/ Unconfigured(s) THEN 0
  ELSE IF Pinnable(s) = {} THEN -1
  ELSE CHOOSE i \in Pinnable(s) :
         \A j \in Pinnable(s) \ {i} :
           \/ Before(Rows(s)[i], Rows(s)[j])
           \/ i < j /\ ~Before(Rows(s)[j], Rows(s)[i])

BehindPace(a) ==
  LET used == IF a.weekly # None /\ a.weekly.used # -1
              THEN a.weekly.used ELSE a.top.used
      left == IF a.weekly # None /\ a.weekly.left # -1
              THEN a.weekly.left ELSE a.top.left
  IN left > 0 /\ used # -1 /\ used - (100 - left) > BehindAbove

(* The five-hour window may be what the account's own figure is about, so  *)
(* the week's figure stands wherever the router reports windows.           *)
Short(a) ==
  LET used == IF a.weekly # None THEN a.weekly.used ELSE a.top.used
  IN \/ a.eligible = "no" \/ Spent(a)
     \/ used > 100 - RemainingBelow
     \/ BehindPace(a)

OnlyWhenMet(s) == AllAre(s, Short)

-----------------------------------------------------------------------------
(* A worker is pinned on an account that is not spent and than which none  *)
(* is less used, and wherever a tier is closed nothing is pinned on it.    *)
PinnedCanLaunch(s) ==
  /\ Pick(s) > 0 =>
       /\ ~Spent(Rows(s)[Pick(s)])
       /\ \A j \in Pinnable(s) : ~Before(Rows(s)[j], Rows(s)[Pick(s)])
  /\ ClaudeBlocked(s) => Pick(s) = -1

(* No tier is closed while the router offers an account of it, and none on *)
(* what it did not say.                                                    *)
ClosedOnProof(s) ==
  RouteBlocked(s) \/ ClaudeBlocked(s) =>
    /\ Said(s)
    /\ \A i \in DOMAIN Rows(s) : Rows(s)[i].eligible # "yes"

(* A step that waits for a provider's accounts to run short is open once   *)
(* they are all spent, and closed again with the first that has most of    *)
(* its week left.                                                          *)
ShortMeansSpent(s) ==
  /\ Exhausted(s) => OnlyWhenMet(s)
  /\ OnlyWhenMet(s) =>
       \A i \in DOMAIN Rows(s) : LET a == Rows(s)[i] IN
         ~(a.eligible = "yes" /\ a.weekly.used \in 0..20 /\ a.weekly.left = 50)

QuotaSound(s) == PinnedCanLaunch(s) /\ ClosedOnProof(s) /\ ShortMeansSpent(s)

(* A window whose reset has passed does not make an account short: it does *)
(* in this code, which asks the passed reset of the exhaustion only.       *)
StaleIsNotShort(s) ==
  OnlyWhenMet(s) =>
    \E i \in DOMAIN Rows(s) : LET a == Rows(s)[i] IN
      ~(a.eligible = "yes" /\ a.weekly.left = 0)

-----------------------------------------------------------------------------
(***************************************************************************)
(* Which config folder a Claude account stands for, derived from           *)
(* claude-accounts.json, and whether the router's answer for it may launch.*)
(* A registry is [state : "absent" | "invalid" | "ok", entries]; an entry  *)
(* is [id, dir], dir = "outside" when it names nothing under the home      *)
(* folder.  Paths that differ in case only are one folder, and one value   *)
(* here.                                                                   *)
(***************************************************************************)
Listed(reg) == IF reg.state = "ok"
               THEN SelectSeq(reg.entries, LAMBDA e : e.dir # "outside")
               ELSE <<>>

\* The last entry for it moves primary away from its default folder.
Primary(reg) ==
  FoldLeft(LAMBDA d, e : IF e.id = "primary" THEN e.dir ELSE d,
           Default, Listed(reg))

(* Primary keeps the default folder too, wherever it was moved. *)
BugClaimed(accounts, dir) == \E i \in 2..Len(accounts) : accounts[i].dir = dir

Claimed(accounts, dir) ==
  dir = Default \/ \E i \in DOMAIN accounts : accounts[i].dir = dir

\* One more account, unless an earlier one has its folder: then refused.
Claim(folders, e) ==
  IF \/ e.id = "primary"
     \/ \E i \in DOMAIN folders.accounts : folders.accounts[i].id = e.id
     \/ e.id \in folders.refused
  THEN folders
  ELSE IF Claimed(folders.accounts, e.dir)
  THEN [folders EXCEPT !.refused = @ \cup {e.id}]
  ELSE [folders EXCEPT !.accounts = Append(@, e)]

Folders(reg) ==
  LET first == [accounts |-> << [id |-> "primary", dir |-> Primary(reg)] >>,
                refused |-> {}]
      then  == IF reg.state = "absent"
               THEN Claim(first, [id |-> "b", dir |-> DefaultB]) ELSE first
  IN FoldLeft(Claim, then, Listed(reg))

Refusal(why) == [ok |-> FALSE, dir |-> why, mode |-> "none"]

\* An account's folder, or why there is none.
Selection(reg, id) ==
  LET f     == Folders(reg)
      known == {i \in DOMAIN f.accounts : f.accounts[i].id = id}
      late  == id = "b" /\ reg.state # "invalid" /\ known = {} /\ "b" \notin f.refused
      taken == \E i \in DOMAIN f.accounts : f.accounts[i].dir = DefaultB
      dir   == IF known # {} THEN f.accounts[CHOOSE i \in known : TRUE].dir
               ELSE DefaultB
  IN IF known = {} /\ (id \in f.refused \/ (late /\ taken))
     THEN Refusal("conflict")
     ELSE IF known = {} /\ ~late THEN Refusal("unknown")
     ELSE IF dir \in Unsafe THEN Refusal("unsafe")
     ELSE [ok |-> TRUE, dir |-> dir,
           mode |-> IF id = "primary" /\ dir = Default
                    THEN "default" ELSE "explicit"]

(* The router's answer, [id, dir, eligible, sets]: "sets" is the folder the*)
(* child's environment gets, "unset" for none.  Only the two conventional  *)
(* accounts launch without its explicit yes.                               *)
BugConfirmed(id, a) == a.eligible # "no"

Confirmed(id, a) ==
  \/ a.eligible = "yes"
  \/ a.eligible = "unsaid" /\ id \in {"primary", "b"}

Resolved(reg, id, a) ==
  LET s == Selection(reg, id)
  IN /\ s.ok /\ a.id = id /\ a.dir = s.dir
     /\ Confirmed(id, a)
     /\ a.sets = IF s.mode = "default" THEN "unset" ELSE s.dir

-----------------------------------------------------------------------------
(* Two accounts never stand for one folder: a worker pinned on one would   *)
(* spend the plan of the other.                                            *)
OneFolderEach(reg, ids) ==
  \A a, b \in ids :
    a # b /\ Selection(reg, a).ok /\ Selection(reg, b).ok
      => Selection(reg, a).dir # Selection(reg, b).dir

(* The environment a child gets without a folder of its own is primary's,  *)
(* and a damaged registry opens no account but that one.                   *)
DefaultIsPrimary(reg, ids) ==
  \A a \in ids :
    /\ Selection(reg, a).mode = "default" => a = "primary"
    /\ reg.state = "invalid" /\ Selection(reg, a).ok => a = "primary"

(* What launches is the folder asked for, confirmed for that account.      *)
LaunchIsConfirmed(reg, ids, a) ==
  \A id \in ids :
    Resolved(reg, id, a) =>
      /\ a.sets = "unset" => id = "primary"
      /\ a.sets # "unset" => \A b \in ids \ {id} : Selection(reg, b).dir # a.sets
      /\ a.eligible = "yes" \/ id \in {"primary", "b"}

AccountsSound(reg, ids, a) ==
  OneFolderEach(reg, ids) /\ DefaultIsPrimary(reg, ids)
    /\ LaunchIsConfirmed(reg, ids, a)

-----------------------------------------------------------------------------
(***************************************************************************)
(* Routes are looked at through a world w: w[r] is [there, auth, image,    *)
(* plan, granted, open, spent]: known to the registry, authenticated,      *)
(* reads images, a subscription or local route, an allowlisted paid one,   *)
(* its `onlyWhen` met, its provider proven exhausted.  A chain is a        *)
(* sequence of routes.                                                     *)
(*                                                                         *)
(* A query q is [named, review, images, forced, free, class, rank, out,    *)
(* hooked, configured, auto, head, chain]: an explicit route or "none";    *)
(* the class chain that may steer, <<>> for none, the ranking's order and  *)
(* the routes it holds out; the profiles with an `ensure` hook; the role's *)
(* default or "none", whether it resolves a chain, and which.              *)
(***************************************************************************)
Eligible(w, r, images) ==
  /\ w[r].there /\ w[r].auth
  /\ images => w[r].image
  /\ w[r].plan \/ w[r].granted

BugPasses(w, r, images) == ~w[r].spent /\ Eligible(w, r, images)

Passes(w, r, images) == w[r].open /\ ~w[r].spent /\ Eligible(w, r, images)

FirstOf(chain, P(_)) ==
  LET hits == SelectSeq(chain, P) IN IF hits = <<>> THEN "none" ELSE Head(hits)

\* The first step a dispatch may use, "none" when the chain is exhausted.
Chained(w, chain, images) ==
  FirstOf(chain, LAMBDA r : Passes(w, r, images))

(* The route a request that failed hops to: a later step that could be     *)
(* called.  `onlyWhen` and the quota read are the dispatch's business.     *)
NextChainRoute(w, chain, from, images) ==
  LET places == {i \in DOMAIN chain : chain[i] = from}
      first == CHOOSE i \in places : \A j \in places : i <= j
  IN IF places = {} THEN "none"
     ELSE FirstOf(SubSeq(chain, first + 1, Len(chain)),
                  LAMBDA r : Eligible(w, r, images))

-----------------------------------------------------------------------------
(* Task classes: tasks are [class, rule, edit, bash], the class a task     *)
(* names and the one the operator's rules would give it; a configured      *)
(* class c is conf[c] = [slots, small].                                    *)
Configured(conf, c) == c \in DOMAIN conf

(* Every task that names no class gets the first that fits the wave: the   *)
(* class some task names, else the one the first of them is given.         *)
Inferred(conf, tasks) ==
  LET named == SelectSeq(tasks, LAMBDA t : Configured(conf, t.class))
      given == SelectSeq(tasks, LAMBDA t : t.class = "none"
                                             /\ Configured(conf, t.rule))
      chosen == IF named # <<>> THEN Head(named).class
                ELSE IF given # <<>> THEN Head(given).rule ELSE "none"
  IN [i \in DOMAIN tasks |->
       IF tasks[i].class = "none" /\ tasks[i].rule = chosen
            /\ Configured(conf, chosen)
       THEN [tasks[i] EXCEPT !.class = chosen] ELSE tasks[i]]

Classes(conf, tasks) ==
  {c \in {tasks[i].class : i \in DOMAIN tasks} : Configured(conf, c)}

Fits(conf, tasks, c) ==
  /\ \A i \in DOMAIN tasks : tasks[i].class = c
  /\ Len(tasks) <= conf[c].slots
  /\ conf[c].small => \A i \in DOMAIN tasks : ~(tasks[i].edit /\ tasks[i].bash)

\* The class that steers the wave, "none", or "refused" for two of them.
WaveClass(conf, tasks) ==
  LET cs == Classes(conf, tasks)
      c  == CHOOSE x \in cs : TRUE
  IN IF Cardinality(cs) > 1 THEN "refused"
     ELSE IF cs = {} \/ ~Fits(conf, tasks, c) THEN "none" ELSE c

-----------------------------------------------------------------------------
Refused == [route |-> "none", source |-> "refused", class |-> "none",
            chain |-> <<>>, alternates |-> <<>>]

(* A named route is used as it is, or the dispatch is refused: no grant,   *)
(* quota or condition is asked for, the request itself is gated.           *)
Exact(w, q, r, source) ==
  IF w[r].there /\ w[r].auth /\ (q.images => w[r].image)
  THEN [Refused EXCEPT !.route = r, !.source = source]
  ELSE Refused

AlongChain(w, q, chain) ==
  LET r == Chained(w, chain, q.images)
  IN IF r = "none" THEN Refused
     ELSE [Refused EXCEPT !.route = r, !.source = "chain", !.chain = chain]

\* The class chain's steps that may be launched, best first.
ClassOrder(w, q) ==
  IF q.named # "none" \/ q.review \/ q.images THEN <<>>
  ELSE SelectSeq(q.rank, LAMBDA r :
         /\ r \notin q.out
         /\ \E i \in DOMAIN q.class : q.class[i] = r
         /\ Passes(w, r, FALSE))

Normal(w, q) ==
  CASE q.named # "none"            -> Exact(w, q, q.named, "override")
    [] q.forced /\ ~q.review       -> AlongChain(w, q, q.chain)
    [] q.free # "none" /\ ~q.review /\ ~q.images
                                   -> Exact(w, q, q.free, "profile-default")
    [] q.configured # "none" /\ ~q.auto
                                   -> Exact(w, q, q.configured, "profile-default")
    [] OTHER -> AlongChain(w, q, IF q.head = "none" THEN q.chain
                                 ELSE << q.head >> \o q.chain)

(* A reply that stays empty moves on to the next of the class's steps; one *)
(* whose profile runs an `ensure` hook is not offered, the hook only wraps *)
(* the route the run began on.                                             *)
Offered(q, r) == r \notin q.hooked

WorkerSelection(w, q) ==
  LET steps == ClassOrder(w, q)
      none  == q.named # "none" \/ q.review \/ q.images \/ q.class = <<>>
  IN IF steps # <<>>
     THEN [route |-> Head(steps), source |-> "chain", class |-> "served",
           chain |-> steps,
           alternates |-> SelectSeq(Tail(steps), LAMBDA r : Offered(q, r))]
     ELSE [Normal(w, q) EXCEPT !.class = IF none THEN "none" ELSE "fallback"]

-----------------------------------------------------------------------------
(* Money is spent on a route nobody named only with the operator's grant,  *)
(* and a worker begins on none that is held back or exhausted.             *)
AutomaticIsGranted(w, q) ==
  LET s == WorkerSelection(w, q) IN
  s.source = "chain" =>
    \A r \in {s.route} \cup ToSet(s.alternates) :
      /\ w[r].plan \/ w[r].granted
      /\ w[r].open /\ ~w[r].spent /\ w[r].auth

(* An explicit selector is served exactly or not at all.                   *)
NamedIsExact(w, q) ==
  q.named # "none" =>
    LET s == WorkerSelection(w, q) IN
    /\ s.route \in {q.named, "none"}
    /\ s.chain = <<>> /\ s.alternates = <<>>

(* A class steers only what it may: it never takes a wave of reviewers or  *)
(* one with images, never launches a route held out, and never falls over  *)
(* to a route that needs its own hook.                                     *)
ClassStaysInside(w, q) ==
  LET s == WorkerSelection(w, q) IN
  s.class = "served" =>
    /\ ~q.review /\ ~q.images
    /\ ToSet(s.chain) \subseteq ToSet(q.class) \ q.out
    /\ ToSet(s.alternates) \cap q.hooked = {}

(* A hop goes on along the chain, so no request comes back to a route it   *)
(* left, and spends nothing that was not granted.                          *)
HopsGoOn(w, q) ==
  \A i \in DOMAIN q.chain :
    LET r == NextChainRoute(w, q.chain, q.chain[i], q.images) IN
    r # "none" => /\ \E j \in (i + 1)..Len(q.chain) : q.chain[j] = r
                  /\ w[r].plan \/ w[r].granted

(* The rules never bring a second class into a wave, and a class steers a  *)
(* wave only as a whole.                                                   *)
WaveIsOneClass(conf, tasks) ==
  LET after == Inferred(conf, tasks)
      c == WaveClass(conf, after)
  IN /\ Classes(conf, tasks) # {} => Classes(conf, after) = Classes(conf, tasks)
     /\ Cardinality(Classes(conf, tasks)) <= 1 => c # "refused"
     /\ c \notin {"none", "refused"} =>
          \A i \in DOMAIN after :
            after[i].class = c /\ ~(conf[c].small /\ after[i].edit /\ after[i].bash)

ChoiceSound(w, q) ==
  /\ AutomaticIsGranted(w, q) /\ NamedIsExact(w, q)
  /\ ClassStaysInside(w, q) /\ HopsGoOn(w, q)

-----------------------------------------------------------------------------
(***************************************************************************)
(* One model request along an ordered chain (withPreOutputChainFallback):  *)
(* a route that fails before anything was emitted is left for the next,    *)
(* with the identical request.  The stream of the next route is guarded    *)
(* the same way; as the chain only goes forward, the wrappers come to the  *)
(* same answer and one of them stands for all.                             *)
(***************************************************************************)
CONSTANTS
  Chain,     \* the routes of the run's chain, in order
  Images,    \* the request carries images
  World,     \* what the registry says of each route
  MaxEvents  \* bound: content events of a request

VARIABLES
  at,        \* the route that is answering
  tried,     \* the routes the request was sent to, in order
  emitted,   \* the route has begun to answer
  granted,   \* the routes the operator's allowlist grants, re-read each hop
  out,       \* what the caller has been given: "start", "text", "done", "error"
  source,    \* the stream: "open", "ended" by its last event, "closed"
  aborted

vars == << at, tried, emitted, granted, out, source, aborted >>

Route == {Chain[i] : i \in DOMAIN Chain}
Terminal == {"done", "error"}
Ended == source = "closed"

TypeOK ==
  /\ at \in Route /\ tried \in Seq(Route) /\ emitted \in BOOLEAN
  /\ granted \subseteq Route /\ aborted \in BOOLEAN
  /\ out \in Seq({"start", "text"} \cup Terminal)
  /\ source \in {"open", "ended", "closed"}

Now == [r \in Route |-> [World[r] EXCEPT !.granted = r \in granted]]

Init ==
  /\ at = Chain[1] /\ tried = << Chain[1] >> /\ emitted = FALSE
  /\ granted = {r \in Route : World[r].granted}
  /\ out = <<>> /\ source = "open" /\ aborted = FALSE

\* A start is only metadata.
Start ==
  /\ source = "open" /\ ~emitted /\ Len(out) < Len(tried)
  /\ out' = Append(out, "start")
  /\ UNCHANGED << at, tried, emitted, granted, source, aborted >>

Text ==
  /\ source = "open" /\ Len(SelectSeq(out, LAMBDA e : e = "text")) < MaxEvents
  /\ out' = Append(out, "text")
  /\ emitted' = TRUE
  /\ UNCHANGED << at, tried, granted, source, aborted >>

Done ==
  /\ source = "open"
  /\ out' = Append(out, "done")
  /\ source' = "ended"
  /\ UNCHANGED << at, tried, emitted, granted, aborted >>

BugMayHop(class) == ~aborted /\ class = "transient"

(* Spent credits, no endpoint, overload or an exhausted plan may leave the *)
(* route; authentication, permission, context and bad requests never do.   *)
MayHop(class) == ~emitted /\ ~aborted /\ class = "transient"

Target == NextChainRoute(Now, Chain, at, Images)

(* The route fails.  One that is left tells the caller nothing. *)
Fail ==
  /\ source = "open"
  /\ \E class \in {"transient", "final"} :
       IF MayHop(class) /\ Target \notin {"none"} \cup ToSet(tried)
       THEN /\ at' = Target
            /\ tried' = Append(tried, Target)
            /\ emitted' = FALSE
            /\ UNCHANGED << out, source >>
       ELSE /\ out' = Append(out, "error")
            /\ source' = "ended"
            /\ UNCHANGED << at, tried, emitted >>
  /\ UNCHANGED << granted, aborted >>

(* It throws, or ends without a word: that is an error of its own. *)
Break ==
  /\ source = "open"
  /\ out' = Append(out, "error")
  /\ source' = "ended"
  /\ UNCHANGED << at, tried, emitted, granted, aborted >>

Close ==
  /\ source = "ended"
  /\ source' = "closed"
  /\ UNCHANGED << at, tried, emitted, granted, out, aborted >>

Abort ==
  /\ ~aborted /\ source = "open"
  /\ aborted' = TRUE
  /\ UNCHANGED << at, tried, emitted, granted, out, source >>

\* The operator edits the allowlist.
Grant ==
  /\ source = "open"
  /\ \E r \in Route : granted' = (granted \cup {r}) \ (granted \cap {r})
  /\ UNCHANGED << at, tried, emitted, out, source, aborted >>

Next == Start \/ Text \/ Done \/ Fail \/ Break \/ Close \/ Abort \/ Grant

\* The source ends some day (a provider's stream is under its own timeout).
Own == (source = "open" /\ (Done \/ Fail \/ Break)) \/ Close

Fairness == WF_vars(Own)
Spec == Init /\ [][Next]_vars /\ Fairness

-----------------------------------------------------------------------------
(* The answer the caller reads is one route's: nothing another has said,   *)
(* or done, comes before it.                                               *)
Unheard == at' # at => ~emitted /\ \A i \in DOMAIN out : out[i] = "start"
NothingReplayed == [][Unheard]_vars

(* A request is sent to a route once, and to each further one with the     *)
(* grant it needs at that moment, in the order of the chain.               *)
ForwardOnly ==
  \A i, j \in DOMAIN tried : i < j =>
    \E a, b \in DOMAIN Chain : a < b /\ Chain[a] = tried[i] /\ Chain[b] = tried[j]

(* The caller hears one end, and nothing after it.                         *)
OneEnd ==
  /\ \A i \in DOMAIN out : out[i] \in Terminal => i = Len(out)
  /\ source # "open" => out # <<>> /\ Last(out) \in Terminal

\* A caller that is told of text has been told it by the route it is told of.
TextIsOne == \A i \in DOMAIN out : out[i] = "text" => emitted

ChainSound == TypeOK /\ ForwardOnly /\ OneEnd /\ TextIsOne

StreamEnds == []<>Ended
=============================================================================
