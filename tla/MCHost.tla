------------------------------ MODULE MCHost -------------------------------
(***************************************************************************)
(* Model-checking instances of the tools of a session, of its terminal and *)
(* of the choice of routes.  They share no state, so each behaviour is one *)
(* of them: part says which, and the first of the variables xN hold its    *)
(* state, in the order its module declares.                                *)
(*                                                                         *)
(*   plan      a todo list, one text the beginning of two others           *)
(*   calls     two calls of the todo tool, two sessions                    *)
(*   guard     the finish guard, one push allowed                          *)
(*   verify    the verification after edits, two failures allowed          *)
(*   store     the evidence of two processes, two lines a generation       *)
(*   ranking   a class of two routes                                       *)
(*   stream    a request over a chain of three routes                      *)
(*   gate      two requests to the plan and one to the metered route       *)
(*   free      a request of a free model, and one of the free profile      *)
(*   inbox     two sessions of one terminal and a note to each of them     *)
(*   ui        two requests of the terminal, two changes of configuration  *)
(*                                                                         *)
(* Four more are functions, of every question x1 that is asked of them:    *)
(* quota, accounts, choice and wave.                                       *)
(***************************************************************************)
EXTENDS Integers, Sequences, FiniteSets

VARIABLES part, x1, x2, x3, x4, x5, x6, x7, x8, x9, x10, x11, x12, x13, x14, x15, x16

-----------------------------------------------------------------------------
(* Questions: snapshots of the account router, registries of Claude        *)
(* accounts and the router's answers, worlds of two routes, waves of two.  *)

Seqs(S, n) == UNION {[1..k -> S] : k \in 0..n}

Account(tops, weeks, colds) ==
  [eligible : {"yes", "no", "unsaid"}, configured : {TRUE}, cooling : colds,
   signedOut : {FALSE}, top : tops, weekly : weeks, leases : {0, 1}]
W(used, left) == [used |-> used, left |-> left]
Tops   == {W(-1, -1), W(60, 90), W(100, 50), W(100, 0)}
Weeks  == {W(-1, -1), W(20, 50), W(100, 50), W(100, 0)}
Listed == Seqs(Account(Tops, Weeks, BOOLEAN), 1)
          \cup [1..2 -> Account({W(-1, -1), W(60, 90)}, {W(20, 50), W(100, 50)}, {FALSE})]
Snapshots == [known : BOOLEAN, listed : BOOLEAN, accounts : Listed]

Ids == {"primary", "b", "c"}
Registries ==
  [state : {"absent", "invalid"}, entries : {<<>>}]
  \cup [state : {"ok"}, entries : Seqs([id : Ids, dir : {"home", "homeb", "x", "y", "outside"}], 2)]
Answers == [reg : Registries,
            a : [id : Ids, dir : {"home", "homeb", "x"}, eligible : {"yes", "no", "unsaid"},
                 sets : {"unset", "home", "x"}]]

Plain == [there |-> TRUE, auth |-> TRUE, image |-> TRUE, plan |-> TRUE,
          granted |-> FALSE, open |-> TRUE, spent |-> FALSE]
Metered(g) == [Plain EXCEPT !.plan = FALSE, !.granted = g]
Kinds == {Plain, Metered(TRUE), Metered(FALSE), [Plain EXCEPT !.open = FALSE],
           [Plain EXCEPT !.spent = TRUE], [Plain EXCEPT !.image = FALSE]}
Roles == {[configured |-> "none", auto |-> FALSE, head |-> "none"],
          [configured |-> "b", auto |-> FALSE, head |-> "none"],
          [configured |-> "b", auto |-> TRUE, head |-> "b"]}
Ranks == {[rank |-> <<"a", "b">>, out |-> {}], [rank |-> <<"b", "a">>, out |-> {}],
          [rank |-> <<"b", "a">>, out |-> {"b"}]}
Queries ==
  {[named |-> n, review |-> v, images |-> i, forced |-> f, free |-> e, class |-> c,
    rank |-> k.rank, out |-> k.out, hooked |-> {"b"}, configured |-> r.configured,
    auto |-> r.auto, head |-> r.head, chain |-> <<"a", "b">>] :
     n \in {"none", "a"}, v, i, f \in BOOLEAN, e \in {"none", "b"},
     c \in {<<>>, <<"a", "b">>}, k \in Ranks, r \in Roles}
Choices == [w : [{"a", "b"} -> Kinds], q : Queries]

Waves == [conf : [{"k", "l"} -> {[slots |-> 2, small |-> FALSE], [slots |-> 1, small |-> TRUE]}],
          tasks : Seqs([class : {"none", "k", "l"}, rule : {"none", "k", "l"},
                        edit : BOOLEAN, bash : BOOLEAN], 2)]

Starts(a, b) == a = "a" /\ b \in {"ab", "ac"}
Outlines == {<<[name |-> "p", items |-> <<"ab">>], [name |-> "q", items |-> <<"ac">>]>>}
Wishes   == {[action |-> "message", model |-> "n"], [action |-> "resume", model |-> "m"]}
Registry == [r \in {"a", "b", "c"} |-> IF r = "b" THEN Metered(TRUE) ELSE Plain]

-----------------------------------------------------------------------------
Plan == INSTANCE TodoPlan WITH
  Content <- {"a", "ab", "ac"}, Prefix <- Starts, Name <- {"p", "q"},
  Plans <- Outlines, MaxItems <- 3,
  phases <- x1
Calls == INSTANCE TodoCalls WITH
  Call <- {"c", "d"}, Owner <- {"o", "p"}, MaxMoves <- 1,
  session <- x1, epoch <- x2, active <- x3, closed <- x4, json <- x5, md <- x6, queue <- x7,
  call <- x8, loads <- x9, panel <- x10, moves <- x11
Guard == INSTANCE FinishGuard WITH
  MaxPushes <- 1, MaxBranch <- 5,
  branch <- x1, open <- x2, text <- x3, asked <- x4, pushes <- x5, turn <- x6, continued <- x7,
  forgot <- x8, reloaded <- x9
Verify == INSTANCE VerifyAfterEdit WITH
  FailLimit <- 2, Reported <- TRUE, MaxEdits <- 4,
  revision <- x1, quiet <- x2, consecutive <- x3, at <- x4, batch <- x5, child <- x6,
  code <- x7, reason <- x8, report <- x9, failed <- x10, answer <- x11, aborted <- x12
Store == INSTANCE RouteStore WITH
  Proc <- {"p", "q"}, MaxLines <- 2, MaxAppends <- 5,
  prev <- x1, live <- x2, writer <- x3, lines <- x4, renames <- x5, cache <- x6, raced <- x7
Ranking == INSTANCE RouteRanking WITH
  Routes <- 2, DemoteAfter <- 2, Window <- 3, Floor <- 0, Cooldown <- 1,
  MaxRuns <- 3, MaxOpen <- 1, MaxJudged <- 1, MaxTime <- 1,
  now <- x1, tasks <- x2, verdict <- x3, probes <- x4, runs <- x5
Choice == INSTANCE RouteChoice WITH
  RemainingBelow <- 20, BehindAbove <- 30, Default <- "home", DefaultB <- "homeb", Unsafe <- {"y"},
  Chain <- <<"a", "b", "c">>, Images <- FALSE, World <- Registry, MaxEvents <- 2,
  at <- x1, tried <- x2, emitted <- x3, granted <- x4, out <- x5, source <- x6, aborted <- x7
Gate == INSTANCE MeteredGate WITH
  Attempt <- {"a", "b"}, Paid <- {"p"}, Key <- {"k", "l"}, Grant <- 1,
  MaxTime <- 2, MaxEdits <- 1,
  now <- x1, key <- x2, reviewed <- x3, allowed <- x4, spent <- x5, generation <- x6,
  attempt <- x7, paid <- x8, edits <- x9, proof <- x10
Free == INSTANCE FreeRoute WITH
  Request <- {"r", "v"}, Virtual <- {"v"}, Model <- {"m", "n"}, Ttl <- 1,
  MaxProofs <- 1, MaxTime <- 2, MaxEdits <- 1,
  now <- x1, edits <- x2, file <- x3, proofs <- x4, fetching <- x5, request <- x6, said <- x7
Box == INSTANCE Inbox WITH
  Copy <- {"x", "y"}, Session <- {"s", "t"}, Note <- {"c", "d"},
  To <- [c |-> "s", d |-> "t"], Limit <- 1, MaxMoves <- 3, MaxFaults <- 1,
  ident <- x1, owners <- x2, copies <- x3, consumer <- x4, hub <- x5, sdk <- x6, sends <- x7,
  moves <- x8, faults <- x9
Ui == INSTANCE UiControl WITH
  Request <- {"r", "s"}, Asks <- Wishes, Model <- {"m", "n"},
  Offers <- <<{"m"}, {"m", "n"}, {}>>, MaxTries <- 1, MaxConfigs <- 3,
  MaxMoves <- 1,
  ident <- x1, generation <- x2, idle <- x3, sel <- x4, scope <- x5, disk <- x6,
  registry <- x7, refresher <- x8, reload <- x9, timer <- x10, bodies <- x11,
  catalog <- x12, line <- x13, req <- x14, sent <- x15, moves <- x16

xs == <<x1, x2, x3, x4, x5, x6, x7, x8, x9, x10, x11, x12, x13, x14, x15, x16>>

\* NoneN: only the first N of the variables are in use.  RestN: the others stay so.
None12 == x13 = "none" /\ x14 = "none" /\ x15 = "none" /\ x16 = "none"
None11 == x12 = "none" /\ None12
None10 == x11 = "none" /\ None11
None9 == x10 = "none" /\ None10
None8 == x9 = "none" /\ None9
None7 == x8 = "none" /\ None8
None5 == x6 = "none" /\ x7 = "none" /\ None7
None1 == x2 = "none" /\ x3 = "none" /\ x4 = "none" /\ x5 = "none" /\ None5
Rest12 == UNCHANGED <<x13, x14, x15, x16>>
Rest11 == UNCHANGED x12 /\ Rest12
Rest10 == UNCHANGED x11 /\ Rest11
Rest9 == UNCHANGED x10 /\ Rest10
Rest8 == UNCHANGED x9 /\ Rest9
Rest7 == UNCHANGED x8 /\ Rest8
Rest5 == UNCHANGED <<x6, x7>> /\ Rest7
Rest1 == UNCHANGED <<x2, x3, x4, x5>> /\ Rest5

MCInit ==
  \/ part = "quota" /\ x1 \in Snapshots /\ None1
  \/ part = "accounts" /\ x1 \in Answers /\ None1
  \/ part = "choice" /\ x1 \in Choices /\ None1
  \/ part = "wave" /\ x1 \in Waves /\ None1
  \/ part = "plan" /\ Plan!Init /\ None1
  \/ part = "calls" /\ Calls!Init /\ None11
  \/ part = "guard" /\ Guard!Init /\ None9
  \/ part = "verify" /\ Verify!Init /\ None12
  \/ part = "store" /\ Store!Init /\ None7
  \/ part = "ranking" /\ Ranking!Init /\ None5
  \/ part = "stream" /\ Choice!Init /\ None7
  \/ part = "gate" /\ Gate!Init /\ None10
  \/ part = "free" /\ Free!Init /\ None7
  \/ part = "inbox" /\ Box!Init /\ None9
  \/ part = "ui" /\ Ui!Init

\* The second request comes while the first is there, and no change of the configuration
\* after the first one with it.
Two == x14'["s"].at # "new" =>
         /\ x14["s"].at # "new" \/ (x13 # <<>> /\ Head(x13) = "r")
         /\ x6'.rev <= 2

MCNext ==
  /\ UNCHANGED part
  /\ \/ part = "plan" /\ Plan!Next /\ Rest1
     \/ part = "calls" /\ Calls!Next /\ Rest11
     \/ part = "guard" /\ Guard!Next /\ Rest9
     \/ part = "verify" /\ Verify!Next /\ Rest12
     \/ part = "store" /\ Store!Next /\ Rest7
     \/ part = "ranking" /\ Ranking!Next /\ Rest5
     \/ part = "stream" /\ Choice!Next /\ Rest7
     \/ part = "gate" /\ Gate!Next /\ Rest10
     \/ part = "free" /\ Free!Next /\ Rest7
     \/ part = "inbox" /\ Box!Next /\ Rest9
     \/ part = "ui" /\ Ui!Next /\ Two

\* What each module's Fairness is about.
MCOwn ==
  /\ UNCHANGED part
  /\ \/ part = "calls" /\ Calls!Own /\ Rest11
     \/ part = "verify" /\ Verify!Own /\ Rest12
     \/ part = "stream" /\ Choice!Own /\ Rest7
     \/ part = "free" /\ Free!Own /\ Rest7
     \/ part = "inbox" /\ Box!Own /\ Rest9
     \/ part = "ui" /\ Ui!Own

MCSpec == MCInit /\ [][MCNext]_<<part, xs>>

\* What the tools show is so, see PlanSound, CallsSound, GuardSound and VerifySound; a
\* note from the terminal is sent once, into its session, see InboxSound; and a request
\* of it does what it asks for or leaves the selection as it was, see UiSound.
ToolsSound ==
  /\ part = "plan" => Plan!PlanSound
  /\ part = "calls" => Calls!CallsSound
  /\ part = "guard" => Guard!GuardSound
  /\ part = "verify" => Verify!VerifySound
  /\ part = "inbox" => Box!InboxSound
  /\ part = "ui" => Ui!UiSound

\* A route is chosen on evidence and within what was granted, see StoreSound,
\* RankingSound, QuotaSound, AccountsSound, ChoiceSound and WaveIsOneClass; and a
\* request keeps to it, see ChainSound, GateSound and FreeSound.
RoutesSound ==
  /\ part = "store" => Store!StoreSound
  /\ part = "ranking" => Ranking!RankingSound
  /\ part = "quota" => Choice!QuotaSound(x1)
  /\ part = "accounts" => Choice!AccountsSound(x1.reg, Ids, x1.a)
  /\ part = "choice" => Choice!ChoiceSound(x1.w, x1.q)
  /\ part = "wave" => Choice!WaveIsOneClass(x1.conf, x1.tasks)
  /\ part = "stream" => Choice!ChainSound
  /\ part = "gate" => Gate!GateSound
  /\ part = "free" => Free!FreeSound

\* No answer is replayed after output, no metered request goes out on a grant that
\* was not earned, and no free one on a price that was not proven: see
\* NothingReplayed, PaidIsEarned and SentIsFree.
StepsSound ==
  [][/\ part = "stream" => Choice!Unheard
     /\ part = "gate" => Gate!Earned
     /\ part = "free" => Free!SentFree]_<<part, xs>>

\* Whatever was begun comes to its end, see the properties ...Ends of the modules.
HostEnds ==
  WF_xs(MCOwn) =>
    []<>(/\ part = "calls" => Calls!Ended
         /\ part = "verify" => Verify!Ended
         /\ part = "stream" => Choice!Ended
         /\ part = "free" => Free!Ended
         /\ part = "inbox" => Box!Ended
         /\ part = "ui" => Ui!Ended)
=============================================================================
