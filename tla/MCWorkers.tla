----------------------------- MODULE MCWorkers -----------------------------
(***************************************************************************)
(* Instances of the workers, of what they are made of and of the local     *)
(* models they use.  They share no state, so each behaviour is one of      *)
(* them: part says which.                                                  *)
(*                                                                         *)
(*   pi        an attempt of a native worker                               *)
(*   claude    an attempt of a Claude Code worker                          *)
(*   warm      the warm processes of the Claude Code provider              *)
(*   probe     its shared login check                                      *)
(*   turn      one turn of such a process                                  *)
(*   local     processes, supervisors and servers of local models          *)
(*   hook      one session's queue of steps for its local model            *)
(*   ensure    launches on one profile that ensures a local model          *)
(*                                                                         *)
(* The bounds are constants: the .cfg file gives them values, the theorems *)
(* hold for all of them.  RelayBroker_proofs proves those of the workers,  *)
(* SessionScheduler_proofs those of the provider, CheckpointLock_proofs    *)
(* that of the local models.                                               *)
(***************************************************************************)
EXTENDS Naturals, Sequences, FiniteSets

CONSTANTS
  Budget, MaxAnswers, MaxTools, MaxEnvelopes, MaxRenewals,   \* see PiWorker
  QueryTurns, MaxInputs,                                     \* see ClaudeWorker
  Session, MaxCached, MaxTroubles,                           \* see ClaudeProcesses
  Callers, Deaf, MaxLapses,                                  \* see StatusProbe
  Attempts, Replays, MaxEvents,                              \* see ClaudeTurn
  Processes, Models, MaxSups, LocalTroubles,                 \* see LocalRuntime
  HookEvents,                                                \* see LocalHook
  Launches                                                   \* see ProfileEnsure

ASSUME PiAssumption == Budget \in Nat /\ MaxEnvelopes \in Nat
ASSUME ClaudeAssumption == QueryTurns \in Nat
ASSUME WarmAssumption == Session \in Seq(Nat) /\ MaxCached \in Nat
ASSUME ProbeAssumption == IsFiniteSet(Callers) /\ "none" \notin Callers
ASSUME TurnAssumption == Attempts \in Nat \ {0}
ASSUME LocalAssumption == MaxSups \in Nat /\ Models # {} /\ {"free", "nobody"} \cap Processes = {}
ASSUME HookAssumption == HookEvents \in Nat

VARIABLES part,
  nRouted, nPc, nSignal, nLate, nError, nSession, nStreaming, nAsked, nTurn, nTurns, nLimit,
  nAnswered, nStalled, nFinal, nReport, nAnswers, nTool, nBad, nGood, nSteering, nEnvelopes, nLease,
  nKeeper, nResult,
  cApi, cAt, cCancel, cChild, cOwned, cKilled, cExpired, cClosed, cExit, cFailed, cOver, cUsed,
  cCompleted, cOutput, cVerified, cAttested, cLast, cTerminal, cReason, cRelayed, cInput, cAsking,
  cVerdict,
  wReq, wStop, wBase, wUser, wKept, wProc, wBusy, wTip, wArmed, wHeld, wOld, wDrop, wCache, wQueue,
  wTroubles,
  pTruth, pCaller, pOn, pShared, pProbe, pWaiters, pCut, pStatus, pReady, pLapses,
  tAt, tAcks, tAborted, tChild, tSaid, tStopped, tNativeError, tResult, tOverage, tAnswer, tLate,
  tHandler, tUsed, tDenied, tTries, tStatus, tShown, tCaptured, tWhole, tCancelled, tWaitFailed,
  tOutcome, tEvents,
  lPc, lWant, lLock, lJudged, lLost, lLeases, lStrays, lMine, lMade, lRecord, lSup, lServes,
  lChild, lServer, lAsked,
  lExcused, lTroubles,
  hModel, hHeld, hWarmed, hCompacting, hQueue, hStep, hRefs, hLeft, hCleared, hRun, hRefusal,
  hCompact, hSwitched, hEvents,
  eAt, eLine, eAborted, eCommand, eDying, eLeases, eReceipt, eResult

Pi == INSTANCE PiWorker WITH
  routed <- nRouted, pc <- nPc, signal <- nSignal, late <- nLate, error <- nError,
  session <- nSession, streaming <- nStreaming, asked <- nAsked, turn <- nTurn, turns <- nTurns,
  limit <- nLimit, answered <- nAnswered, stalled <- nStalled, final <- nFinal, report <- nReport,
  answers <- nAnswers, tool <- nTool, bad <- nBad, good <- nGood, steering <- nSteering,
  envelopes <- nEnvelopes, lease <- nLease, keeper <- nKeeper, result <- nResult
Claude == INSTANCE ClaudeWorker WITH
  MaxTurns <- QueryTurns, api <- cApi, at <- cAt, cancel <- cCancel, child <- cChild,
  owned <- cOwned, killed <- cKilled, expired <- cExpired, closed <- cClosed, exit <- cExit,
  failed <- cFailed, over <- cOver, used <- cUsed, completed <- cCompleted, output <- cOutput,
  verified <- cVerified, attested <- cAttested, last <- cLast, terminal <- cTerminal,
  reason <- cReason, relayed <- cRelayed, input <- cInput, asking <- cAsking, verdict <- cVerdict
Warm == INSTANCE ClaudeProcesses WITH
  req <- wReq, stop <- wStop, base <- wBase, user <- wUser, kept <- wKept, proc <- wProc,
  busy <- wBusy, tip <- wTip, armed <- wArmed, held <- wHeld, old <- wOld, drop <- wDrop,
  cache <- wCache, queue <- wQueue, troubles <- wTroubles
Probe == INSTANCE StatusProbe WITH
  truth <- pTruth, caller <- pCaller, on <- pOn, shared <- pShared, probe <- pProbe,
  waiters <- pWaiters, cut <- pCut, status <- pStatus, ready <- pReady, lapses <- pLapses
Turn == INSTANCE ClaudeTurn WITH
  at <- tAt, acks <- tAcks, aborted <- tAborted, child <- tChild, said <- tSaid,
  stopped <- tStopped, nativeError <- tNativeError, result <- tResult, overage <- tOverage,
  answer <- tAnswer,
  late <- tLate,
  handler <- tHandler, used <- tUsed, denied <- tDenied, tries <- tTries, status <- tStatus,
  shown <- tShown, captured <- tCaptured, whole <- tWhole, cancelled <- tCancelled,
  waitFailed <- tWaitFailed, outcome <- tOutcome, events <- tEvents
Local == INSTANCE LocalRuntime WITH
  Proc <- Processes, Model <- Models, MaxTroubles <- LocalTroubles, pc <- lPc, want <- lWant,
  lock <- lLock, judged <- lJudged, lost <- lLost, leases <- lLeases, strays <- lStrays,
  mine <- lMine, made <- lMade, record <- lRecord, sup <- lSup,
  serves <- lServes, child <- lChild, server <- lServer, asked <- lAsked, excused <- lExcused,
  troubles <- lTroubles
Hook == INSTANCE LocalHook WITH
  Model <- Models, MaxEvents <- HookEvents, model <- hModel, held <- hHeld, warmed <- hWarmed,
  compacting <- hCompacting, queue <- hQueue, step <- hStep, refs <- hRefs, left <- hLeft,
  cleared <- hCleared, run <- hRun,
  refusal <- hRefusal, compact <- hCompact, switched <- hSwitched, events <- hEvents
Ensure == INSTANCE ProfileEnsure WITH
  Launch <- Launches, at <- eAt, line <- eLine, aborted <- eAborted, command <- eCommand,
  dying <- eDying, leases <- eLeases, receipt <- eReceipt, result <- eResult

piVars == <<nRouted, nPc, nSignal, nLate, nError, nSession, nStreaming, nAsked, nTurn, nTurns,
            nLimit, nAnswered, nStalled, nFinal, nReport, nAnswers, nTool, nBad, nGood, nSteering,
            nEnvelopes, nLease, nKeeper, nResult>>
claudeVars == <<cApi, cAt, cCancel, cChild, cOwned, cKilled, cExpired, cClosed, cExit, cFailed,
                cOver, cUsed, cCompleted, cOutput, cVerified, cAttested, cLast, cTerminal, cReason,
                cRelayed, cInput, cAsking, cVerdict>>
warmVars == <<wReq, wStop, wBase, wUser, wKept, wProc, wBusy, wTip, wArmed, wHeld, wOld, wDrop,
              wCache, wQueue, wTroubles>>
probeVars == <<pTruth, pCaller, pOn, pShared, pProbe, pWaiters, pCut, pStatus, pReady, pLapses>>
turnVars == <<tAt, tAcks, tAborted, tChild, tSaid, tStopped, tNativeError, tResult, tOverage, tAnswer,
              tLate, tHandler, tUsed, tDenied, tTries, tStatus, tShown, tCaptured, tWhole, tCancelled,
              tWaitFailed, tOutcome, tEvents>>
localVars == <<lPc, lWant, lLock, lJudged, lLost, lLeases, lStrays, lMine, lMade, lRecord, lSup,
               lServes, lChild, lServer, lAsked, lExcused, lTroubles>>
hookVars == <<hModel, hHeld, hWarmed, hCompacting, hQueue, hStep, hRefs, hLeft, hCleared, hRun,
              hRefusal, hCompact, hSwitched, hEvents>>
ensureVars == <<eAt, eLine, eAborted, eCommand, eDying, eLeases, eReceipt, eResult>>
allVars == <<part, piVars, claudeVars, warmVars, probeVars, turnVars, localVars, hookVars, ensureVars>>

\* A part that is not the one of the behaviour stays in one initial state.  The
\* local models are alike, so that one process asks for the chosen one.
MCInit == /\ part \in {"pi", "claude", "warm", "probe", "turn", "local", "hook", "ensure"}
          /\ Pi!Init /\ (part # "pi" => nRouted)
          /\ Claude!Init /\ (part # "claude" => cApi)
          /\ Warm!Init
          /\ Probe!Init /\ (part # "probe" => pTruth)
          /\ Turn!Init /\ (part # "turn" => tAcks = 0)
          /\ Local!Init
          /\ \A p \in Processes : p = (CHOOSE q \in Processes : TRUE) \/ part # "local" =>
               lWant[p] = CHOOSE m \in Models : TRUE
          /\ Hook!Init /\ Ensure!Init

\* An attempt with a lease talks little, so that the two sides of the runner do
\* not multiply.
Brief == nRouted => nTurns' <= 1 /\ ~nTool' /\ nEnvelopes' = 0

\* One process of the two leaves a lease behind, and no lock is removed in a behaviour in
\* which it has; nor by one that waits to stop the server.
Sparse == /\ lStrays' # {} => lJudged' = {} /\ lStrays' = {CHOOSE p \in Processes : TRUE}
          /\ \A p \in lJudged' : lPc[p] # "off"

\* The parts other than p stand still.
Still(p) == /\ IF p = "pi" THEN TRUE ELSE UNCHANGED piVars
            /\ IF p = "claude" THEN TRUE ELSE UNCHANGED claudeVars
            /\ IF p = "warm" THEN TRUE ELSE UNCHANGED warmVars
            /\ IF p = "probe" THEN TRUE ELSE UNCHANGED probeVars
            /\ IF p = "turn" THEN TRUE ELSE UNCHANGED turnVars
            /\ IF p = "local" THEN TRUE ELSE UNCHANGED localVars
            /\ IF p = "hook" THEN TRUE ELSE UNCHANGED hookVars
            /\ IF p = "ensure" THEN TRUE ELSE UNCHANGED ensureVars

MCNext == /\ UNCHANGED part
          /\ \/ part = "pi" /\ Pi!Next /\ Brief
             \/ part = "claude" /\ Claude!Next
             \/ part = "warm" /\ Warm!Next
             \/ part = "probe" /\ Probe!Next
             \/ part = "turn" /\ Turn!Next
             \/ part = "local" /\ Local!Next /\ Sparse
             \/ part = "hook" /\ Hook!Next
             \/ part = "ensure" /\ Ensure!Next
          /\ Still(part)

\* What the Fairness of these modules is about.
MCOwn == /\ UNCHANGED part
         /\ \/ part = "pi" /\ Pi!Own
            \/ part = "claude" /\ Claude!Own
            \/ part = "warm" /\ Warm!Own
            \/ part = "probe" /\ Probe!Own
            \/ part = "turn" /\ Turn!Own
            \/ part = "local" /\ Local!Own
            \/ part = "hook" /\ Hook!Own
            \/ part = "ensure" /\ Ensure!Own

\* The variables of the part of the behaviour, the only ones that change.
partVars == IF part = "pi" THEN piVars
            ELSE IF part = "claude" THEN claudeVars
            ELSE IF part = "warm" THEN warmVars
            ELSE IF part = "probe" THEN probeVars
            ELSE IF part = "turn" THEN turnVars
            ELSE IF part = "local" THEN localVars
            ELSE IF part = "hook" THEN hookVars
            ELSE ensureVars

MCSpec == MCInit /\ [][MCNext]_allVars

\* See PiWorkerSound and ClaudeWorkerSound.
PiSound == Pi!PiWorkerSound
ClaudeSound == Claude!ClaudeWorkerSound

\* See ProcessesSound, ProbeSound and TurnSound.
ProcessesSound == Warm!ProcessesSound
ProbeSound == Probe!ProbeSound
TurnSound == Turn!TurnSound

\* Who uses a local model is served, see LocalSound, HookSound and EnsureSound.
LocalSound == Local!LocalSound /\ Hook!HookSound /\ Ensure!EnsureSound

\* Every worker that is stopped ends, see PiWorkerEnds and ClaudeWorkerEnds; so do
\* the requests of the provider, see ProcessesEnd, ProbeEnds and TurnEnds, and the
\* uses of local models, see LocalEnds, HookEnds and EnsureEnds.
WorkersEnd ==
  WF_partVars(MCOwn) =>
    []<>(/\ part = "pi" => Pi!Ended
         /\ part = "claude" => Claude!Ended
         /\ part = "warm" => Warm!Ended
         /\ part = "probe" => Probe!Ended
         /\ part = "turn" => Turn!Ended
         /\ part = "local" => Local!Ended
         /\ part = "hook" => Hook!Ended
         /\ part = "ensure" => Ensure!Ended)

-----------------------------------------------------------------------------
(* Values of constants for the model checker.                              *)

MCSession == <<1, 1, 2>>  \* three requests of two sessions
=============================================================================
