------------------------------- MODULE MCRuns -------------------------------
(***************************************************************************)
(* Instances of what the host does about its runs.  They share no state,   *)
(* so each behaviour is one of them: part says which.                      *)
(*                                                                         *)
(*   delivery  the completions of background runs                          *)
(*   dispatch  the waves of one dispatch along a chain and the Claude tier *)
(*   host      sessions on one host, their runtimes, and another host      *)
(*   hub       calls about a background run                                *)
(*                                                                         *)
(* The bounds are constants: the .cfg file gives them values, the theorems *)
(* of Coordinator_proofs hold for all of them.                             *)
(***************************************************************************)
EXTENDS Naturals, Sequences, FiniteSets

CONSTANTS
  Runs, WakeParent, MaxRetries, MaxFaults, MaxPrompts, MaxRestarts,  \* see CompletionDelivery
  Workers, Tiers, Gated, MaxFalls,                                   \* see HostDispatch
  Sessions, MaxRuntimes, MaxForeign,                                 \* see HostSession
  Calls, HubFaults                                                   \* see HubCalls

ASSUME DeliveryAssumption ==
  WakeParent \in BOOLEAN /\ MaxRetries \in Nat \ {0} /\ IsFiniteSet(Runs)
ASSUME DispatchAssumption == Tiers \in Nat /\ MaxFalls \in Nat /\ Gated \subseteq 1 .. Tiers
ASSUME SessionAssumption == MaxRuntimes \in Nat /\ "none" \notin Sessions
ASSUME HubAssumption == IsFiniteSet(Calls) /\ HubFaults \in Nat

VARIABLES part,
  dLive, dBackground, dAttached, dBuffer, dAwaiting, dAcked, dAttempted, dWakePending, dAgentIdle,
  dTimer, dRetries, dShown, dFlush, dMicro, dDelivered, dReceipts, dPhase, dInbox, dEntries, dTold,
  dFailing, dSilent, dWoken, dClash, dBudget,
  xKind, xBackground, xAt, xWave, xRoute, xWork, xOut, xLeft, xSnap, xWhy, xAborted, xCancelled,
  xLoud, xTold, xOutcome,
  sMade, sCur, sRt, sShut, sLive, sPending, sTeardowns, sRetained, sLease, sStarting, sWarning,
  sForeign,
  hHost, hFull, hRun, hResume, hNext, hBlocked, hCall, hClaimed, hGiven, hSeen, hFaults

Delivery == INSTANCE CompletionDelivery WITH
  Run <- Runs, live <- dLive, background <- dBackground, attached <- dAttached, buffer <- dBuffer,
  awaiting <- dAwaiting, acked <- dAcked, attempted <- dAttempted, wakePending <- dWakePending,
  agentIdle <- dAgentIdle, timer <- dTimer, retries <- dRetries, shown <- dShown, flush <- dFlush,
  micro <- dMicro, delivered <- dDelivered, receipts <- dReceipts, phase <- dPhase, inbox <- dInbox,
  entries <- dEntries, told <- dTold, failing <- dFailing, silent <- dSilent, woken <- dWoken,
  clash <- dClash, budget <- dBudget
Dispatch == INSTANCE HostDispatch WITH
  Worker <- Workers, kind <- xKind, background <- xBackground, at <- xAt, wave <- xWave,
  route <- xRoute, work <- xWork, out <- xOut, left <- xLeft, snap <- xSnap, why <- xWhy,
  aborted <- xAborted, cancelled <- xCancelled, loud <- xLoud, told <- xTold, outcome <- xOutcome
Host == INSTANCE HostSession WITH
  Session <- Sessions, made <- sMade, cur <- sCur, rt <- sRt, shut <- sShut, live <- sLive,
  pending <- sPending, teardowns <- sTeardowns, retained <- sRetained, lease <- sLease,
  starting <- sStarting, warning <- sWarning, foreign <- sForeign
Hub == INSTANCE HubCalls WITH
  Call <- Calls, MaxFaults <- HubFaults, host <- hHost, full <- hFull, run <- hRun,
  resume <- hResume, next <- hNext, blocked <- hBlocked, call <- hCall, claimed <- hClaimed,
  given <- hGiven, seen <- hSeen, faults <- hFaults

deliveryVars == <<dLive, dBackground, dAttached, dBuffer, dAwaiting, dAcked, dAttempted,
                  dWakePending, dAgentIdle, dTimer, dRetries, dShown, dFlush, dMicro, dDelivered,
                  dReceipts, dPhase, dInbox, dEntries, dTold, dFailing, dSilent, dWoken, dClash, dBudget>>
dispatchVars == <<xKind, xBackground, xAt, xWave, xRoute, xWork, xOut, xLeft, xSnap, xWhy, xAborted,
                  xCancelled, xLoud, xTold, xOutcome>>
hostVars == <<sMade, sCur, sRt, sShut, sLive, sPending, sTeardowns, sRetained, sLease, sStarting,
              sWarning, sForeign>>
hubVars == <<hHost, hFull, hRun, hResume, hNext, hBlocked, hCall, hClaimed, hGiven, hSeen, hFaults>>
allVars == <<part, deliveryVars, dispatchVars, hostVars, hubVars>>

\* A part that is not the one of the behaviour stays in one initial state.
MCInit == /\ part \in {"delivery", "dispatch", "host", "hub"}
          /\ Delivery!Init
          /\ Dispatch!Init /\ (part # "dispatch" => xKind = "api" /\ ~xBackground)
          /\ Host!Init
          /\ Hub!Init /\ (part # "hub" => ~hFull /\ \A c \in Calls : hCall[c].kind = "wait")

\* The parts other than p stand still.
Still(p) == /\ IF p = "delivery" THEN TRUE ELSE UNCHANGED deliveryVars
            /\ IF p = "dispatch" THEN TRUE ELSE UNCHANGED dispatchVars
            /\ IF p = "host" THEN TRUE ELSE UNCHANGED hostVars
            /\ IF p = "hub" THEN TRUE ELSE UNCHANGED hubVars

MCNext == /\ UNCHANGED part
          /\ \/ part = "delivery" /\ Delivery!Next
             \/ part = "dispatch" /\ Dispatch!Next
             \/ part = "host" /\ Host!Next
             \/ part = "hub" /\ Hub!Next
          /\ Still(part)

\* What the Fairness of the other modules is about.
MCOwn == /\ UNCHANGED part
         /\ \/ part = "dispatch" /\ Dispatch!Own
            \/ part = "host" /\ Host!Own
            \/ part = "hub" /\ Hub!Own

\* The variables of the part of the behaviour, the only ones that change.
partVars == IF part = "dispatch" THEN dispatchVars
            ELSE IF part = "host" THEN hostVars
            ELSE IF part = "hub" THEN hubVars
            ELSE deliveryVars

MCSpec == MCInit /\ [][MCNext]_allVars

\* The parent is told of a completion once and woken for it once, see ToldOnce
\* of CompletionDelivery.
ToldOnce == Delivery!ToldOnce

\* A dispatch repeats no work, goes down its chain, and is heard of once, see
\* DispatchSound in HostDispatch.
DispatchSound == Dispatch!DispatchSound

\* The lease of a session covers its workers, see SessionSound in HostSession; a run
\* is resumed and counted once, see HubSound.
HostSound == Host!SessionSound /\ Hub!HubSound

\* A buffered completion gets its receipt or is shown as unconfirmed, see
\* CompletionsSurface; dispatches, teardowns and calls come to their end, see
\* DispatchEnds, SessionEnds and HubEnds.
RunsEnd ==
  /\ Delivery!Fairness => Delivery!CompletionsSurface
  /\ WF_partVars(MCOwn) =>
       []<>(/\ part = "dispatch" => Dispatch!Ended
            /\ part = "host" => Host!Ended
            /\ part = "hub" => Hub!Ended)
=============================================================================
