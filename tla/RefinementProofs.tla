--------------------------- MODULE RefinementProofs ---------------------------
(***************************************************************************)
(* Every behaviour of the engine keeps the promise of Attribution, for     *)
(* every value of the constants.                                           *)
(***************************************************************************)
EXTENDS VerdictProofs, Refinement

-----------------------------------------------------------------------------
(* The fate of a message on the destination chain.                         *)

(* Only what failed is retried.                                            *)
RetriedAfterFailure == \A m : Retried(m) # {} => Failed(m) # {}

(* What one message went through.                                          *)
Fate(m) ==
  IF Received(m) = {} THEN "undelivered"
  ELSE IF Failed(m) = {} THEN "executed"
  ELSE IF Retried(m) = {} THEN "reverted"
  ELSE "retried"

(* A step leaves the fate of a message alone, delivers it or retries it.   *)
FateStep(before, after) ==
  \/ after = before
  \/ before = "undelivered" /\ after \in {"executed", "reverted"}
  \/ before = "reverted" /\ after = "retried"

LEMMA FateOf ==
  ASSUME NEW m
  PROVE  /\ Received(m) = {} => Fate(m) = "undelivered"
         /\ Received(m) # {} /\ Failed(m) = {} => Fate(m) = "executed"
         /\ Received(m) # {} /\ Failed(m) # {} /\ Retried(m) = {} => Fate(m) = "reverted"
         /\ Received(m) # {} /\ Failed(m) # {} /\ Retried(m) # {} => Fate(m) = "retried"
BY DEF Fate

(* The engine's own steps do not touch the destination chain, and the      *)
(* chain's steps not the engine.                                           *)
LEMMA WhoMoves ==
  ASSUME [Next]_vars
  PROVE  \/ logs' = logs
         \/ /\ pc # "done" /\ UNCHANGED engineVars
            /\ \E m \in Msgs : Deliver(m) \/ DeliverReverting(m) \/ RetryExecution(m)
<1>1. CASE IdleBlock
  BY <1>1 DEF IdleBlock, NewDestBlock
<1> QED
  BY <1>1 DEF Next, EngineStep, GetSendWarpEvent, GetHeight, GetValidatorsAt,
     GetCurrentValidators, ResolveDestBlocks, FindReceive, FindExecutionFailed, RunAllChecks,
     Deadline, Environment, NewPChainBlock, Returned, vars, chainVars

(* The logs of message k after one of the chain's steps on message m.      *)
LEMMA LogsAfter ==
  ASSUME NEW m, NEW k
  PROVE  /\ Deliver(m) =>
              /\ Received(k)' = Received(k) \cup
                   (IF k = m THEN {DestLog("ReceiveCrossChainMessage", m)} ELSE {})
              /\ Failed(k)' = Failed(k) /\ Retried(k)' = Retried(k)
         /\ DeliverReverting(m) =>
              /\ Received(k)' = Received(k) \cup
                   (IF k = m THEN {DestLog("ReceiveCrossChainMessage", m)} ELSE {})
              /\ Failed(k)' = Failed(k) \cup
                   (IF k = m THEN {DestLog("MessageExecutionFailed", m)} ELSE {})
              /\ Retried(k)' = Retried(k)
         /\ RetryExecution(m) =>
              /\ Received(k)' = Received(k) /\ Failed(k)' = Failed(k)
              /\ Retried(k)' = Retried(k) \cup
                   (IF k = m THEN {DestLog("MessageExecuted", m)} ELSE {})
<1>1. ASSUME Deliver(m)
      PROVE  /\ Received(k)' = Received(k) \cup
                  (IF k = m THEN {DestLog("ReceiveCrossChainMessage", m)} ELSE {})
             /\ Failed(k)' = Failed(k) /\ Retried(k)' = Retried(k)
  <2>1. logs' = logs \cup {DestLog("ReceiveCrossChainMessage", m)}
    BY <1>1 DEF Deliver, NewDestBlock
  <2> QED
    BY <2>1 DEF DestLog, Received, Failed, Retried, LogOf
<1>2. ASSUME DeliverReverting(m)
      PROVE  /\ Received(k)' = Received(k) \cup
                  (IF k = m THEN {DestLog("ReceiveCrossChainMessage", m)} ELSE {})
             /\ Failed(k)' = Failed(k) \cup
                  (IF k = m THEN {DestLog("MessageExecutionFailed", m)} ELSE {})
             /\ Retried(k)' = Retried(k)
  <2>1. logs' = logs \cup {DestLog("ReceiveCrossChainMessage", m),
                           DestLog("MessageExecutionFailed", m)}
    BY <1>2 DEF DeliverReverting, NewDestBlock
  <2> QED
    BY <2>1 DEF DestLog, Received, Failed, Retried, LogOf
<1>3. ASSUME RetryExecution(m)
      PROVE  /\ Received(k)' = Received(k) /\ Failed(k)' = Failed(k)
             /\ Retried(k)' = Retried(k) \cup
                  (IF k = m THEN {DestLog("MessageExecuted", m)} ELSE {})
  <2>1. logs' = logs \cup {DestLog("MessageExecuted", m)}
    BY <1>3 DEF RetryExecution, NewDestBlock
  <2> QED
    BY <2>1 DEF DestLog, Received, Failed, Retried, LogOf
<1> QED
  BY <1>1, <1>2, <1>3

LEMMA RetriedStep == RetriedAfterFailure /\ [Next]_vars => RetriedAfterFailure'
<1> SUFFICES ASSUME RetriedAfterFailure, [Next]_vars, NEW k, Retried(k)' # {}
             PROVE  Failed(k)' # {}
  BY DEF RetriedAfterFailure
<1>1. Retried(k) # {} => Failed(k) # {}
  BY DEF RetriedAfterFailure
<1>2. CASE logs' = logs
  BY <1>1, <1>2 DEF Retried, Failed, LogOf
<1>3. ASSUME NEW m \in Msgs, Deliver(m) \/ DeliverReverting(m) PROVE Failed(k)' # {}
  BY <1>1, <1>3, LogsAfter
<1>4. ASSUME NEW m \in Msgs, RetryExecution(m) PROVE Failed(k)' # {}
  <2>1. Failed(m) # {} /\ Failed(k)' = Failed(k) /\ (k # m => Retried(k)' = Retried(k))
    BY <1>4, LogsAfter DEF RetryExecution
  <2> QED
    BY <1>1, <2>1
<1> QED
  BY <1>2, <1>3, <1>4, WhoMoves

LEMMA FateSteps ==
  ASSUME DeliveredOnce, RetriedAfterFailure, [Next]_vars, NEW k \in Msgs
  PROVE  /\ FateStep(Fate(k), Fate(k)')
         /\ Fate(k)' # Fate(k) => pc # "done" /\ UNCHANGED engineVars
<1>1. /\ Retried(k) # {} => Failed(k) # {}
      /\ Failed(k) # {} => Received(k) # {}
  BY DEF DeliveredOnce, RetriedAfterFailure
<1>2. CASE logs' = logs
  <2>1. Fate(k)' = Fate(k)
    BY <1>2 DEF Fate, Received, Failed, Retried, LogOf
  <2> QED
    BY <2>1 DEF FateStep
<1>3. ASSUME NEW m \in Msgs, Deliver(m) \/ DeliverReverting(m) \/ RetryExecution(m)
      PROVE  FateStep(Fate(k), Fate(k)')
  <2>1. CASE k # m
    <3>1. Received(k)' = Received(k) /\ Failed(k)' = Failed(k) /\ Retried(k)' = Retried(k)
      BY <1>3, <2>1, LogsAfter
    <3> QED
      BY <3>1 DEF FateStep, Fate
  <2>2. CASE k = m /\ Deliver(m)
    <3>1. Received(k) = {} /\ Received(k)' # {} /\ Failed(k)' = {}
      BY <1>1, <2>2, LogsAfter DEF Deliver
    <3> QED
      BY <3>1 DEF FateStep, Fate
  <2>3. CASE k = m /\ DeliverReverting(m)
    <3>1. Received(k) = {} /\ Received(k)' # {} /\ Failed(k)' # {} /\ Retried(k)' = {}
      BY <1>1, <2>3, LogsAfter DEF DeliverReverting
    <3> QED
      BY <3>1 DEF FateStep, Fate
  <2>4. CASE k = m /\ RetryExecution(m)
    <3>1. /\ Received(k)' = Received(k) /\ Received(k) # {}
          /\ Failed(k)' = Failed(k) /\ Failed(k) # {}
          /\ Retried(k) = {} /\ Retried(k)' # {}
      BY <1>1, <2>4, LogsAfter DEF RetryExecution
    <3> QED
      BY <3>1 DEF FateStep, Fate
  <2> QED
    BY <1>3, <2>1, <2>2, <2>3, <2>4
<1> QED
  BY <1>2, <1>3, WhoMoves DEF Fate, Received, Failed, Retried, LogOf

-----------------------------------------------------------------------------
(* The refinement.                                                         *)

(* The verdict is one of Attribution's, and justified by the message's     *)
(* fate.                                                                   *)
JustifiedVerdict ==
  pc = "done" => Verdict \in Promise!Verdicts /\ Promise!Justified(Verdict)

LEMMA VerdictJustified == TypeOK /\ EvidenceHolds /\ VerdictGrounded => JustifiedVerdict
<1> SUFFICES ASSUME TypeOK, EvidenceHolds, VerdictGrounded, pc = "done"
             PROVE  /\ Verdict \in Promise!Verdicts
                    /\ Promise!Justified(Verdict)
  BY DEF JustifiedVerdict
<1> USE DEF VerdictGrounded
<1>1. CASE report = ErrorReport
  <2>1. Verdict = "ERROR"
    BY <1>1 DEF ErrorReport, Verdict
  <2> QED
    BY <2>1 DEF Promise!Verdicts, Promise!Justified
<1>2. CASE report = NoSendReport /\ FirstSend = Nil
  <2>1. Verdict = "RELAYER_NEVER_PICKED_UP"
    BY <1>2 DEF NoSendReport, Verdict
  <2>2. ~ForNetworkElsewhere /\ Status = "undelivered"
    BY <1>2 DEF ForNetworkElsewhere, Status
  <2> QED
    BY <2>1, <2>2 DEF Promise!Verdicts, Promise!Justified
<1>3. CASE report = Report(RunChecks(in)) /\ in.sendEvent # Nil
  <2>1. /\ FirstSend # Nil /\ in.expected = cfg.expected /\ Target = FirstSend.msg
        /\ in.sendEvent.network = IF FirstSend.network = Garbled THEN Nil ELSE FirstSend.network
    BY <1>3 DEF SendSeen, EventOf, Target
  <2>2. FirstSend.network \in Networks \cup {Garbled} /\ Target \in Msgs
    BY <2>1, FirstSendType DEF TypeOK, ChainTypeOK, SendLogs
  <2>3. in.sendEvent.network \notin {Nil, in.expected} <=> ForNetworkElsewhere
    BY <2>1, <2>2, NilAssumption DEF TypeOK, Inputs, ForNetworkElsewhere
  <2>4. Verdict = RootCause(RunChecks(in)) /\ in.signature = Nil
    BY <1>3 DEF Verdict, Report, Unsigned
  <2>5. Verdict = IF ForNetworkElsewhere THEN "INVALID_NETWORK_ID"
                  ELSE IF in.receive = Nil THEN "RELAYER_NEVER_PICKED_UP"
                  ELSE IF in.execFailed # Nil THEN "DESTINATION_EXECUTION_FAILED"
                  ELSE "HEALTHY"
    BY <2>3, <2>4, RootCauseOf
  <2>6. in.receive # Nil => Received(Target) # {}
    BY DEF EvidenceHolds, ReceiveSeen, InRange, InBlocks
  <2>7. CASE ForNetworkElsewhere
    BY <2>5, <2>7 DEF Promise!Verdicts, Promise!Justified
  <2>8. CASE ~ForNetworkElsewhere /\ in.receive = Nil
    <3>1. Status = "undelivered" \/ Overlooked
      <4> SUFFICES ASSUME cfg.hasDest, ~(cfg.to > 0), lost \cap SearchCalls = {},
                          Status # "undelivered"
                   PROVE  range # Nil /\ InRange(Received(FirstSend.msg)) = {}
        BY DEF Overlooked
      <4>1. cfg.to = 0
        BY EngineAssumption DEF TypeOK, EngineConfigs, UInt64
      <4> QED
        BY <1>3, <2>1, <2>8, <4>1 DEF AbsenceSeen
    <3> QED
      BY <2>5, <2>8, <3>1 DEF Promise!Verdicts, Promise!Justified
  <2>9. CASE ~ForNetworkElsewhere /\ in.receive # Nil /\ in.execFailed # Nil
    <3>1. Failed(Target) # {}
      BY <2>9 DEF FailureSeen
    <3>2. Status \in {"reverted", "retried"}
      BY <2>1, <2>6, <2>9, <3>1 DEF Status
    <3> QED
      BY <2>5, <2>9, <3>2 DEF Promise!Verdicts, Promise!Justified
  <2>10. CASE ~ForNetworkElsewhere /\ in.receive # Nil /\ in.execFailed = Nil
    <3>1. "FindExecutionFailedEvent" \in lost \/ Failed(Target) = {}
      BY <2>10 DEF EvidenceHolds, RevertSeen
    <3>2. \/ Status = "executed"
          \/ Status # "undelivered" /\ "FindExecutionFailedEvent" \in lost
      BY <2>1, <2>6, <2>10, <3>1 DEF Status
    <3> QED
      BY <2>5, <2>10, <3>2 DEF Promise!Verdicts, Promise!Justified
  <2> QED
    BY <2>7, <2>8, <2>9, <2>10
<1> QED
  BY <1>1, <1>2, <1>3 DEF ReportDrawn

LEMMA StatusIsFate ==
  ASSUME TypeOK
  PROVE  /\ FirstSend = Nil => Status = "undelivered"
         /\ FirstSend # Nil => FirstSend.msg \in Msgs /\ Status = Fate(FirstSend.msg)
BY FirstSendType DEF Status, Fate, TypeOK, ChainTypeOK, SendLogs

LEMMA InitPromise == Init => Promise!Init
BY DEF Init, ChainInit, Promise!Init, Status, Received, LogOf, ForNetworkElsewhere, Overlooked

(* The message the promise is about, and the network it was made for, are  *)
(* settled from the start.                                                 *)
LEMMA MessageIsSettled ==
  ASSUME TypeOK, [Next]_vars
  PROVE  /\ FirstSend' = FirstSend
         /\ ForNetworkElsewhere' = ForNetworkElsewhere
         /\ cfg' = cfg
BY StepFrame DEF FirstSend, ForNetworkElsewhere

(* How the status moves, and that the engine stands still when it does.    *)
LEMMA StatusStep ==
  ASSUME TypeOK, DeliveredOnce, RetriedAfterFailure, [Next]_vars
  PROVE  /\ FateStep(Status, Status')
         /\ Status' # Status => pc # "done" /\ UNCHANGED engineVars
<1>1. FirstSend' = FirstSend
  BY MessageIsSettled
<1>2. CASE FirstSend = Nil
  BY <1>1, <1>2 DEF Status, FateStep
<1>3. CASE FirstSend # Nil
  <2>1. PICK m \in Msgs : m = FirstSend.msg
    BY <1>3, StatusIsFate
  <2>2. Status = Fate(m) /\ Status' = Fate(m)'
    BY <1>1, <1>3, <2>1 DEF Status, Fate
  <2> QED
    BY <2>2, FateSteps
<1> QED
  BY <1>2, <1>3

(* Once the range is resolved, what it holds of the message stays; until   *)
(* then it holds nothing against the tool.  So whoever overlooked a        *)
(* message goes on doing so, and begins to only by losing a call, by       *)
(* resolving the range, or by a delivery beyond it.                        *)
LEMMA OverlookedStep ==
  ASSUME TypeOK, RangeSettled, FateStep(Status, Status'), [Next]_vars
  PROVE  /\ Overlooked => Overlooked'
         /\ /\ lost' \cap SearchCalls = lost \cap SearchCalls
            /\ range' = range
            /\ Status' = Status \/ Status # "undelivered"
            => Overlooked' = Overlooked
<1>1. FirstSend' = FirstSend /\ cfg' = cfg /\ cfg.to \in Nat
  BY MessageIsSettled, EngineAssumption DEF TypeOK, EngineConfigs, UInt64
<1>2. lost \subseteq lost' /\ (range # Nil => range' = range)
  BY DEF RangeSettled, Next, EngineStep, GetSendWarpEvent, GetHeight, GetValidatorsAt,
     GetCurrentValidators, ResolveDestBlocks, FindReceive, FindExecutionFailed, RunAllChecks,
     Answered, Lost, Deadline, Environment, Returned, vars, engineVars
<1>3. Status # "undelivered" => Status' # "undelivered"
  BY DEF FateStep
<1>4. ASSUME range # Nil, cfg.to = 0, Status # "undelivered"
      PROVE  InRange(Received(FirstSend.msg))' = InRange(Received(FirstSend.msg))
  <2>1. PICK m \in Msgs : m = FirstSend.msg
    BY <1>4, StatusIsFate
  <2>2. InRange(Received(m))' = InRange(Received(m))
    BY <1>4, SearchStaysSettled
  <2> QED
    BY <1>1, <2>1, <2>2 DEF InRange, InBlocks, Received, LogOf
<1>5. CASE ~cfg.hasDest \/ cfg.to > 0 \/ lost \cap SearchCalls # {}
  BY <1>1, <1>2, <1>5 DEF Overlooked
<1>6. CASE cfg.hasDest /\ cfg.to = 0 /\ lost \cap SearchCalls = {}
  <2>1. CASE range = Nil \/ Status = "undelivered"
    BY <1>1, <1>6, <2>1 DEF Overlooked
  <2>2. CASE range # Nil /\ Status # "undelivered"
    BY <1>1, <1>2, <1>3, <1>4, <1>6, <2>2 DEF Overlooked
  <2> QED
    BY <2>1, <2>2
<1> QED
  BY <1>1, <1>5, <1>6

LEMMA StepPromise ==
  /\ TypeOK /\ DeliveredOnce /\ RangeSettled /\ RetriedAfterFailure /\ JustifiedVerdict'
  /\ [Next]_vars
  => [Promise!Next]_(Promise!vars)
<1> SUFFICES ASSUME TypeOK, DeliveredOnce, RangeSettled, RetriedAfterFailure,
                    JustifiedVerdict', [Next]_vars
             PROVE  [Promise!Next]_(Promise!vars)
  OBVIOUS
<1>1. ForNetworkElsewhere' = ForNetworkElsewhere
  BY MessageIsSettled
<1>2. /\ FateStep(Status, Status')
      /\ Status' # Status => pc # "done" /\ UNCHANGED engineVars
  BY StatusStep
<1>3. /\ Overlooked => Overlooked'
      /\ /\ lost' \cap SearchCalls = lost \cap SearchCalls
         /\ range' = range
         /\ Status' = Status \/ Status # "undelivered"
         => Overlooked' = Overlooked
  BY <1>2, OverlookedStep
<1>4. Overlooked \in BOOLEAN /\ Overlooked' \in BOOLEAN
  BY DEF Overlooked
<1>5. CASE Status' # Status
  <2>1. pc # "done" /\ UNCHANGED <<pc, lost, range, report>>
    BY <1>2, <1>5 DEF engineVars
  <2>2. CASE Status = "undelivered"
    <3>1. Status' \in {"executed", "reverted"} /\ Overlooked' \in {Overlooked, TRUE}
      BY <1>2, <1>3, <1>4, <1>5, <2>2 DEF FateStep
    <3>2. Promise!Deliver
      BY <1>1, <2>1, <2>2, <3>1 DEF Promise!Deliver
    <3> QED
      BY <3>2 DEF Promise!Next
  <2>3. CASE Status # "undelivered"
    <3>1. Status = "reverted" /\ Status' = "retried" /\ Overlooked' = Overlooked
      BY <1>2, <1>3, <1>5, <2>1, <2>3 DEF FateStep
    <3>2. Promise!Retry
      BY <1>1, <2>1, <3>1 DEF Promise!Retry
    <3> QED
      BY <3>2 DEF Promise!Next
  <2> QED
    BY <2>2, <2>3
<1>6. CASE Status' = Status /\ pc = "done"
  <2>1. UNCHANGED <<pc, lost, range, report>>
    BY <1>6 DEF Next, EngineStep, GetSendWarpEvent, GetHeight, GetValidatorsAt,
       GetCurrentValidators, ResolveDestBlocks, FindReceive, FindExecutionFailed, RunAllChecks,
       Deadline, Environment, Returned, vars, engineVars
  <2> QED
    BY <1>1, <1>3, <1>6, <2>1 DEF Promise!vars
<1>7. CASE Status' = Status /\ pc # "done" /\ pc' # "done"
  <2>1. CASE FindExecutionFailed
    <3>1. /\ lost' \cap SearchCalls = lost \cap SearchCalls /\ range' = range
          /\ "FindExecutionFailedEvent" \in lost => "FindExecutionFailedEvent" \in lost'
      BY <2>1 DEF FindExecutionFailed, Answered, Lost, SearchCalls
    <3>2. Overlooked' = Overlooked
      BY <1>3, <1>7, <3>1
    <3> QED
      BY <1>1, <1>7, <3>1, <3>2 DEF Promise!Next, Promise!LoseSight, Promise!vars
  <2>2. CASE ~FindExecutionFailed
    <3>1. "FindExecutionFailedEvent" \in lost <=> "FindExecutionFailedEvent" \in lost'
      BY <2>2 DEF Next, EngineStep, GetSendWarpEvent, GetHeight, GetValidatorsAt,
         GetCurrentValidators, ResolveDestBlocks, FindReceive, RunAllChecks,
         Answered, Lost, Deadline, Environment, Returned, vars, engineVars
    <3>2. Overlooked' = Overlooked \/ Overlooked' = TRUE
      BY <1>3, <1>4
    <3> QED
      BY <1>1, <1>7, <3>1, <3>2 DEF Promise!Next, Promise!Overlook, Promise!vars
  <2> QED
    BY <2>1, <2>2
<1>8. CASE Status' = Status /\ pc # "done" /\ pc' = "done"
  <2>1. GetSendWarpEvent \/ RunAllChecks
    BY <1>8 DEF Next, EngineStep, GetHeight, GotHeight, GetValidatorsAt, GotSigningSet,
       GetCurrentValidators, AfterPChain, ResolveDestBlocks, FindReceive, GotReceive,
       FindExecutionFailed, Deadline, Environment, Returned, vars, engineVars
  <2>2. /\ "FindExecutionFailedEvent" \in lost' <=> "FindExecutionFailedEvent" \in lost
        /\ lost' \cap SearchCalls = lost \cap SearchCalls /\ range' = range
    BY <2>1 DEF GetSendWarpEvent, RunAllChecks, Answered, Lost, SearchCalls
  <2>3. Overlooked' = Overlooked
    BY <1>3, <1>8, <2>2
  <2>4. report'.rootCause \in Promise!Verdicts /\ Promise!Justified(report'.rootCause)
    BY <1>1, <1>8, <2>2, <2>3 DEF JustifiedVerdict, Verdict, Promise!Verdicts, Promise!Justified
  <2>5. Promise!Conclude
    BY <1>1, <1>8, <2>2, <2>3, <2>4 DEF Promise!Conclude
  <2> QED
    BY <2>5 DEF Promise!Next
<1> QED
  BY <1>5, <1>6, <1>7, <1>8

(* engine.go 71-193: Diagnose gives at most one verdict, and it is true of *)
(* the message and of the destination chain: a verdict of a foreign        *)
(* network only for a message of one, of a failed execution only for one   *)
(* that reverted, of health only for one that was executed or whose revert *)
(* could not be searched, and of a relayer that never picked it up only    *)
(* for one that was not received or was not looked for where it was.  That *)
(* there is a verdict in the end, which KeepsPromise adds, is left to the  *)
(* checker.                                                                *)
THEOREM KeepsPromiseAlways == Spec => KeepsPromiseSafely
<1>1. Init => RetriedAfterFailure
  BY DEF Init, ChainInit, RetriedAfterFailure, Retried, LogOf
<1>2. EvidenceHolds => DeliveredOnce
  BY DEF EvidenceHolds
<1>3. VerdictGrounded => RangeSettled
  BY DEF VerdictGrounded
<1> QED
  BY <1>1, <1>2, <1>3, InitPromise, StepPromise, VerdictJustified, RetriedStep, TypeCorrect,
     EvidenceHoldsAlways, VerdictAlwaysGrounded, PTL
  DEF Spec, KeepsPromiseSafely, Promise!SafeSpec
==============================================================================
