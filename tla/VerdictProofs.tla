---------------------------- MODULE VerdictProofs ----------------------------
(***************************************************************************)
(* Proofs about the verdict: it is the true one, the summary quotes it,    *)
(* and the engine keeps the promise of Attribution.                        *)
(***************************************************************************)
EXTENDS DiagnosisProofs

-----------------------------------------------------------------------------
(* The evidence behind the verdict.                                        *)

(* Only the first call sets the event, to the one the receipt holds; the   *)
(* receipt and the configuration never change, nor does the signature.     *)
LEMMA StepFrame ==
  ASSUME TypeOK, [Next]_vars
  PROVE  /\ UNCHANGED <<cfg, receipt>>
         /\ in'.expected = in.expected
         /\ in'.signature = in.signature
         /\ pc # "GetSendWarpEvent" => pc' # "GetSendWarpEvent"
         /\ \/ in'.sendEvent = in.sendEvent
            \/ /\ pc = "GetSendWarpEvent" /\ pc' = "GetHeight" /\ FirstSend # Nil
               /\ in' = [in EXCEPT !.sendEvent = EventOf(FirstSend)]
               /\ in'.sendEvent = EventOf(FirstSend)
<1>1. in \in Inputs
  BY DEF TypeOK
<1>2. CASE GetSendWarpEvent
  BY <1>1, <1>2 DEF GetSendWarpEvent, Return, chainVars, Inputs
<1>3. CASE GetHeight \/ GetValidatorsAt \/ GetCurrentValidators
  BY <1>1, <1>3 DEF GetHeight, GotHeight, GetValidatorsAt, GotSigningSet,
                    GetCurrentValidators, GotCurrentSet, AfterPChain, chainVars, Inputs
<1>4. CASE ResolveDestBlocks \/ RunAllChecks
  BY <1>4 DEF ResolveDestBlocks, RunAllChecks, Return, chainVars
<1>5. CASE FindReceive \/ FindExecutionFailed
  BY <1>1, <1>5 DEF FindReceive, GotReceive, FindExecutionFailed, chainVars, Inputs
<1>6. CASE Deadline \/ Returned \/ UNCHANGED vars
  BY <1>6 DEF Deadline, Returned, vars, engineVars, chainVars
<1>7. CASE Environment
  BY <1>7 DEF Environment, engineVars, NewPChainBlock, IdleBlock, Deliver,
              DeliverReverting, RetryExecution, NewDestBlock
<1> QED
  BY <1>2, <1>3, <1>4, <1>5, <1>6, <1>7 DEF Next, EngineStep

(* The destination chain only grows, by blocks above the present one.      *)
LEMMA ChainGrows ==
  ASSUME TypeOK, [Next]_vars
  PROVE  /\ head' \in Nat /\ head <= head'
         /\ logs \subseteq logs'
         /\ \A l \in logs' \ logs : l.block = head + 1 /\ l.block <= head'
<1>1. head \in Nat
  BY ChainAssumption DEF TypeOK, ChainTypeOK, UInt64
<1>2. ASSUME NEW new, NewDestBlock(new), \A l \in new : l.block = head + 1
      PROVE  /\ head' \in Nat /\ head <= head'
             /\ logs \subseteq logs'
             /\ \A l \in logs' \ logs : l.block = head + 1 /\ l.block <= head'
  BY <1>1, <1>2 DEF NewDestBlock
<1>3. CASE Environment
  <2>1. CASE NewPChainBlock
    BY <1>1, <2>1 DEF NewPChainBlock
  <2>2. CASE IdleBlock
    BY <1>2, <2>2 DEF IdleBlock
  <2>3. ASSUME NEW m \in Msgs, Deliver(m) \/ DeliverReverting(m) \/ RetryExecution(m)
        PROVE  \E new : NewDestBlock(new) /\ \A l \in new : l.block = head + 1
    BY <2>3 DEF Deliver, DeliverReverting, RetryExecution, DestLog
  <2> QED
    BY <1>2, <1>3, <2>1, <2>2, <2>3 DEF Environment
<1>4. CASE UNCHANGED <<head, logs>>
  BY <1>1, <1>4
<1> QED
  BY <1>3, <1>4
  DEF Next, EngineStep, GetSendWarpEvent, GetHeight, GetValidatorsAt, GetCurrentValidators,
      ResolveDestBlocks, FindReceive, FindExecutionFailed, RunAllChecks, Deadline,
      Returned, vars, chainVars

LEMMA SendSeenStep == TypeOK /\ SendSeen /\ [Next]_vars => SendSeen'
BY StepFrame DEF SendSeen, FirstSend

LEMMA HeightSeenStep == TypeOK /\ HeightSeen /\ [Next]_vars => HeightSeen'
<1> SUFFICES ASSUME TypeOK, HeightSeen, [Next]_vars PROVE in'.currentHeight <= Len(pchain')
  BY DEF HeightSeen
<1>1. in \in Inputs /\ Len(pchain) \in Nat /\ in.currentHeight \in Nat
  BY DEF TypeOK, ChainTypeOK, Inputs, UInt64
<1>2. Len(pchain) <= Len(pchain')
  <2>1. CASE NewPChainBlock
    BY <2>1 DEF NewPChainBlock, TypeOK, ChainTypeOK
  <2>2. CASE UNCHANGED pchain
    BY <1>1, <2>2
  <2> QED
    BY <2>1, <2>2 DEF Next, EngineStep, GetSendWarpEvent, GetHeight, GetValidatorsAt,
       GetCurrentValidators, ResolveDestBlocks, FindReceive, FindExecutionFailed, RunAllChecks,
       Deadline, Environment, IdleBlock, Deliver, DeliverReverting, RetryExecution, NewDestBlock,
       Returned, vars, chainVars
<1>3. CASE GetHeight
  <2>1. \E h \in {0, Len(pchain)} : \E p :
          in' = [in EXCEPT !.currentHeight = h, !.pchainHeight = p]
    BY <1>3 DEF GetHeight, GotHeight
  <2>2. in'.currentHeight \in {0, Len(pchain)} /\ pchain' = pchain
    BY <1>1, <1>3, <2>1 DEF Inputs, GetHeight, chainVars
  <2> QED
    BY <1>1, <2>2
<1>4. CASE in'.currentHeight = in.currentHeight
  <2>1. in.currentHeight <= Len(pchain) /\ Len(pchain') \in Nat
    BY StepType DEF HeightSeen, TypeOK, ChainTypeOK
  <2> QED
    BY <1>1, <1>2, <1>4, <2>1
<1>5. GetHeight \/ in'.currentHeight = in.currentHeight
  BY <1>1 DEF Next, EngineStep, GetSendWarpEvent, GetValidatorsAt, GotSigningSet,
     GetCurrentValidators, GotCurrentSet, ResolveDestBlocks, FindReceive, GotReceive,
     FindExecutionFailed, RunAllChecks, Deadline, Environment, Returned, vars, engineVars, Inputs
<1> QED
  BY <1>3, <1>4, <1>5

LEMMA RangeSettledStep == TypeOK /\ RangeSettled /\ [Next]_vars => RangeSettled'
<1> SUFFICES ASSUME TypeOK, RangeSettled, [Next]_vars PROVE RangeSettled'
  OBVIOUS
<1> USE DEF RangeSettled
<1>1. /\ head' \in Nat /\ head \in Nat /\ head <= head' /\ cfg' = cfg
      /\ \A l \in logs' : l \in logs \/ l.block <= head'
  BY ChainGrows, StepFrame, ChainAssumption DEF TypeOK, ChainTypeOK, UInt64
<1>2. \A l \in logs' : l.block <= head'
  BY <1>1 DEF TypeOK, ChainTypeOK, DestLogs, UInt64
<1>3. range # Nil => range[2] \in Nat
  BY DEF TypeOK, UInt64
<1>4. CASE ResolveDestBlocks
  <2>1. RecentBlocks(head)[2] = head
    BY DEF RecentBlocks
  <2>2. range' = Nil \/ (range' \in UInt64 \X UInt64 /\ (cfg.to = 0 => range'[2] <= head'))
    <3>1. CASE cfg.to = 0
      <4>1. range = Nil
        BY <1>4 DEF ResolveDestBlocks
      <4>2. range' \in {Nil, RecentBlocks(head)}
        BY <1>4, <3>1, <4>1 DEF ResolveDestBlocks
      <4> QED
        BY <1>1, <2>1, <4>2, ResolvedRange
    <3>2. CASE cfg.to # 0
      BY <1>4, <3>2, ResolvedRange DEF ResolveDestBlocks
    <3> QED
      BY <3>1, <3>2
  <2>3. (pc' = "FindReceiveEvent" /\ range' # Nil) \/ pc' = "RunChecks"
    BY <1>4, ResolvedRange, EngineAssumption DEF ResolveDestBlocks
  <2> QED
    BY <1>1, <1>2, <2>2, <2>3
<1>5. CASE UNCHANGED range
  <2>1. range' # Nil /\ cfg'.to = 0 => range'[2] <= head'
    BY <1>1, <1>3, <1>5
  <2>2. CASE GetSendWarpEvent \/ GetHeight \/ GetValidatorsAt \/ GetCurrentValidators
    BY <1>2, <1>5, <2>1, <2>2 DEF GetSendWarpEvent, Return, GetHeight, GotHeight, GetValidatorsAt,
       GotSigningSet, GetCurrentValidators, AfterPChain
  <2>3. CASE FindReceive \/ FindExecutionFailed \/ RunAllChecks
    BY <1>2, <1>5, <2>1, <2>3 DEF FindReceive, GotReceive, FindExecutionFailed, RunAllChecks, Return
  <2>4. CASE UNCHANGED pc
    BY <1>2, <1>5, <2>1, <2>4
  <2>5. CASE ResolveDestBlocks
    BY <1>4, <2>5
  <2> QED
    BY <2>2, <2>3, <2>4, <2>5
    DEF Next, EngineStep, Deadline, Environment, Returned, vars, engineVars
<1>6. ResolveDestBlocks \/ UNCHANGED range
  BY DEF Next, EngineStep, Deadline, Environment, Returned, vars, engineVars, GetSendWarpEvent,
         GetHeight, GetValidatorsAt, GetCurrentValidators, FindReceive, FindExecutionFailed,
         RunAllChecks
<1> QED
  BY <1>4, <1>5, <1>6

(* A log found stays where it was found.                                   *)
LEMMA FailureSeenStep ==
  TypeOK /\ EvidenceHolds /\ FailureSeen /\ [Next]_vars => FailureSeen'
<1> SUFFICES ASSUME TypeOK, EvidenceHolds, FailureSeen, [Next]_vars,
                    in'.execFailed # Nil
             PROVE  in'.receive # Nil /\ (in.execFailed \in Failed(Target))'
  BY DEF FailureSeen
<1>1. in \in Inputs
  BY DEF TypeOK
<1>2. logs \subseteq logs'
  BY ChainGrows
<1>3. ASSUME in.receive # Nil, in'.receive = in.receive, in'.sendEvent = in.sendEvent,
             in'.execFailed \in Failed(Target)
      PROVE  in'.receive # Nil /\ (in.execFailed \in Failed(Target))'
  BY <1>2, <1>3 DEF Failed, LogOf, Target
<1>4. CASE FindExecutionFailed
  <2>1. in.receive # Nil /\ in.execFailed = Nil
    BY <1>4 DEF FindExecutionFailed, EvidenceHolds, GatheredSoFar, Steps
  <2>2. PICK event \in FindExecutionFailedEvent(Target, range[1], range[2]) :
          in' = [in EXCEPT !.execFailed = event]
    BY <1>4, <2>1 DEF FindExecutionFailed, Target
  <2>3. event # Nil => event \in Failed(Target)
    BY EarliestType DEF FindExecutionFailedEvent, InBlocks
  <2>4. /\ in'.receive = in.receive /\ in'.sendEvent = in.sendEvent
        /\ in'.execFailed = event
    BY <1>1, <2>2 DEF Inputs
  <2> QED
    BY <1>3, <2>1, <2>3, <2>4
<1>5. CASE in'.execFailed = in.execFailed
  <2>1. in.receive # Nil /\ in.execFailed \in Failed(Target)
    BY <1>5 DEF FailureSeen
  <2>2. pc \in {"RunChecks", "done"}
    BY <1>5 DEF EvidenceHolds, GatheredSoFar, TypeOK, Steps
  <2>3. UNCHANGED in
    BY <2>2 DEF Next, EngineStep, GetSendWarpEvent, GetHeight, GetValidatorsAt,
       GetCurrentValidators, ResolveDestBlocks, FindReceive, FindExecutionFailed, RunAllChecks,
       Deadline, Environment, Returned, vars, engineVars
  <2> QED
    BY <1>3, <1>5, <2>1, <2>3
<1>6. FindExecutionFailed \/ in'.execFailed = in.execFailed
  BY <1>1 DEF Next, EngineStep, GetSendWarpEvent, GetHeight, GotHeight, GetValidatorsAt,
     GotSigningSet, GetCurrentValidators, GotCurrentSet, ResolveDestBlocks, FindReceive,
     GotReceive, RunAllChecks, Deadline, Environment, Returned, vars, engineVars, Inputs
<1> QED
  BY <1>4, <1>5, <1>6

(* Both reports without checks come from the first call.                   *)
LEMMA ReportDrawnStep ==
  TypeOK /\ EvidenceHolds /\ ReportDrawn /\ [Next]_vars => ReportDrawn'
<1> SUFFICES ASSUME TypeOK, EvidenceHolds, ReportDrawn, [Next]_vars, pc' = "done"
             PROVE  \/ report' = ErrorReport
                    \/ report' = NoSendReport /\ FirstSend' = Nil
                    \/ report' = Report(RunChecks(in')) /\ in'.sendEvent # Nil
  BY DEF ReportDrawn
<1>1. FirstSend' = FirstSend
  BY StepFrame DEF FirstSend
<1>2. CASE GetSendWarpEvent
  BY <1>1, <1>2 DEF GetSendWarpEvent, Return
<1>3. CASE RunAllChecks
  BY <1>3 DEF RunAllChecks, Return, EvidenceHolds, GatheredSoFar
<1>4. CASE pc = "done"
  <2>1. UNCHANGED <<in, report>>
    BY <1>4 DEF Next, EngineStep, GetSendWarpEvent, GetHeight, GetValidatorsAt,
       GetCurrentValidators, ResolveDestBlocks, FindReceive, FindExecutionFailed, RunAllChecks,
       Deadline, Environment, Returned, vars, engineVars
  <2> QED
    BY <1>1, <1>4, <2>1 DEF ReportDrawn
<1>5. GetSendWarpEvent \/ RunAllChecks \/ pc = "done"
  BY DEF Next, EngineStep, GetHeight, GotHeight, GetValidatorsAt, GotSigningSet,
     GetCurrentValidators, AfterPChain, ResolveDestBlocks, FindReceive, GotReceive,
     FindExecutionFailed, Deadline, Environment, Returned, vars, engineVars
<1> QED
  BY <1>2, <1>3, <1>4, <1>5

(* What a settled range does not hold, it will not hold later.             *)
LEMMA SettledRange ==
  ASSUME TypeOK, RangeSettled, [Next]_vars, UNCHANGED range, range # Nil, cfg.to = 0, NEW event, NEW m
  PROVE  InBlocks({l \in logs' : l.event = event /\ l.msg = m}, range[1], range[2])
           = InBlocks({l \in logs : l.event = event /\ l.msg = m}, range[1], range[2])
<1>1. /\ range[2] <= head /\ range[2] \in Nat /\ head \in Nat
  BY ChainAssumption DEF RangeSettled, TypeOK, ChainTypeOK, UInt64
<1>2. /\ logs \subseteq logs'
      /\ \A l \in logs' \ logs : l.block = head + 1
  BY ChainGrows
<1>3. \A l \in logs' \ logs : ~(l.block <= range[2])
  BY <1>1, <1>2
<1> QED
  BY <1>2, <1>3 DEF InBlocks

LEMMA SearchStaysSettled ==
  TypeOK /\ RangeSettled /\ [Next]_vars =>
    (range # Nil /\ cfg.to = 0 =>
       \A m \in Msgs : /\ InRange(Received(m))' = InRange(Received(m))
                       /\ InRange(Failed(m))' = InRange(Failed(m)))
<1> SUFFICES ASSUME TypeOK, RangeSettled, [Next]_vars, range # Nil, cfg.to = 0, NEW m \in Msgs
             PROVE  /\ InRange(Received(m))' = InRange(Received(m))
                    /\ InRange(Failed(m))' = InRange(Failed(m))
  OBVIOUS
<1>1. UNCHANGED range
  BY DEF RangeSettled, Next, EngineStep, GetSendWarpEvent, GetHeight, GetValidatorsAt,
     GetCurrentValidators, ResolveDestBlocks, FindReceive, FindExecutionFailed, RunAllChecks,
     Deadline, Environment, Returned, vars, engineVars
<1> QED
  BY <1>1, SettledRange DEF InRange, InBlocks, Received, Failed, LogOf

LEMMA AbsenceSeenStep ==
  TypeOK /\ EvidenceHolds /\ SendSeen /\ RangeSettled /\ AbsenceSeen /\ [Next]_vars
    => AbsenceSeen'
<1> SUFFICES ASSUME TypeOK, EvidenceHolds, SendSeen, RangeSettled, AbsenceSeen, [Next]_vars,
                    cfg.hasDest, cfg.to = 0, lost' \cap SearchCalls = {},
                    pc' \in {"RunChecks", "done"}, in'.sendEvent # Nil, in'.receive = Nil
             PROVE  range' # Nil /\ InRange(Received(Target))' = {}
  BY StepFrame DEF AbsenceSeen
<1>1. in \in Inputs
  BY DEF TypeOK
<1>2. CASE pc \in {"RunChecks", "done"}
  <2>1. UNCHANGED <<in, range>> /\ lost' = lost
    BY <1>2 DEF Next, EngineStep, GetSendWarpEvent, GetHeight, GetValidatorsAt,
       GetCurrentValidators, ResolveDestBlocks, FindReceive, FindExecutionFailed, RunAllChecks,
       Deadline, Environment, Returned, vars, engineVars
  <2>2. range # Nil /\ InRange(Received(Target)) = {}
    BY <1>2, <2>1 DEF AbsenceSeen
  <2>3. PICK t \in Msgs : t = Target
    BY <1>1, <2>1 DEF Inputs, SendEvents, Target
  <2>4. InRange(Received(t))' = InRange(Received(t))
    BY <2>2, SearchStaysSettled
  <2>5. t = Target'
    BY <2>1, <2>3 DEF Target
  <2> QED
    BY <2>1, <2>2, <2>3, <2>4, <2>5 DEF InRange, InBlocks, Received, LogOf
<1>3. CASE FindReceive
  <2>1. "FindReceiveEvent" \notin lost'
    BY DEF SearchCalls
  <2>2. PICK event \in FindReceiveEvent(Target, range[1], range[2]) : GotReceive(event)
    BY <1>3, <2>1 DEF FindReceive, Lost, Target
  <2>3. event = Nil /\ in'.sendEvent = in.sendEvent
    BY <1>1, <2>2 DEF GotReceive, Inputs
  <2>4. Nil \notin InRange(Received(Target))
    BY ChainAssumption DEF InRange, InBlocks, Received, LogOf, TypeOK, ChainTypeOK
  <2>5. InRange(Received(Target)) = {}
    BY <2>2, <2>3, <2>4, EarliestType DEF FindReceiveEvent, InRange
  <2>6. UNCHANGED <<logs, range>> /\ range # Nil
    BY <1>3 DEF FindReceive, chainVars, RangeSettled
  <2> QED
    BY <2>3, <2>5, <2>6 DEF InRange, InBlocks, Received, LogOf, Target
<1>4. CASE FindExecutionFailed
  <2>1. in.receive # Nil
    BY <1>4 DEF FindExecutionFailed, EvidenceHolds, GatheredSoFar
  <2>2. in'.receive = in.receive
    BY <1>1, <1>4 DEF FindExecutionFailed, Inputs
  <2> QED
    BY <2>1, <2>2
<1>5. ~GetSendWarpEvent
  BY DEF GetSendWarpEvent, Return, SendSeen
<1>6. ~GetHeight /\ ~GetValidatorsAt /\ ~GetCurrentValidators
  BY DEF GetHeight, GotHeight, GetValidatorsAt, GotSigningSet, GetCurrentValidators, AfterPChain
<1>7. ~ResolveDestBlocks
  BY DEF ResolveDestBlocks, Lost, SearchCalls
<1>8. pc \in {"RunChecks", "done"} \/ FindReceive \/ FindExecutionFailed
  BY <1>5, <1>6, <1>7 DEF Next, EngineStep, RunAllChecks, Deadline, Environment, Returned, vars,
     engineVars
<1> QED
  BY <1>2, <1>3, <1>4, <1>8

LEMMA InitGrounded == Init => VerdictGrounded
BY DEF Init, ChainInit, VerdictGrounded, Unsigned, SendSeen, HeightSeen, RangeSettled, AbsenceSeen, FailureSeen,
       ReportDrawn

LEMMA StepGrounded ==
  TypeOK /\ EvidenceHolds /\ VerdictGrounded /\ [Next]_vars => VerdictGrounded'
<1>1. TypeOK /\ Unsigned /\ [Next]_vars => Unsigned'
  BY StepFrame DEF Unsigned
<1> QED
  BY <1>1, SendSeenStep, HeightSeenStep, RangeSettledStep, AbsenceSeenStep, FailureSeenStep,
     ReportDrawnStep DEF VerdictGrounded

(* engine.go 71-193: at every point of the pipeline what the verdict will  *)
(* rest on is what the receipt and the searched blocks hold.               *)
THEOREM VerdictAlwaysGrounded == Spec => []VerdictGrounded
  BY InitGrounded, StepGrounded, TypeCorrect, EvidenceHoldsAlways, PTL DEF Spec

-----------------------------------------------------------------------------
(* The verdict.                                                            *)

LEMMA SummaryFollows == TypeOK /\ VerdictGrounded => SummaryQuotesRootCause
<1> SUFFICES ASSUME TypeOK, VerdictGrounded, pc = "done", report.checks # <<>>, ~report.isHealthy
             PROVE  report.summary = Verdict
  BY DEF SummaryQuotesRootCause
<1>1. report = Report(RunChecks(in))
  <2>1. ErrorReport.checks = <<>> /\ NoSendReport.checks = <<>>
    BY DEF ErrorReport, NoSendReport
  <2> QED
    BY <2>1 DEF VerdictGrounded, ReportDrawn
<1>2. RootCause(RunChecks(in)) # "HEALTHY" /\ in \in Inputs
  BY <1>1 DEF Report, TypeOK
<1>3. BuildSummary(RunChecks(in), FALSE) = RootCause(RunChecks(in))
  BY <1>2, SummaryOf DEF VerdictGrounded, Unsigned
<1> QED
  BY <1>1, <1>2, <1>3 DEF Report, Verdict

(* report.go 86-87: the summary and the root cause name the same check,    *)
(* although one is the first failed check and the other the first critical *)
(* one.                                                                    *)
THEOREM SummaryAlwaysQuotes == Spec => []SummaryQuotesRootCause
  BY SummaryFollows, VerdictAlwaysGrounded, TypeCorrect, PTL

LEMMA AttributionFollows ==
  TypeOK /\ EvidenceHolds /\ VerdictGrounded => FaithfulAttribution
<1> SUFFICES ASSUME TypeOK, EvidenceHolds, VerdictGrounded,
                    pc = "done", Verdict # "ERROR", cfg.hasDest, cfg.to = 0,
                    lost \cap DestCalls = {}
             PROVE  Verdict = GroundTruth
  BY DEF FaithfulAttribution
<1> USE DEF VerdictGrounded
<1>1. CASE report = NoSendReport /\ FirstSend = Nil
  BY <1>1 DEF NoSendReport, Verdict, GroundTruth
<1>2. CASE report = Report(RunChecks(in)) /\ in.sendEvent # Nil
  <2>1. /\ FirstSend # Nil /\ in.expected = cfg.expected /\ Target = FirstSend.msg
        /\ in.sendEvent.network = IF FirstSend.network = Garbled THEN Nil ELSE FirstSend.network
    BY <1>2 DEF SendSeen, EventOf, Target
  <2>2. FirstSend.network \in Networks \cup {Garbled}
    BY <2>1, FirstSendType DEF TypeOK, ChainTypeOK, SendLogs
  <2>3. in.sendEvent.network \notin {Nil, in.expected}
          <=> FirstSend.network \notin {Garbled, cfg.expected}
    BY <2>1, <2>2, NilAssumption DEF TypeOK, Inputs
  <2>4. in.receive = Nil <=> InRange(Received(Target)) = {}
    BY <1>2 DEF AbsenceSeen, EvidenceHolds, ReceiveSeen, DestCalls
  <2>5. in.receive # Nil => (in.execFailed # Nil <=> Failed(Target) # {})
    BY DEF FailureSeen, EvidenceHolds, RevertSeen, DestCalls
  <2>6. Verdict = RootCause(RunChecks(in)) /\ in.signature = Nil
    BY <1>2 DEF Verdict, Report, Unsigned
  <2> HIDE DEF VerdictGrounded
  <2> QED
    BY <2>1, <2>3, <2>4, <2>5, <2>6, RootCauseOf DEF GroundTruth
<1>3. report # ErrorReport
  BY DEF ErrorReport, Verdict
<1> QED
  BY <1>1, <1>2, <1>3 DEF ReportDrawn

(* engine.go 146-190: when the search of the recent blocks lost no call,   *)
(* the root cause is what really stopped the message.                      *)
THEOREM AttributionAlwaysFaithful == Spec => []FaithfulAttribution
  BY AttributionFollows, VerdictAlwaysGrounded, EvidenceHoldsAlways, TypeCorrect, PTL

(* engine.go 151-155: the two searches find what one search would.         *)
THEOREM SearchAlwaysSettled == Spec => SearchedRangeIsSettled
<1>1. VerdictGrounded => RangeSettled
  BY DEF VerdictGrounded
<1> QED
  BY <1>1, SearchStaysSettled, VerdictAlwaysGrounded, TypeCorrect, PTL
  DEF Spec, SearchedRangeIsSettled

LEMMA RecentAreSearched ==
  TypeOK /\ RangeSettled /\ [Next]_vars =>
    (range = Nil /\ range' # Nil /\ cfg.to = 0 =>
       \A m \in Msgs : \A r \in Received(m) :
         head - r.block <= Window => r \in InRange(Received(m))')
<1> SUFFICES ASSUME TypeOK, RangeSettled, [Next]_vars, range = Nil, range' # Nil, cfg.to = 0,
                    NEW m \in Msgs, NEW r \in Received(m), head - r.block <= Window
             PROVE  r \in InRange(Received(m))'
  OBVIOUS
<1>1. ResolveDestBlocks
  BY DEF Next, EngineStep, GetSendWarpEvent, GetHeight, GetValidatorsAt, GetCurrentValidators,
     FindReceive, FindExecutionFailed, RunAllChecks, Deadline, Environment, Returned, vars,
     engineVars
<1>2. range' = RecentBlocks(head) /\ logs' = logs
  BY <1>1 DEF ResolveDestBlocks, chainVars
<1>3. /\ head \in UInt64 /\ r.block \in UInt64 /\ r.block <= head
  <2>1. head \in UInt64
    BY ChainAssumption, WordAssumption DEF TypeOK, ChainTypeOK, UInt64
  <2>2. r \in logs /\ r \in DestLogs
    BY DEF TypeOK, ChainTypeOK, Received, LogOf
  <2> QED
    BY <2>1, <2>2 DEF DestLogs, RangeSettled
<1>4. RecentBlocks(head)[1] <= r.block /\ r.block <= RecentBlocks(head)[2]
  <2>1. CASE head > Window
    <3>1. Window \in UInt64 /\ Window <= head
      <4>1. Window \in Nat /\ head \in Nat /\ head < Word /\ Word \in Nat
        BY <1>3, EngineAssumption, WordAssumption DEF UInt64
      <4> QED
        BY <2>1, <4>1 DEF UInt64
    <3>2. Minus(head, Window) = head - Window
      BY <1>3, <3>1, MinusInRange
    <3> QED
      BY <1>3, <2>1, <3>1, <3>2 DEF RecentBlocks, UInt64
  <2>2. CASE ~(head > Window)
    BY <1>3, <2>2 DEF RecentBlocks, UInt64
  <2> QED
    BY <2>1, <2>2
<1> QED
  BY <1>2, <1>4 DEF InRange, InBlocks, Received, LogOf

(* engine.go 213-220: no message received in the last Window blocks is     *)
(* overlooked, however long the chain.                                     *)
THEOREM RecentAlwaysSearched == Spec => RecentDeliveriesAreSearched
<1>1. VerdictGrounded => RangeSettled
  BY DEF VerdictGrounded
<1> QED
  BY <1>1, RecentAreSearched, VerdictAlwaysGrounded, TypeCorrect, PTL
  DEF Spec, RecentDeliveriesAreSearched

-----------------------------------------------------------------------------
(* The epoch warning.                                                      *)

LEMMA EpochFollows == TypeOK /\ VerdictGrounded => EpochWarningIsReal
<1> SUFFICES ASSUME TypeOK, VerdictGrounded, pc = "done", report.checks # <<>>,
                    ~CheckOf("EPOCH_BOUNDARY_RACE").passed
             PROVE  Len(pchain) - in.pchainHeight >= EpochDuration
  BY DEF EpochWarningIsReal
<1> DEFINE p == in.pchainHeight
           c == in.currentHeight
<1>1. /\ in \in Inputs /\ p \in UInt64 /\ c \in UInt64 /\ Len(pchain) \in Nat
      /\ c <= Len(pchain)
  BY DEF TypeOK, ChainTypeOK, Inputs, VerdictGrounded, HeightSeen
<1>2. report = Report(RunChecks(in))
  <2>1. ErrorReport.checks = <<>> /\ NoSendReport.checks = <<>>
    BY DEF ErrorReport, NoSendReport
  <2> QED
    BY <2>1 DEF VerdictGrounded, ReportDrawn
<1>3. ~CheckEpochBoundary(in).passed
  BY <1>1, <1>2, CheckFound DEF CheckOf
<1>4. /\ p # 0 /\ c # 0 /\ ~(c < p) /\ Minus(c, p) \div EpochDuration # 0
  BY <1>3 DEF CheckEpochBoundary, Warning
<1>5. p <= c
  BY <1>1, <1>4 DEF UInt64
<1>6. Minus(c, p) = c - p /\ c - p \in Nat
  BY <1>1, <1>5, MinusInRange DEF UInt64
<1>7. c - p >= EpochDuration
  BY <1>4, <1>6, WholeEpochs
<1> QED
  BY <1>1, <1>7, ValidatorAssumption DEF UInt64

(* checks.go 291-312: an epoch warning is given only when that many blocks *)
(* were built since the signing height, wraparound or not.                 *)
THEOREM EpochWarningAlwaysReal == Spec => []EpochWarningIsReal
  BY EpochFollows, VerdictAlwaysGrounded, TypeCorrect, PTL
-----------------------------------------------------------------------------
(* The churn warning.                                                      *)

(* Accepted blocks stay what they are.                                     *)
LEMMA PChainGrows ==
  ASSUME TypeOK, [Next]_vars
  PROVE  /\ Len(pchain') \in Nat /\ Len(pchain) <= Len(pchain')
         /\ \A h \in DOMAIN pchain : h \in DOMAIN pchain' /\ pchain'[h] = pchain[h]
<1>1. pchain \in Seq(Snapshots)
  BY DEF TypeOK, ChainTypeOK
<1>2. CASE NewPChainBlock
  BY <1>1, <1>2 DEF NewPChainBlock
<1>3. CASE UNCHANGED pchain
  BY <1>1, <1>3
<1> QED
  BY <1>2, <1>3 DEF Next, EngineStep, GetSendWarpEvent, GetHeight, GetValidatorsAt,
     GetCurrentValidators, ResolveDestBlocks, FindReceive, FindExecutionFailed, RunAllChecks,
     Deadline, Environment, IdleBlock, Deliver, DeliverReverting, RetryExecution, NewDestBlock,
     Returned, vars, chainVars

SameSets(i, j) ==
  /\ i.atHeight = j.atHeight
  /\ i.current = j.current
  /\ i.pchainHeight = j.pchainHeight
  /\ i.currentHeight = j.currentHeight

(* Only three calls touch the sets and the heights.                        *)
LEMMA SetsFrame ==
  ASSUME TypeOK, [Next]_vars
  PROVE  GetHeight \/ GetValidatorsAt \/ GetCurrentValidators \/ SameSets(in', in)
<1>1. in \in Inputs
  BY DEF TypeOK
<1>2. CASE GetSendWarpEvent \/ FindReceive \/ FindExecutionFailed
  BY <1>1, <1>2 DEF GetSendWarpEvent, FindReceive, GotReceive, FindExecutionFailed, Inputs, SameSets
<1>3. CASE UNCHANGED in
  BY <1>3 DEF SameSets
<1> QED
  BY <1>2, <1>3 DEF Next, EngineStep, ResolveDestBlocks, RunAllChecks, Deadline, Environment,
     Returned, vars, engineVars

LEMMA SetsPendingStep == TypeOK /\ ReportDrawn /\ SetsPending /\ [Next]_vars => SetsPending'
<1> SUFFICES ASSUME TypeOK, ReportDrawn, SetsPending, [Next]_vars PROVE SetsPending'
  OBVIOUS
<1> USE DEF SetsPending
<1>1. in \in Inputs
  BY DEF TypeOK
<1>2. CASE GetSendWarpEvent
  BY <1>1, <1>2 DEF GetSendWarpEvent, Return, Inputs
<1>3. CASE GetHeight
  BY <1>1, <1>3 DEF GetHeight, GotHeight, AfterPChain, Inputs
<1>4. CASE GetValidatorsAt
  <2>1. PICK vs : GotSigningSet(vs)
    BY <1>4 DEF GetValidatorsAt
  <2>2. pc = "GetValidatorsAt"
    BY <1>4 DEF GetValidatorsAt
  <2> QED
    BY <1>1, <2>1, <2>2 DEF GotSigningSet, AfterPChain, ChainIsElsewhere, Inputs
<1>5. CASE GetCurrentValidators
  BY <1>5 DEF GetCurrentValidators, AfterPChain
<1>6. CASE ResolveDestBlocks \/ FindReceive \/ FindExecutionFailed
  BY <1>6 DEF ResolveDestBlocks, FindReceive, GotReceive, FindExecutionFailed
<1>7. CASE RunAllChecks
  <2>1. Report(RunChecks(in)).checks = RunChecks(in) /\ Len(RunChecks(in)) = 7
    BY ChecksType DEF Report
  <2>2. RunChecks(in) # <<>>
    BY <2>1
  <2> QED
    BY <1>7, <2>1, <2>2 DEF RunAllChecks, Return
<1>8. CASE Deadline \/ Environment \/ Returned \/ UNCHANGED vars
  BY <1>8 DEF Deadline, Environment, Returned, vars, engineVars, ChainIsElsewhere
<1> QED
  BY <1>2, <1>3, <1>4, <1>5, <1>6, <1>7, <1>8 DEF Next, EngineStep

(* engine.go 128-133: the signing set is built from the reply for the       *)
(* signing height, if from any.                                            *)
LEMMA SigningSetStep ==
  TypeOK /\ SetsPending /\ SigningSetSeen /\ [Next]_vars => SigningSetSeen'
<1> SUFFICES ASSUME TypeOK, SetsPending, SigningSetSeen, [Next]_vars PROVE SigningSetSeen'
  OBVIOUS
<1>1. in \in Inputs
  BY DEF TypeOK
<1>2. CASE GetHeight
  BY <1>1, <1>2 DEF GetHeight, GotHeight, SetsPending, SigningSetSeen, Inputs
<1>3. CASE GetValidatorsAt
  <2>1. UNCHANGED pchain
    BY <1>3 DEF GetValidatorsAt, chainVars
  <2>2. PICK vs \in SigningSets \cup {Nil} : GotSigningSet(vs)
    BY <1>3 DEF GetValidatorsAt
  <2>3. in'.atHeight = vs /\ in'.pchainHeight = in.pchainHeight
    BY <1>1, <2>2 DEF GotSigningSet, Inputs
  <2>4. vs # Nil => /\ in.pchainHeight \in DOMAIN pchain
                    /\ vs \in FromValidatorInfos(in.pchainHeight,
                                             RegisteredInfos(pchain[in.pchainHeight]))
    BY <2>2 DEF SigningSets
  <2> QED
    BY <2>1, <2>3, <2>4 DEF SigningSetSeen
<1>4. CASE in'.atHeight = in.atHeight /\ in'.pchainHeight = in.pchainHeight
  BY <1>4, PChainGrows DEF SigningSetSeen
<1>5. CASE GetCurrentValidators
  BY <1>1, <1>4, <1>5 DEF GetCurrentValidators, GotCurrentSet, Inputs
<1> QED
  BY <1>2, <1>3, <1>4, <1>5, SetsFrame DEF SameSets

(* engine.go 137-144: the current set is that of a height the P-Chain had  *)
(* when it was asked, which is not before its height was read.             *)
LEMMA CurrentSetStep ==
  TypeOK /\ HeightSeen /\ SetsPending /\ CurrentSetSeen /\ [Next]_vars => CurrentSetSeen'
<1> SUFFICES ASSUME TypeOK, HeightSeen, SetsPending, CurrentSetSeen, [Next]_vars
             PROVE  CurrentSetSeen'
  OBVIOUS
<1>1. /\ in \in Inputs /\ in.currentHeight \in Nat
      /\ pchain \in Seq(Snapshots) /\ Len(pchain) \in Nat
  BY DEF TypeOK, ChainTypeOK, Inputs, UInt64
<1>2. CASE GetHeight
  BY <1>1, <1>2 DEF GetHeight, GotHeight, SetsPending, CurrentSetSeen, Inputs
<1>3. CASE GetValidatorsAt
  <2>1. in.current = Nil
    BY <1>3 DEF GetValidatorsAt, SetsPending
  <2>2. PICK vs : GotSigningSet(vs)
    BY <1>3 DEF GetValidatorsAt
  <2> QED
    BY <1>1, <2>1, <2>2 DEF GotSigningSet, ChainIsElsewhere, CurrentSetSeen, Inputs
<1>4. CASE GetCurrentValidators
  <2>1. UNCHANGED pchain /\ pc = "GetCurrentValidators"
    BY <1>4 DEF GetCurrentValidators, chainVars
  <2>2. PICK vs \in CurrentSets \cup {Nil} : GotCurrentSet(vs)
    BY <1>4 DEF GetCurrentValidators
  <2>3. /\ in'.current = vs /\ in'.currentHeight = in.currentHeight
        /\ in'.pchainHeight = in.pchainHeight
    BY <1>1, <2>2 DEF GotCurrentSet, Inputs
  <2>4. ChainIsElsewhere
    BY <2>1 DEF SetsPending
  <2>5. Len(pchain) \in HeightsSinceRead
    BY <1>1 DEF HeightSeen, HeightsSinceRead
  <2>6. vs # Nil => vs \in FromValidatorInfos(in.currentHeight, CurrentInfos(pchain[Len(pchain)]))
    BY <2>2 DEF CurrentSets
  <2> QED
    BY <2>1, <2>3, <2>4, <2>5, <2>6 DEF CurrentSetSeen, ChainIsElsewhere, HeightsSinceRead
<1>5. CASE SameSets(in', in)
  <2> SUFFICES ASSUME in'.current # Nil
               PROVE  IF ChainIsElsewhere'
                        THEN \E h \in HeightsSinceRead' :
                               in'.current \in FromValidatorInfos(in'.currentHeight,
                                                                  CurrentInfos(pchain'[h]))
                        ELSE in'.current = in'.atHeight
    BY DEF CurrentSetSeen
  <2>1. in.current # Nil /\ ChainIsElsewhere' = ChainIsElsewhere
    BY <1>5 DEF SameSets, ChainIsElsewhere
  <2>2. CASE ~ChainIsElsewhere
    BY <1>5, <2>1, <2>2 DEF SameSets, CurrentSetSeen
  <2>3. CASE ChainIsElsewhere
    <3>1. PICK h \in HeightsSinceRead :
            in.current \in FromValidatorInfos(in.currentHeight, CurrentInfos(pchain[h]))
      BY <2>1, <2>3 DEF CurrentSetSeen
    <3>2. h \in DOMAIN pchain
      BY <1>1, <2>3, <3>1 DEF HeightsSinceRead, ChainIsElsewhere
    <3>3. h \in HeightsSinceRead' /\ pchain'[h] = pchain[h]
      BY <1>1, <1>5, <3>1, <3>2, PChainGrows DEF HeightsSinceRead, SameSets
    <3> QED
      BY <1>5, <2>1, <2>3, <3>1, <3>3 DEF SameSets
  <2> QED
    BY <2>2, <2>3
<1> QED
  BY <1>2, <1>3, <1>4, <1>5, SetsFrame

LEMMA UnknownHeightStep ==
  TypeOK /\ SetsPending /\ UnknownHeightWasLost /\ [Next]_vars => UnknownHeightWasLost'
<1> SUFFICES ASSUME TypeOK, SetsPending, UnknownHeightWasLost, [Next]_vars,
                    in'.currentHeight = 0,
                    pc' \in {"GetValidatorsAt", "GetCurrentValidators"} \/ in'.atHeight # Nil
             PROVE  "GetHeight" \in lost'
  BY DEF UnknownHeightWasLost
<1>1. in \in Inputs /\ Len(pchain) > 0
  BY ChainAssumption DEF TypeOK, ChainTypeOK, UInt64
<1>2. lost \subseteq lost'
  BY DEF Next, EngineStep, GetSendWarpEvent, GetHeight, GetValidatorsAt,
     GetCurrentValidators, ResolveDestBlocks, FindReceive, FindExecutionFailed, RunAllChecks,
     Deadline, Environment, Returned, vars, engineVars, Lost, Answered
<1>3. CASE GetHeight
  <2>1. Lost("GetHeight") \/ GotHeight(Len(pchain))
    BY <1>3 DEF GetHeight
  <2>2. CASE GotHeight(Len(pchain))
    BY <1>1, <2>2 DEF GotHeight, Inputs
  <2> QED
    BY <2>1, <2>2 DEF Lost
<1>4. CASE GetValidatorsAt
  <2>1. pc = "GetValidatorsAt" /\ \E vs : GotSigningSet(vs)
    BY <1>4 DEF GetValidatorsAt
  <2>2. in'.currentHeight = in.currentHeight
    BY <1>1, <2>1 DEF GotSigningSet, Inputs
  <2> QED
    BY <1>2, <2>1, <2>2 DEF UnknownHeightWasLost
<1>5. CASE GetCurrentValidators
  <2>1. pc = "GetCurrentValidators" /\ \E vs : GotCurrentSet(vs)
    BY <1>5 DEF GetCurrentValidators
  <2>2. in'.currentHeight = in.currentHeight
    BY <1>1, <2>1 DEF GotCurrentSet, Inputs
  <2> QED
    BY <1>2, <2>1, <2>2 DEF UnknownHeightWasLost
<1>6. CASE SameSets(in', in) /\ ~GetHeight /\ ~GetValidatorsAt
  <2>1. pc' = pc \/ pc' \notin {"GetValidatorsAt", "GetCurrentValidators"}
    BY <1>6 DEF Next, EngineStep, GetSendWarpEvent, Return, GetCurrentValidators, AfterPChain,
       ResolveDestBlocks, FindReceive, GotReceive, FindExecutionFailed, RunAllChecks, Deadline,
       Environment, Returned, vars, engineVars
  <2> QED
    BY <1>2, <1>6, <2>1 DEF SameSets, UnknownHeightWasLost
<1> QED
  BY <1>3, <1>4, <1>5, <1>6, SetsFrame

LEMMA InitSets == Init => SetsSeen
BY DEF Init, SetsSeen, SetsPending, SigningSetSeen, CurrentSetSeen, UnknownHeightWasLost

LEMMA StepSets ==
  TypeOK /\ HeightSeen /\ ReportDrawn /\ SetsSeen /\ [Next]_vars => SetsSeen'
BY SetsPendingStep, SigningSetStep, CurrentSetStep, UnknownHeightStep DEF SetsSeen

(* engine.go 118-144: at every point of the pipeline the two sets are      *)
(* those of the heights they are compared under, though the P-Chain goes   *)
(* on between the three calls.                                             *)
THEOREM SetsAlwaysSeen == Spec => []SetsSeen
<1>1. VerdictGrounded => HeightSeen /\ ReportDrawn
  BY DEF VerdictGrounded
<1> QED
  BY <1>1, InitSets, StepSets, TypeCorrect, VerdictAlwaysGrounded, PTL DEF Spec

(* Two sets differ exactly when the stakes of the two heights do, unless a *)
(* registered key is missing in the reply for the second.                  *)
LEMMA DifferenceIsOfStakes ==
  ASSUME TypeOK, NEW p \in DOMAIN pchain, NEW h \in DOMAIN pchain, Unreported(h) = {},
         NEW c, NEW a \in FromValidatorInfos(p, RegisteredInfos(pchain[p])), a # Nil,
         NEW b \in FromValidatorInfos(c, CurrentInfos(pchain[h])), b # Nil
  PROVE  IsEmpty(Diff(a, b)) <=> StakesAt(h) = StakesAt(p)
<1>1. Reply(RegisteredInfos(pchain[p])) /\ Reply(CurrentInfos(pchain[h]))
  BY SnapshotType
<1>2. IsEmpty(Diff(a, b))
        <=> Stakes(RegisteredInfos(pchain[p])) = Stakes(CurrentInfos(pchain[h]))
  BY <1>1, EmptyDiffMeansSameStakes DEF Reply
<1>3. Stakes(CurrentInfos(pchain[h])) = Stakes(RegisteredInfos(pchain[h]))
  BY SnapshotType, SameStakesReported DEF Unreported
<1> QED
  BY <1>2, <1>3 DEF StakesAt

LEMMA ChurnFollows == TypeOK /\ VerdictGrounded /\ SetsSeen => FaithfulChurn
<1> SUFFICES ASSUME TypeOK, VerdictGrounded, SetsSeen,
                    pc = "done", in.atHeight # Nil, in.current # Nil
             PROVE  IF CheckOf("VALIDATOR_SET_CHANGED").passed
                      THEN "GetHeight" \notin lost =>
                             \E h \in HeightsSinceRead :
                               StakesAt(h) = StakesAt(in.pchainHeight) \/ Unreported(h) # {}
                      ELSE \E h \in HeightsSinceRead :
                             StakesAt(h) # StakesAt(in.pchainHeight) \/ Unreported(h) # {}
  BY DEF FaithfulChurn
<1> DEFINE p == in.pchainHeight
           c == in.currentHeight
           unchanged == IsEmpty(Diff(in.atHeight, in.current))
<1>1. /\ in \in Inputs /\ p \in Nat /\ c \in Nat /\ Len(pchain) \in Nat
      /\ DOMAIN pchain = 1 .. Len(pchain) /\ c <= Len(pchain)
  BY DEF TypeOK, ChainTypeOK, Inputs, UInt64, VerdictGrounded, HeightSeen
<1>2. report = Report(RunChecks(in))
  <2>1. ErrorReport.checks = <<>> /\ NoSendReport.checks = <<>>
    BY DEF ErrorReport, NoSendReport
  <2> QED
    BY <2>1 DEF VerdictGrounded, ReportDrawn, SetsSeen, SetsPending
<1>3. CheckOf("VALIDATOR_SET_CHANGED").passed <=> p = c \/ unchanged
  <2>1. CheckOf("VALIDATOR_SET_CHANGED") = CheckValidatorSetChanged(in)
    BY <1>2, CheckFound DEF CheckOf
  <2>2. \A passed, says : Warning("VALIDATOR_SET_CHANGED", passed, says).passed = passed
    BY DEF Warning
  <2>3. CheckValidatorSetChanged(in) =
          IF p = c THEN Warning("VALIDATOR_SET_CHANGED", TRUE, "height unchanged")
          ELSE IF unchanged
            THEN Warning("VALIDATOR_SET_CHANGED", TRUE, "set unchanged between the two heights")
          ELSE Warning("VALIDATOR_SET_CHANGED", FALSE, "validators removed since signing")
    BY DEF CheckValidatorSetChanged
  <2> HIDE DEF unchanged
  <2> QED
    BY <2>1, <2>2, <2>3
<1>4. p \in DOMAIN pchain /\ in.atHeight \in FromValidatorInfos(p, RegisteredInfos(pchain[p]))
  BY DEF SetsSeen, SigningSetSeen
<1>5. CASE ChainIsElsewhere
  <2>1. PICK h \in HeightsSinceRead : in.current \in FromValidatorInfos(c, CurrentInfos(pchain[h]))
    BY <1>5 DEF SetsSeen, CurrentSetSeen
  <2>2. h \in DOMAIN pchain
    BY <1>1, <1>5, <2>1 DEF HeightsSinceRead, ChainIsElsewhere
  <2>3. Unreported(h) = {} => (unchanged <=> StakesAt(h) = StakesAt(p))
    BY <1>4, <2>1, <2>2, DifferenceIsOfStakes
  <2> HIDE DEF unchanged
  <2> QED
    BY <1>3, <1>5, <2>1, <2>3 DEF ChainIsElsewhere
<1>6. CASE p = c
  <2>1. p \in HeightsSinceRead
    BY <1>1, <1>6 DEF HeightsSinceRead
  <2> QED
    BY <1>3, <1>6, <2>1
<1>7. CASE c = 0
  <2>1. in.current = in.atHeight
    BY <1>7 DEF SetsSeen, CurrentSetSeen, ChainIsElsewhere
  <2>2. unchanged
    BY <2>1 DEF IsEmpty, Diff
  <2>3. "GetHeight" \in lost
    BY <1>7 DEF SetsSeen, UnknownHeightWasLost
  <2> QED
    BY <1>3, <2>2, <2>3
<1> QED
  BY <1>1, <1>5, <1>6, <1>7 DEF ChainIsElsewhere

(* checks.go 178-220: the churn check, which compares sets read by         *)
(* separate calls from a growing P-Chain, tells of changes that happened   *)
(* or of a registered key the current reply leaves out and, unless the     *)
(* height was lost, keeps quiet only if there was no change or one is left *)
(* out.                                                                    *)
THEOREM ChurnAlwaysFaithful == Spec => []FaithfulChurn
  BY ChurnFollows, SetsAlwaysSeen, VerdictAlwaysGrounded, TypeCorrect, PTL
==============================================================================
