--------------------------- MODULE DiagnosisProofs ---------------------------
(***************************************************************************)
(* What holds of Diagnosis for every value of its constants.               *)
(***************************************************************************)
EXTENDS Diagnosis, ChecksProofs

-----------------------------------------------------------------------------
(* Type correctness.                                                       *)

(* evm.go 38-50: the log GetSendWarpEvent picks is one of the receipt's.   *)
LEMMA FirstSendType ==
  ASSUME receipt \in Receipts, FirstSend # Nil
  PROVE  FirstSend \in SendLogs
<1> DEFINE sends == {i \in DOMAIN receipt : receipt[i].warp}
<1>1. receipt # Nil /\ sends # {} /\ FirstSend = receipt[Min(sends)]
  BY DEF FirstSend
<1>2. receipt \in Seq(SendLogs)
  BY <1>1, ChainAssumption
<1>3. sends \subseteq Nat
  BY <1>2
<1>4. Min(sends) \in 1 .. Len(receipt)
  <2>1. Min(sends) \in sends
    BY <1>1, <1>3, LeastNatural
  <2> QED
    BY <1>2, <2>1
<1> QED
  BY <1>1, <1>2, <1>4, ElementOfSeq

LEMMA InitType == Init => TypeOK
<1> SUFFICES ASSUME Init PROVE TypeOK
  OBVIOUS
<1>1. ChainTypeOK
  <2>1. PICK s \in Snapshots : pchain = <<s>>
    BY DEF Init, ChainInit
  <2>2. pchain \in Seq(Snapshots) /\ Len(pchain) = 1
    BY <2>1
  <2>3. 0 \in 0 .. MaxHead /\ 1 \in 1 .. MaxHeight
    BY ChainAssumption, WordAssumption DEF UInt64
  <2> QED
    BY <2>2, <2>3 DEF Init, ChainInit, ChainTypeOK
<1>2. in \in Inputs
  BY EngineAssumption, WordAssumption, ChainAssumption
  DEF Init, Inputs, EngineConfigs, UInt64
<1> QED
  BY <1>1, <1>2 DEF Init, TypeOK, Steps

(* The chains.                                                             *)
LEMMA NewBlockType == ChainTypeOK /\ NewPChainBlock => ChainTypeOK'
<1> SUFFICES ASSUME ChainTypeOK, NewPChainBlock PROVE ChainTypeOK'
  OBVIOUS
<1> USE DEF ChainTypeOK
<1>1. PICK s \in Snapshots : pchain' = Append(pchain, s)
  BY DEF NewPChainBlock
<1>2. pchain' \in Seq(Snapshots) /\ Len(pchain') = Len(pchain) + 1
  BY <1>1
<1>3. Len(pchain') \in 1 .. MaxHeight
  BY <1>2, ChainAssumption, WordAssumption DEF NewPChainBlock, UInt64
<1> QED
  BY <1>2, <1>3 DEF NewPChainBlock

LEMMA EnvironmentType == TypeOK /\ Environment => TypeOK'
<1> SUFFICES ASSUME TypeOK, Environment PROVE TypeOK'
  OBVIOUS
<1> USE DEF TypeOK, ChainTypeOK
<1>1. UNCHANGED engineVars
  BY DEF Environment
<1>2. ASSUME NewPChainBlock PROVE ChainTypeOK'
  BY <1>2, NewBlockType
<1>3. ASSUME NEW ls, ls \subseteq [event : DestEvents, msg : Msgs, block : {head + 1}],
             NewDestBlock(ls)
      PROVE  ChainTypeOK'
  <2>1. head + 1 \in 0 .. MaxHead /\ head + 1 \in UInt64
    BY <1>3, ChainAssumption, WordAssumption DEF NewDestBlock, UInt64
  <2>2. ls \subseteq DestLogs
    BY <1>3, <2>1 DEF DestLogs
  <2> QED
    BY <1>3, <2>1, <2>2 DEF NewDestBlock
<1>4. CASE NewPChainBlock
  BY <1>1, <1>2, <1>4 DEF engineVars
<1>5. CASE IdleBlock
  BY <1>1, <1>3, <1>5 DEF IdleBlock, engineVars
<1>6. ASSUME NEW m \in Msgs, Deliver(m) PROVE TypeOK'
  BY <1>1, <1>3, <1>6 DEF Deliver, DestLog, DestEvents, engineVars
<1>7. ASSUME NEW m \in Msgs, DeliverReverting(m) PROVE TypeOK'
  BY <1>1, <1>3, <1>7 DEF DeliverReverting, DestLog, DestEvents, engineVars
<1>8. ASSUME NEW m \in Msgs, RetryExecution(m) PROVE TypeOK'
  BY <1>1, <1>3, <1>8 DEF RetryExecution, DestLog, DestEvents, engineVars
<1> QED
  BY <1>4, <1>5, <1>6, <1>7, <1>8 DEF Environment

(* The engine's calls, one by one.                                         *)

LEMMA SendType == TypeOK /\ GetSendWarpEvent => TypeOK'
<1> SUFFICES ASSUME TypeOK, GetSendWarpEvent PROVE TypeOK'
  OBVIOUS
<1> USE DEF GetSendWarpEvent, TypeOK
<1>1. ChainTypeOK'
  BY DEF ChainTypeOK, chainVars
<1>2. lost' \subseteq RemoteCalls
  BY DEF Answered, Lost, RemoteCalls
<1>3. ErrorReport \in Reports /\ NoSendReport \in Reports
  <2>1. <<>> \in Seq(CheckResults)
    OBVIOUS
  <2> QED
    BY <2>1 DEF ErrorReport, NoSendReport, Reports, Verdicts, Summaries, Categories
<1>4. CASE in' = in /\ report' \in {ErrorReport, NoSendReport} /\ pc' = "done"
  BY <1>1, <1>2, <1>3, <1>4, EngineAssumption DEF Steps
<1>5. CASE /\ FirstSend # Nil
           /\ in' = [in EXCEPT !.sendEvent = EventOf(FirstSend)]
           /\ pc' = "GetHeight" /\ UNCHANGED report
  <2>1. FirstSend \in SendLogs
    BY <1>5, FirstSendType DEF ChainTypeOK
  <2>2. in' \in Inputs
    BY <1>5, <2>1 DEF SendLogs, SendEvents, Inputs, EventOf
  <2> QED
    BY <1>1, <1>2, <1>5, <2>2 DEF Steps
<1> QED
  BY <1>4, <1>5 DEF Return

LEMMA GotHeightType ==
  ASSUME TypeOK, NEW h \in UInt64, GotHeight(h)
  PROVE  in' \in Inputs /\ pc' \in Steps \ {"done"}
<1>1. (IF cfg.pchainHeight = 0 THEN h ELSE cfg.pchainHeight) \in UInt64
  BY EngineAssumption DEF TypeOK, EngineConfigs
<1> QED
  BY <1>1 DEF GotHeight, AfterPChain, TypeOK, Inputs, Steps

LEMMA HeightType == TypeOK /\ GetHeight => TypeOK'
<1> SUFFICES ASSUME TypeOK, GetHeight PROVE TypeOK'
  OBVIOUS
<1>1. Len(pchain) \in UInt64 /\ 0 \in UInt64
  BY WordAssumption, ChainAssumption DEF TypeOK, ChainTypeOK, UInt64
<1>2. in' \in Inputs /\ pc' \in Steps \ {"done"}
  BY <1>1, GotHeightType DEF GetHeight
<1> QED
  BY <1>2 DEF GetHeight, TypeOK, ChainTypeOK, chainVars, Answered, Lost, RemoteCalls

(* What the P-Chain's clients answer of one of its heights.                *)
LEMMA SnapshotType ==
  ASSUME TypeOK, NEW b \in DOMAIN pchain
  PROVE  /\ pchain[b] \in Snapshots
         /\ Reply(RegisteredInfos(pchain[b]))
         /\ Reply(CurrentInfos(pchain[b]))
<1>1. pchain[b] \in Snapshots
  BY ElementOfSeq DEF TypeOK, ChainTypeOK
<1> QED
  BY <1>1, RepliesOf

LEMMA SetType ==
  ASSUME NEW h \in UInt64, NEW infos, Reply(infos), NEW vs \in FromValidatorInfos(h, infos)
  PROVE  vs \in ValidatorSets \cup {Nil}
BY CanonicalSetType DEF Reply

LEMMA ValidatorsAtType == TypeOK /\ GetValidatorsAt => TypeOK'
<1> SUFFICES ASSUME TypeOK, GetValidatorsAt PROVE TypeOK'
  OBVIOUS
<1>1. PICK vs \in SigningSets \cup {Nil} : GotSigningSet(vs)
  BY DEF GetValidatorsAt
<1>2. vs \in ValidatorSets \cup {Nil}
  <2>1. in.pchainHeight \in UInt64
    BY DEF TypeOK, Inputs
  <2>2. CASE in.pchainHeight \in DOMAIN pchain
    <3>1. Reply(RegisteredInfos(pchain[in.pchainHeight]))
      BY <2>2, SnapshotType
    <3> QED
      BY <1>1, <2>1, <2>2, <3>1, SetType DEF SigningSets
  <2>3. CASE in.pchainHeight \notin DOMAIN pchain
    BY <1>1, <2>3 DEF SigningSets
  <2> QED
    BY <2>2, <2>3
<1>3. in' \in Inputs /\ pc' \in Steps \ {"done"}
  BY <1>1, <1>2 DEF GotSigningSet, AfterPChain, TypeOK, Inputs, Steps
<1> QED
  BY <1>3 DEF GetValidatorsAt, TypeOK, ChainTypeOK, chainVars, Answered, Lost, RemoteCalls

LEMMA CurrentType == TypeOK /\ GetCurrentValidators => TypeOK'
<1> SUFFICES ASSUME TypeOK, GetCurrentValidators PROVE TypeOK'
  OBVIOUS
<1>1. PICK vs \in CurrentSets \cup {Nil} : GotCurrentSet(vs)
  BY DEF GetCurrentValidators
<1>2. vs \in ValidatorSets \cup {Nil}
  <2>1. Len(pchain) \in DOMAIN pchain
    BY DEF TypeOK, ChainTypeOK
  <2>2. in.currentHeight \in UInt64
    BY DEF TypeOK, Inputs
  <2> QED
    BY <1>1, <2>1, <2>2, SnapshotType, SetType DEF CurrentSets
<1>3. in' \in Inputs /\ pc' \in Steps \ {"done"}
  BY <1>1, <1>2 DEF GetCurrentValidators, GotCurrentSet, AfterPChain, TypeOK, Inputs, Steps
<1> QED
  BY <1>3 DEF GetCurrentValidators, TypeOK, ChainTypeOK, chainVars, Answered, Lost, RemoteCalls

(* engine.go 204-220: both kinds of range are pairs of block numbers.      *)
LEMMA ResolvedRange ==
  ASSUME TypeOK
  PROVE  /\ RecentBlocks(head) \in UInt64 \X UInt64
         /\ <<cfg.from, cfg.to>> \in UInt64 \X UInt64
<1>1. head \in UInt64 /\ 0 \in UInt64
  BY ChainAssumption, WordAssumption DEF TypeOK, ChainTypeOK, UInt64
<1>2. head > Window => Minus(head, Window) \in UInt64
  BY <1>1, EngineAssumption, WordAssumption DEF Minus, UInt64
<1>3. RecentBlocks(head) \in UInt64 \X UInt64
  BY <1>1, <1>2 DEF RecentBlocks
<1>4. <<cfg.from, cfg.to>> \in UInt64 \X UInt64
  BY EngineAssumption DEF TypeOK, EngineConfigs
<1> QED
  BY <1>3, <1>4

LEMMA ResolveType == TypeOK /\ ResolveDestBlocks => TypeOK'
<1> SUFFICES ASSUME TypeOK, ResolveDestBlocks PROVE TypeOK'
  OBVIOUS
<1>3. range' \in (UInt64 \X UInt64) \cup {Nil}
  BY ResolvedRange DEF ResolveDestBlocks, TypeOK
<1>4. pc' \in Steps \ {"done"} /\ lost' \subseteq RemoteCalls
  BY DEF ResolveDestBlocks, TypeOK, Answered, Lost, Steps, RemoteCalls
<1> QED
  BY <1>3, <1>4 DEF ResolveDestBlocks, TypeOK, ChainTypeOK, chainVars

(* evm.go 77-149: a search returns a log of the chain, or nil.             *)
LEMMA SearchType ==
  ASSUME TypeOK, NEW m, NEW from, NEW to
  PROVE  /\ FindReceiveEvent(m, from, to) \subseteq DestLogs \cup {Nil}
         /\ FindExecutionFailedEvent(m, from, to) \subseteq DestLogs \cup {Nil}
BY EarliestType DEF TypeOK, ChainTypeOK, FindReceiveEvent, FindExecutionFailedEvent,
                    InBlocks, Received, Failed, LogOf

LEMMA FindReceiveType == TypeOK /\ FindReceive => TypeOK'
<1> SUFFICES ASSUME TypeOK, FindReceive PROVE TypeOK'
  OBVIOUS
<1>1. PICK event \in DestLogs \cup {Nil} : GotReceive(event)
  BY SearchType DEF FindReceive
<1>2. in' \in Inputs /\ pc' \in Steps \ {"done"}
  BY <1>1 DEF GotReceive, TypeOK, Inputs, Steps
<1> QED
  BY <1>2 DEF FindReceive, TypeOK, ChainTypeOK, chainVars, Answered, Lost, RemoteCalls

LEMMA FindFailedType == TypeOK /\ FindExecutionFailed => TypeOK'
<1> SUFFICES ASSUME TypeOK, FindExecutionFailed PROVE TypeOK'
  OBVIOUS
<1>1. \/ in' = in
      \/ \E event \in DestLogs \cup {Nil} : in' = [in EXCEPT !.execFailed = event]
  BY SearchType DEF FindExecutionFailed
<1>2. in' \in Inputs
  BY <1>1 DEF TypeOK, Inputs
<1> QED
  BY <1>2 DEF FindExecutionFailed, TypeOK, ChainTypeOK, chainVars, Answered, Lost,
              RemoteCalls, Steps

LEMMA RunAllChecksType == TypeOK /\ RunAllChecks => TypeOK'
<1> SUFFICES ASSUME TypeOK, RunAllChecks PROVE TypeOK'
  OBVIOUS
<1>1. report' \in Reports
  BY ReportType DEF RunAllChecks, Return, TypeOK
<1> QED
  BY <1>1, EngineAssumption DEF RunAllChecks, Return, TypeOK, ChainTypeOK, chainVars, Steps

LEMMA StepType == TypeOK /\ [Next]_vars => TypeOK'
<1> SUFFICES ASSUME TypeOK, [Next]_vars PROVE TypeOK'
  OBVIOUS
<1>1. CASE EngineStep
  BY <1>1, SendType, HeightType, ValidatorsAtType, CurrentType, ResolveType,
     FindReceiveType, FindFailedType, RunAllChecksType DEF EngineStep
<1>2. CASE Deadline
  BY <1>2 DEF Deadline, TypeOK, ChainTypeOK, chainVars
<1>3. CASE Environment
  BY <1>3, EnvironmentType
<1>4. CASE UNCHANGED vars
  BY <1>4 DEF vars, chainVars, engineVars, TypeOK, ChainTypeOK
<1> QED
  BY <1>1, <1>2, <1>3, <1>4 DEF Next, Returned

(* engine.go 71-193: the engine never holds data of the wrong kind, and a  *)
(* report exists exactly when Diagnose has returned.                       *)
THEOREM TypeCorrect == Spec => []TypeOK
  BY InitType, StepType, PTL DEF Spec

(* checks.go 290: in every reachable state the epoch check, whose heights  *)
(* are subtracted in uint64 before they are compared, decides as           *)
(* DetectEpochBoundaryRace does, for every word size, epoch and height.    *)
THEOREM HeuristicsAlwaysAgree == Spec => []EpochHeuristicsAgree
<1>1. TypeOK => EpochHeuristicsAgree
  BY HeuristicsAgree DEF TypeOK, EpochHeuristicsAgree
<1> QED
  BY <1>1, TypeCorrect, PTL

-----------------------------------------------------------------------------
(* A healthy report is never given for an undelivered message.             *)

LEMMA InitEvidence == Init => EvidenceHolds
<1> SUFFICES ASSUME Init PROVE EvidenceHolds
  OBVIOUS
<1>1. \A m : Received(m) = {} /\ Failed(m) = {}
  BY DEF Init, ChainInit, Received, Failed, LogOf
<1> QED
  BY <1>1 DEF Init, EvidenceHolds, DeliveredOnce, GatheredSoFar, ReceiveSeen, RevertSeen,
              HealthyFromEvidence, Steps

(* A delivery to a message not received before leaves the others alone,    *)
(* and by then the engine holds no evidence on this one.                   *)
LEMMA EnvironmentEvidence == TypeOK /\ EvidenceHolds /\ Environment => EvidenceHolds'
<1> SUFFICES ASSUME TypeOK, EvidenceHolds, Environment PROVE EvidenceHolds'
  OBVIOUS
<1> USE DEF EvidenceHolds
<1>1. UNCHANGED engineVars
  BY DEF Environment
<1>2. GatheredSoFar' /\ HealthyFromEvidence'
  BY <1>1 DEF engineVars, GatheredSoFar, HealthyFromEvidence
<1>3. ASSUME /\ \A m : Received(m)' = Received(m)
             /\ \A m : Failed(m)' = Failed(m)
      PROVE  EvidenceHolds'
  BY <1>1, <1>2, <1>3 DEF engineVars, DeliveredOnce, ReceiveSeen, RevertSeen, InRange,
                          InBlocks, Target
<1>4. ASSUME NEW m \in Msgs, Received(m) = {},
             \A k \in Msgs \ {m} : Received(k)' = Received(k) /\ Failed(k)' = Failed(k),
             Received(m)' = {DestLog("ReceiveCrossChainMessage", m)},
             Failed(m)' \in {Failed(m), Failed(m) \cup {DestLog("MessageExecutionFailed", m)}}
      PROVE  EvidenceHolds'
  <2>1. Failed(m) = {}
    BY <1>4 DEF DeliveredOnce
  <2>2. DeliveredOnce'
    <3> SUFFICES ASSUME NEW k \in Msgs
                 PROVE  /\ \A r, q \in Received(k)' : r.block = q.block
                        /\ \A f \in Failed(k)' : \E r \in Received(k)' : r.block = f.block
      BY DEF DeliveredOnce
    <3>1. CASE k = m
      <4>1. Received(k)' = {DestLog("ReceiveCrossChainMessage", m)}
        BY <1>4, <3>1 DEF Received, LogOf
      <4>2. Failed(k)' \in {{}, {DestLog("MessageExecutionFailed", m)}}
        BY <1>4, <2>1, <3>1 DEF Failed, LogOf
      <4> QED
        BY <4>1, <4>2 DEF DestLog
    <3>2. CASE k # m
      BY <1>4, <3>2 DEF DeliveredOnce
    <3> QED
      BY <3>1, <3>2
  <2>3. in.receive # Nil => Target \in Msgs \ {m}
    <3> SUFFICES ASSUME in.receive # Nil PROVE Target \in Msgs \ {m}
      OBVIOUS
    <3>1. in.sendEvent \in SendEvents
      BY DEF ReceiveSeen, TypeOK, Inputs
    <3>2. Received(Target) # {}
      BY DEF ReceiveSeen, InRange, InBlocks
    <3> QED
      BY <1>4, <3>1, <3>2 DEF SendEvents, Target
  <2>4. ReceiveSeen' /\ RevertSeen'
    BY <1>1, <1>4, <2>3 DEF engineVars, ReceiveSeen, RevertSeen, InRange, InBlocks, Target
  <2> QED
    BY <1>2, <2>2, <2>4
<1>5. CASE NewPChainBlock
  BY <1>3, <1>5 DEF NewPChainBlock, Received, Failed, LogOf
<1>6. CASE IdleBlock
  <2>1. logs' = logs
    BY <1>6 DEF IdleBlock, NewDestBlock
  <2> QED
    BY <1>3, <2>1 DEF Received, Failed, LogOf
<1>7. ASSUME NEW m \in Msgs, Deliver(m) PROVE EvidenceHolds'
  <2>1. /\ \A k \in Msgs \ {m} : Received(k)' = Received(k) /\ Failed(k)' = Failed(k)
        /\ Received(m)' = {DestLog("ReceiveCrossChainMessage", m)}
        /\ Failed(m)' = Failed(m)
    <3>1. logs' = logs \cup {DestLog("ReceiveCrossChainMessage", m)}
      BY <1>7 DEF Deliver, NewDestBlock
    <3> QED
      BY <1>7, <3>1 DEF Deliver, DestLog, Received, Failed, LogOf
  <2> QED
    BY <1>4, <1>7, <2>1 DEF Deliver
<1>8. ASSUME NEW m \in Msgs, DeliverReverting(m) PROVE EvidenceHolds'
  <2>1. /\ \A k \in Msgs \ {m} : Received(k)' = Received(k) /\ Failed(k)' = Failed(k)
        /\ Received(m)' = {DestLog("ReceiveCrossChainMessage", m)}
        /\ Failed(m)' = Failed(m) \cup {DestLog("MessageExecutionFailed", m)}
    <3>1. logs' = logs \cup {DestLog("ReceiveCrossChainMessage", m),
                             DestLog("MessageExecutionFailed", m)}
      BY <1>8 DEF DeliverReverting, NewDestBlock
    <3> QED
      BY <1>8, <3>1 DEF DeliverReverting, DestLog, Received, Failed, LogOf
  <2> QED
    BY <1>4, <1>8, <2>1 DEF DeliverReverting
<1>9. ASSUME NEW m \in Msgs, RetryExecution(m) PROVE EvidenceHolds'
  <2>1. logs' = logs \cup {DestLog("MessageExecuted", m)}
    BY <1>9 DEF RetryExecution, NewDestBlock
  <2>2. \A k : Received(k)' = Received(k) /\ Failed(k)' = Failed(k)
    BY <2>1 DEF DestLog, Received, Failed, LogOf
  <2> QED
    BY <1>3, <2>2
<1> QED
  BY <1>5, <1>6, <1>7, <1>8, <1>9 DEF Environment

(* The calls that gather nothing about the destination chain.              *)
LEMMA QuietStep ==
  ASSUME TypeOK, EvidenceHolds, UNCHANGED chainVars,
         pc \in Steps \ {"FindReceiveEvent", "FindExecutionFailedEvent", "RunChecks", "done"},
         UNCHANGED range \/ in.receive = Nil,
         in'.receive = in.receive, in'.execFailed = in.execFailed,
         pc' \notin {"GetSendWarpEvent", "done"} => in'.sendEvent # Nil,
         pc' \in Steps \ {"FindExecutionFailedEvent"},
         pc' = "done" => ~report'.isHealthy
  PROVE  EvidenceHolds'
<1> USE DEF EvidenceHolds
<1>1. in.receive = Nil /\ in.execFailed = Nil
  BY DEF GatheredSoFar
<1>2. GatheredSoFar'
  BY <1>1 DEF GatheredSoFar
<1>3. ReceiveSeen' /\ RevertSeen' /\ HealthyFromEvidence'
  BY <1>1 DEF ReceiveSeen, RevertSeen, HealthyFromEvidence
<1>4. DeliveredOnce'
  BY DEF chainVars, DeliveredOnce, Received, Failed, LogOf
<1> QED
  BY <1>2, <1>3, <1>4

LEMMA FindReceiveEvidence == TypeOK /\ EvidenceHolds /\ FindReceive => EvidenceHolds'
<1> SUFFICES ASSUME TypeOK, EvidenceHolds, FindReceive PROVE EvidenceHolds'
  OBVIOUS
<1> USE DEF EvidenceHolds
<1>1. in.sendEvent # Nil /\ in.receive = Nil /\ in.execFailed = Nil
  BY DEF GatheredSoFar, FindReceive, Steps
<1>2. PICK event \in InRange(Received(Target)) \cup {Nil} : GotReceive(event)
  <2>1. FindReceiveEvent(Target, range[1], range[2]) \subseteq InRange(Received(Target)) \cup {Nil}
    BY EarliestType DEF FindReceiveEvent, InRange
  <2> QED
    BY <2>1 DEF FindReceive, Target
<1>3. /\ in'.receive = event /\ in'.execFailed = Nil /\ in'.sendEvent = in.sendEvent
      /\ pc' = IF event # Nil THEN "FindExecutionFailedEvent" ELSE "RunChecks"
  BY <1>1, <1>2 DEF GotReceive, TypeOK, Inputs
<1>4. UNCHANGED <<logs, range>>
  BY DEF FindReceive, chainVars
<1>5. DeliveredOnce'
  BY <1>4 DEF DeliveredOnce, Received, Failed, LogOf
<1>6. GatheredSoFar' /\ RevertSeen' /\ HealthyFromEvidence'
  BY <1>1, <1>3 DEF GatheredSoFar, RevertSeen, HealthyFromEvidence, Steps
<1>7. ReceiveSeen'
  <2>1. InRange(Received(Target))' = InRange(Received(Target))
    BY <1>3, <1>4 DEF InRange, InBlocks, Received, LogOf, Target
  <2> QED
    BY <1>1, <1>3, <2>1 DEF ReceiveSeen
<1> QED
  BY <1>5, <1>6, <1>7

(* The received log and the failure log are in the same block, so a search *)
(* of the same range that finds the one finds the other.                   *)
LEMMA FindFailedEvidence == TypeOK /\ EvidenceHolds /\ FindExecutionFailed => EvidenceHolds'
<1> SUFFICES ASSUME TypeOK, EvidenceHolds, FindExecutionFailed PROVE EvidenceHolds'
  OBVIOUS
<1> USE DEF EvidenceHolds
<1>1. /\ in.sendEvent \in SendEvents /\ in.receive # Nil /\ in.execFailed = Nil
      /\ in.sendEvent # Nil /\ in.receive \in InRange(Received(Target))
  BY DEF GatheredSoFar, ReceiveSeen, FindExecutionFailed, Steps, TypeOK, Inputs
<1>2. /\ in'.sendEvent = in.sendEvent /\ in'.receive = in.receive /\ pc' = "RunChecks"
      /\ UNCHANGED <<logs, range>>
  BY DEF FindExecutionFailed, TypeOK, Inputs, chainVars
<1>3. DeliveredOnce'
  BY <1>2 DEF DeliveredOnce, Received, Failed, LogOf
<1>4. GatheredSoFar' /\ HealthyFromEvidence'
  <2>1. pc' # "done" /\ pc' # "FindExecutionFailedEvent" /\ in'.sendEvent # Nil
    BY <1>1, <1>2
  <2> QED
    BY <1>2, <2>1 DEF GatheredSoFar, HealthyFromEvidence, Steps
<1>5. ReceiveSeen'
  <2>1. InRange(Received(Target))' = InRange(Received(Target))
    BY <1>2 DEF InRange, InBlocks, Received, LogOf, Target
  <2> QED
    BY <1>1, <1>2, <2>1 DEF ReceiveSeen
<1>6. RevertSeen'
  <2> SUFFICES ASSUME in'.execFailed = Nil, "FindExecutionFailedEvent" \notin lost'
               PROVE  Failed(Target)' = {}
    BY DEF RevertSeen
  <2>1. PICK event \in FindExecutionFailedEvent(Target, range[1], range[2]) :
          in' = [in EXCEPT !.execFailed = event]
    BY DEF FindExecutionFailed, Lost, Target
  <2>2. Nil \in Earliest(InRange(Failed(Target)))
    BY <2>1 DEF FindExecutionFailedEvent, InRange, TypeOK, Inputs
  <2>3. Nil \notin InRange(Failed(Target))
    BY ChainAssumption DEF InRange, InBlocks, Failed, LogOf, TypeOK, ChainTypeOK
  <2>4. InRange(Failed(Target)) = {}
    BY <2>2, <2>3, EarliestType
  <2>5. Target \in Msgs
    BY <1>1 DEF SendEvents, Target
  <2>6. \A f \in Failed(Target) : f.block = in.receive.block
    BY <1>1, <2>5 DEF DeliveredOnce, InRange, InBlocks
  <2>7. Failed(Target) = {}
    BY <1>1, <2>4, <2>6 DEF InRange, InBlocks
  <2> QED
    BY <1>2, <2>7 DEF Failed, LogOf, Target
<1> QED
  BY <1>3, <1>4, <1>5, <1>6

(* The calls before the search leave the destination's evidence alone.     *)
LEMMA GatheringEvidence ==
  ASSUME TypeOK, EvidenceHolds,
         \/ GetSendWarpEvent
         \/ GetHeight
         \/ GetValidatorsAt
         \/ GetCurrentValidators
         \/ ResolveDestBlocks
  PROVE  EvidenceHolds'
<1> USE DEF EvidenceHolds
<1>1. in \in Inputs
  BY DEF TypeOK
<1>2. CASE GetSendWarpEvent
  <2>1. /\ UNCHANGED <<chainVars, range>> /\ in.receive = Nil
        /\ pc = "GetSendWarpEvent"
    BY <1>2 DEF GetSendWarpEvent, GatheredSoFar, Steps
  <2>2. /\ in'.receive = in.receive /\ in'.execFailed = in.execFailed
        /\ \/ pc' = "GetHeight" /\ in'.sendEvent # Nil
           \/ pc' = "done" /\ report' \in {ErrorReport, NoSendReport}
    <3>1. CASE pc' = "done"
      BY <1>2, <3>1 DEF GetSendWarpEvent, Return
    <3>2. CASE pc' # "done"
      <4>1. PICK event : in' = [in EXCEPT !.sendEvent = event] /\ pc' = "GetHeight"
        BY <1>2, <3>2 DEF GetSendWarpEvent, Return
      <4>2. in'.sendEvent \in SendEvents
        <5>1. FirstSend # Nil
          BY <1>2, <3>2 DEF GetSendWarpEvent, Return
        <5>2. FirstSend \in SendLogs
          BY <5>1, FirstSendType DEF TypeOK, ChainTypeOK
        <5>3. in'.sendEvent = EventOf(FirstSend)
          BY <1>1, <1>2, <3>2 DEF GetSendWarpEvent, Return, Inputs
        <5> QED
          BY <5>2, <5>3 DEF SendLogs, SendEvents, EventOf
      <4> QED
        BY <1>1, <4>1, <4>2, NilAssumption DEF Inputs
    <3> QED
      BY <3>1, <3>2
  <2>3. pc' = "done" => ~report'.isHealthy
    <3>1. ~ErrorReport.isHealthy /\ ~NoSendReport.isHealthy
      BY DEF ErrorReport, NoSendReport
    <3> QED
      BY <2>2, <3>1
  <2> QED
    BY <2>1, <2>2, <2>3, QuietStep DEF Steps
<1>3. CASE GetHeight
  <2>1. /\ UNCHANGED <<chainVars, range>> /\ pc = "GetHeight"
        /\ in'.receive = in.receive /\ in'.execFailed = in.execFailed
        /\ in'.sendEvent = in.sendEvent
        /\ pc' \in {"GetValidatorsAt", "ResolveDestBlocks", "RunChecks"}
    BY <1>1, <1>3 DEF GetHeight, GotHeight, AfterPChain, Inputs
  <2> QED
    BY <2>1, QuietStep DEF Steps, GatheredSoFar
<1>4. CASE GetValidatorsAt
  <2>1. /\ UNCHANGED <<chainVars, range>> /\ pc = "GetValidatorsAt"
        /\ in'.receive = in.receive /\ in'.execFailed = in.execFailed
        /\ in'.sendEvent = in.sendEvent
        /\ pc' \in {"GetCurrentValidators", "ResolveDestBlocks", "RunChecks"}
    BY <1>1, <1>4 DEF GetValidatorsAt, GotSigningSet, AfterPChain, Inputs
  <2> QED
    BY <2>1, QuietStep DEF Steps, GatheredSoFar
<1>5. CASE GetCurrentValidators
  <2>1. /\ UNCHANGED <<chainVars, range>> /\ pc = "GetCurrentValidators"
        /\ in'.receive = in.receive /\ in'.execFailed = in.execFailed
        /\ in'.sendEvent = in.sendEvent
        /\ pc' \in {"ResolveDestBlocks", "RunChecks"}
    BY <1>1, <1>5 DEF GetCurrentValidators, GotCurrentSet, AfterPChain, Inputs
  <2> QED
    BY <2>1, QuietStep DEF Steps, GatheredSoFar
<1>6. CASE ResolveDestBlocks
  <2>1. /\ UNCHANGED <<chainVars, in>> /\ pc = "ResolveDestBlocks" /\ in.receive = Nil
        /\ pc' \in {"FindReceiveEvent", "RunChecks"}
    BY <1>6 DEF ResolveDestBlocks, GatheredSoFar, Steps
  <2> QED
    BY <2>1, QuietStep DEF Steps, GatheredSoFar
<1> QED
  BY <1>2, <1>3, <1>4, <1>5, <1>6

LEMMA RunAllChecksEvidence ==
  ASSUME TypeOK, EvidenceHolds, RunAllChecks
  PROVE  EvidenceHolds'
<1> USE DEF EvidenceHolds
<1>1. /\ UNCHANGED <<chainVars, in, range, lost>>
      /\ pc = "RunChecks" /\ pc' = "done" /\ report' = Report(RunChecks(in))
  BY DEF RunAllChecks, Return
<1>2. DeliveredOnce'
  BY <1>1 DEF chainVars, DeliveredOnce, Received, Failed, LogOf
<1>3. GatheredSoFar'
  BY <1>1 DEF GatheredSoFar, Steps
<1>4. ReceiveSeen' /\ RevertSeen'
  <2>1. logs' = logs
    BY <1>1 DEF chainVars
  <2> QED
    BY <1>1, <2>1 DEF ReceiveSeen, RevertSeen, InRange, InBlocks, Received, Failed, LogOf, Target
<1>5. HealthyFromEvidence'
  <2>1. report'.isHealthy => RootCause(RunChecks(in)) = "HEALTHY"
    BY <1>1 DEF Report
  <2>2. in \in Inputs
    BY DEF TypeOK
  <2> QED
    BY <1>1, <2>1, <2>2, HealthyChecks DEF HealthyFromEvidence
<1> QED
  BY <1>2, <1>3, <1>4, <1>5

LEMMA QuietEvidence ==
  EvidenceHolds /\ UNCHANGED <<head, logs, pc, in, range, lost, report>> => EvidenceHolds'
BY DEF EvidenceHolds, DeliveredOnce, GatheredSoFar, ReceiveSeen, RevertSeen,
       HealthyFromEvidence, InRange, InBlocks, Received, Failed, LogOf, Target

LEMMA StepEvidence == TypeOK /\ EvidenceHolds /\ [Next]_vars => EvidenceHolds'
<1> SUFFICES ASSUME TypeOK, EvidenceHolds, [Next]_vars PROVE EvidenceHolds'
  OBVIOUS
<1>1. CASE GetSendWarpEvent \/ GetHeight \/ GetValidatorsAt \/ GetCurrentValidators
           \/ ResolveDestBlocks
  BY <1>1, GatheringEvidence
<1>2. CASE FindReceive
  BY <1>2, FindReceiveEvidence
<1>3. CASE FindExecutionFailed
  BY <1>3, FindFailedEvidence
<1>4. CASE RunAllChecks
  BY <1>4, RunAllChecksEvidence
<1>5. CASE Environment
  BY <1>5, EnvironmentEvidence
<1>6. CASE UNCHANGED <<chainVars, pc, in, range, lost, report>>
  BY <1>6, QuietEvidence DEF chainVars
<1> QED
  BY <1>1, <1>2, <1>3, <1>4, <1>5, <1>6
  DEF Next, EngineStep, Deadline, Returned, vars, engineVars

(* engine.go 116-160: in every reachable state what the engine gathered    *)
(* agrees with the destination chain, for any number of messages, any      *)
(* chains and any calls lost on the way.                                   *)
THEOREM EvidenceHoldsAlways == Spec => []EvidenceHolds
  BY InitEvidence, StepEvidence, TypeCorrect, PTL DEF Spec

LEMMA HealthyFollows == EvidenceHolds => HealthyMeansDelivered
BY DEF EvidenceHolds, ReceiveSeen, RevertSeen, HealthyFromEvidence, HealthyMeansDelivered

(* report.go 59: a healthy report is given only for a message received in  *)
(* the searched blocks, and for a reverted one only when the search for    *)
(* the failure was lost.                                                   *)
THEOREM HealthyIsDelivered == Spec => []HealthyMeansDelivered
  BY HealthyFollows, EvidenceHoldsAlways, PTL
==============================================================================
