------------------------------ MODULE Diagnosis ------------------------------
(***************************************************************************)
(* internal/diagnosis/engine.go: one run of Engine.Diagnose, call by call, *)
(* while the chains it reads move on.                                      *)
(*                                                                         *)
(* Every remote call may fail on its own account; once the context's       *)
(* deadline has passed none is answered any more.  The engine swallows     *)
(* every failure but that of the first call.                               *)
(***************************************************************************)
EXTENDS Checks

CONSTANTS
  Configs,  \* Engine fields, and the kind of source client, of a run
  Window    \* DefaultSearchWindow: 50_000 in the program

(* pchainHeight, to and from are 0 when not given; hasDest is DestClient # *)
(* nil; decodes tells evmClient from a client that hands raw bytes over.   *)
EngineConfigs == [pchainHeight : UInt64, hasDest : BOOLEAN, from : UInt64,
                  to : UInt64, expected : Networks, decodes : BOOLEAN]

ASSUME EngineAssumption ==
  /\ Configs \subseteq EngineConfigs
  /\ Window \in Nat
  /\ Nil \notin Reports \cup (UInt64 \X UInt64)

VARIABLES
  pc,       \* the call Diagnose makes next, or "done"
  expired,  \* the context's deadline has passed
  cfg,      \* the Engine's fields
  in,       \* the DiagnosisInput gathered so far
  range,    \* <<fromBlock, toBlock>>, Nil until resolved
  lost,     \* the calls that failed, kept for the properties
  report    \* Diagnose's result, Nil until it returns

engineVars == <<pc, expired, cfg, in, range, lost, report>>
vars == <<chainVars, engineVars>>

RemoteCalls == {"GetSendWarpEvent", "GetHeight", "GetValidatorsAt", "GetCurrentValidators",
                "BlockNumber", "FindReceiveEvent", "FindExecutionFailedEvent"}

Steps == {"GetSendWarpEvent", "GetHeight", "GetValidatorsAt", "GetCurrentValidators",
          "ResolveDestBlocks", "FindReceiveEvent", "FindExecutionFailedEvent",
          "RunChecks", "done"}

(* Every variable has its type, and a report exists exactly when Diagnose  *)
(* has returned.                                                           *)
TypeOK ==
  /\ ChainTypeOK
  /\ pc \in Steps
  /\ expired \in BOOLEAN
  /\ cfg \in Configs
  /\ in \in Inputs
  /\ range \in (UInt64 \X UInt64) \cup {Nil}
  /\ lost \subseteq RemoteCalls
  /\ report \in Reports \cup {Nil}
  /\ (report = Nil) <=> (pc # "done")

-----------------------------------------------------------------------------

Init ==
  /\ ChainInit
  /\ pc = "GetSendWarpEvent"
  /\ expired = FALSE
  /\ cfg \in Configs
  /\ in = [sendEvent |-> Nil, expected |-> cfg.expected, signature |-> Nil,
           atHeight |-> Nil, current |-> Nil, pchainHeight |-> 0, currentHeight |-> 0,
           receive |-> Nil, execFailed |-> Nil]
  /\ range = Nil
  /\ lost = {}
  /\ report = Nil

(* A call is answered, or it fails.                                        *)
Answered  == ~expired /\ UNCHANGED lost
Lost(call) == lost' = lost \cup {call}

(* Slip: Diagnose returns a nil report without an error.                   *)
ReturnNothing(r) == pc' = "done" /\ UNCHANGED report

Return(r) ==
  /\ report' = r
  /\ pc' = "done"

(* What the engine goes on with: bytes that do not parse leave no network. *)
EventOf(send) ==
  [msg     |-> send.msg,
   network |-> IF send.network = Garbled THEN Nil ELSE send.network]

(* Steps 1 and 2.  A nil event is reported at once, without any check.     *)
GetSendWarpEvent ==
  /\ pc = "GetSendWarpEvent"
  /\ UNCHANGED <<chainVars, expired, cfg, range>>
  /\ \/ /\ \/ Lost("GetSendWarpEvent")
           \/ Answered /\ SendEventUnreadable(cfg.decodes)
        /\ Return(ErrorReport)
        /\ UNCHANGED in
     \/ /\ Answered
        /\ ~SendEventUnreadable(cfg.decodes)
        /\ FirstSend = Nil
        /\ Return(NoSendReport)
        /\ UNCHANGED in
     \/ /\ Answered
        /\ ~SendEventUnreadable(cfg.decodes)
        /\ FirstSend # Nil
        /\ in' = [in EXCEPT !.sendEvent = EventOf(FirstSend)]
        /\ pc' = "GetHeight"
        /\ UNCHANGED report

(* Where step 3 ends: at step 4 when there is a destination client.        *)
AfterPChain == IF cfg.hasDest THEN "ResolveDestBlocks" ELSE "RunChecks"

(* Step 3: GetNetworkID, whose result nothing uses, and GetHeight.         *)
GotHeight(h) ==
  LET signing == IF cfg.pchainHeight = 0 THEN h ELSE cfg.pchainHeight
  IN  /\ in' = [in EXCEPT !.currentHeight = h, !.pchainHeight = signing]
      /\ pc' = IF signing > 0 THEN "GetValidatorsAt" ELSE AfterPChain

(* Slip: the call does not get the context, and hangs for good.            *)
GetHeightWithoutContext ==
  /\ pc = "GetHeight"
  /\ Answered
  /\ GotHeight(Len(pchain))
  /\ UNCHANGED <<chainVars, expired, cfg, range, report>>

GetHeight ==
  /\ pc = "GetHeight"
  /\ \/ Answered /\ GotHeight(Len(pchain))
     \/ Lost("GetHeight") /\ GotHeight(0)
  /\ UNCHANGED <<chainVars, expired, cfg, range, report>>

(* The signing set stands for the current one as well, unless the chain    *)
(* is known to be at another height.                                       *)
ChainIsElsewhere == in.currentHeight > 0 /\ in.currentHeight # in.pchainHeight

GotSigningSet(vs) ==
  IF ChainIsElsewhere
    THEN /\ in' = [in EXCEPT !.atHeight = vs]
         /\ pc' = "GetCurrentValidators"
    ELSE /\ in' = [in EXCEPT !.atHeight = vs, !.current = vs]
         /\ pc' = AfterPChain

(* Slip: the height is not handed over, today's validators come back.      *)
SigningSetsOfToday ==
  IF in.pchainHeight \in DOMAIN pchain
    THEN FromValidatorInfos(in.pchainHeight, RegisteredInfos(pchain[Len(pchain)]))
    ELSE {Nil}

(* A height the P-Chain has not reached is an error of the node.           *)
SigningSets ==
  IF in.pchainHeight \in DOMAIN pchain
    THEN FromValidatorInfos(in.pchainHeight, RegisteredInfos(pchain[in.pchainHeight]))
    ELSE {Nil}

GetValidatorsAt ==
  /\ pc = "GetValidatorsAt"
  /\ \/ Answered /\ \E vs \in SigningSets : GotSigningSet(vs)
     \/ Lost("GetValidatorsAt") /\ GotSigningSet(Nil)
  /\ UNCHANGED <<chainVars, expired, cfg, range, report>>

(* The P-Chain's present validators, under the height read earlier.        *)
CurrentSets == FromValidatorInfos(in.currentHeight, CurrentInfos(pchain[Len(pchain)]))

GotCurrentSet(vs) == in' = [in EXCEPT !.current = vs]

GetCurrentValidators ==
  /\ pc = "GetCurrentValidators"
  /\ \/ Answered /\ \E vs \in CurrentSets : GotCurrentSet(vs)
     \/ Lost("GetCurrentValidators") /\ GotCurrentSet(Nil)
  /\ pc' = AfterPChain
  /\ UNCHANGED <<chainVars, expired, cfg, range, report>>

(* Slip: the search goes one block beyond the chain's end.                 *)
RecentBlocksAndNext(h) == <<IF h > Window THEN Minus(h, Window) ELSE 0, h + 1>>

(* Slip: the window is a block too short.                                  *)
RecentBlocksButOne(h) == <<IF h > Window THEN Minus(h, Window) + 1 ELSE 0, h>>

(* Step 4: the range to search.  An explicit one needs no call.            *)
RecentBlocks(h) == <<IF h > Window THEN Minus(h, Window) ELSE 0, h>>

ResolveDestBlocks ==
  /\ pc = "ResolveDestBlocks"
  /\ \/ /\ cfg.to > 0
        /\ range' = <<cfg.from, cfg.to>>
        /\ pc' = "FindReceiveEvent"
        /\ UNCHANGED lost
     \/ /\ cfg.to = 0
        /\ Answered
        /\ range' = RecentBlocks(head)
        /\ pc' = "FindReceiveEvent"
     \/ /\ cfg.to = 0
        /\ Lost("BlockNumber")
        /\ pc' = "RunChecks"
        /\ UNCHANGED range
  /\ UNCHANGED <<chainVars, expired, cfg, in, report>>

GotReceive(event) ==
  /\ in' = [in EXCEPT !.receive = event]
  /\ pc' = IF event # Nil THEN "FindExecutionFailedEvent" ELSE "RunChecks"

FindReceive ==
  /\ pc = "FindReceiveEvent"
  /\ \/ /\ Answered
        /\ \E event \in FindReceiveEvent(in.sendEvent.msg, range[1], range[2]) :
             GotReceive(event)
     \/ Lost("FindReceiveEvent") /\ GotReceive(Nil)
  /\ UNCHANGED <<chainVars, expired, cfg, range, report>>

FindExecutionFailed ==
  /\ pc = "FindExecutionFailedEvent"
  /\ \/ /\ Answered
        /\ \E event \in FindExecutionFailedEvent(in.sendEvent.msg, range[1], range[2]) :
             in' = [in EXCEPT !.execFailed = event]
     \/ Lost("FindExecutionFailedEvent") /\ UNCHANGED in
  /\ pc' = "RunChecks"
  /\ UNCHANGED <<chainVars, expired, cfg, range, report>>

(* Steps 5 and 6.                                                          *)
RunAllChecks ==
  /\ pc = "RunChecks"
  /\ Return(Report(RunChecks(in)))
  /\ UNCHANGED <<chainVars, expired, cfg, in, range, lost>>

-----------------------------------------------------------------------------

EngineStep ==
  \/ GetSendWarpEvent
  \/ GetHeight
  \/ GetValidatorsAt
  \/ GetCurrentValidators
  \/ ResolveDestBlocks
  \/ FindReceive
  \/ FindExecutionFailed
  \/ RunAllChecks

(* The context's deadline: two minutes in runDiagnose.                     *)
Deadline ==
  /\ pc # "done"
  /\ ~expired
  /\ expired' = TRUE
  /\ UNCHANGED <<chainVars, pc, cfg, in, range, lost, report>>

(* The chains move on while Diagnose runs.                                 *)
Environment ==
  /\ pc # "done"
  /\ \/ NewPChainBlock
     \/ IdleBlock
     \/ \E m \in Msgs : Deliver(m)
     \/ \E m \in Msgs : DeliverReverting(m)
     \/ \E m \in Msgs : RetryExecution(m)
  /\ UNCHANGED engineVars

Returned == pc = "done" /\ UNCHANGED vars

Next ==
  \/ EngineStep
  \/ Deadline
  \/ Environment
  \/ Returned

Spec == Init /\ [][Next]_vars

(* Before the deadline a remote call may hang; a deadline passes, and from *)
(* then on every call returns.                                             *)
FairSpec == Spec /\ WF_vars(Deadline) /\ WF_vars(expired /\ EngineStep)

-----------------------------------------------------------------------------
(* What a report should say, from what the chains hold.                    *)

Verdict == report.rootCause
Target  == in.sendEvent.msg
CheckOf(category) == CheckFor(report, category)

SearchCalls == {"BlockNumber", "FindReceiveEvent"}
DestCalls   == SearchCalls \cup {"FindExecutionFailedEvent"}

InRange(ls) == InBlocks(ls, range[1], range[2])

(* The failure that really stopped the message, as far as the searched     *)
(* blocks tell.                                                            *)
GroundTruth ==
  IF FirstSend = Nil THEN "RELAYER_NEVER_PICKED_UP"
  ELSE IF FirstSend.network \notin {Garbled, cfg.expected} THEN "INVALID_NETWORK_ID"
  ELSE IF InRange(Received(FirstSend.msg)) = {} THEN "RELAYER_NEVER_PICKED_UP"
  ELSE IF Failed(FirstSend.msg) # {} THEN "DESTINATION_EXECUTION_FAILED"
  ELSE "HEALTHY"

(* engine.go 146-190: when the search of the recent blocks lost no call,   *)
(* the root cause is the true one, whatever P-Chain calls failed, whatever *)
(* the warnings say and whatever the chains did between the calls.         *)
FaithfulAttribution ==
  /\ pc = "done"
  /\ Verdict # "ERROR"
  /\ cfg.hasDest
  /\ cfg.to = 0
  /\ lost \cap DestCalls = {}
  => Verdict = GroundTruth

(* report.go 59: a healthy report is never given for a message that was    *)
(* not received in the searched blocks, even when calls were lost; one     *)
(* that reverted passes for healthy only if the search for the failure was *)
(* lost.                                                                   *)
HealthyMeansDelivered ==
  pc = "done" /\ report.isHealthy =>
    /\ InRange(Received(Target)) # {}
    /\ Failed(Target) # {} => "FindExecutionFailedEvent" \in lost

(* Why HealthyMeansDelivered holds: what the engine has gathered at each   *)
(* point of the pipeline agrees with the destination chain, and goes on    *)
(* agreeing with it while the chain grows.                                 *)
GatheredSoFar ==
  /\ pc \notin {"GetSendWarpEvent", "done"} => in.sendEvent # Nil
  /\ pc \in Steps \ {"FindExecutionFailedEvent", "RunChecks", "done"} => in.receive = Nil
  /\ pc = "FindExecutionFailedEvent" => in.receive # Nil
  /\ pc \notin {"RunChecks", "done"} => in.execFailed = Nil

ReceiveSeen ==
  in.receive # Nil => in.sendEvent # Nil /\ in.receive \in InRange(Received(Target))

RevertSeen ==
  /\ in.receive # Nil
  /\ in.execFailed = Nil
  /\ pc \in {"RunChecks", "done"}
  /\ "FindExecutionFailedEvent" \notin lost
  => Failed(Target) = {}

HealthyFromEvidence ==
  pc = "done" /\ report.isHealthy => in.receive # Nil /\ in.execFailed = Nil

EvidenceHolds ==
  /\ DeliveredOnce
  /\ GatheredSoFar
  /\ ReceiveSeen
  /\ RevertSeen
  /\ HealthyFromEvidence

(* Why FaithfulAttribution holds, besides: the event is that of the        *)
(* receipt's first message; the P-Chain has the height that was read;      *)
(* blocks come after the searched ones; an event not found was not there,  *)
(* one found was; the report is drawn from these, and without a signature  *)
(* in the input.                                                           *)
SendSeen ==
  /\ in.expected = cfg.expected
  /\ pc = "GetSendWarpEvent" => in.sendEvent = Nil
  /\ in.sendEvent # Nil => FirstSend # Nil /\ in.sendEvent = EventOf(FirstSend)

RangeSettled ==
  /\ \A l \in logs : l.block <= head
  /\ pc \in {"FindReceiveEvent", "FindExecutionFailedEvent"} => range # Nil
  /\ pc \in {"GetSendWarpEvent", "GetHeight", "GetValidatorsAt", "GetCurrentValidators",
            "ResolveDestBlocks"} => range = Nil
  /\ range # Nil /\ cfg.to = 0 => range[2] <= head

AbsenceSeen ==
  /\ cfg.hasDest /\ cfg.to = 0 /\ lost \cap SearchCalls = {}
  /\ pc \in {"RunChecks", "done"}
  /\ in.sendEvent # Nil /\ in.receive = Nil
  => range # Nil /\ InRange(Received(Target)) = {}

FailureSeen ==
  in.execFailed # Nil => in.receive # Nil /\ in.execFailed \in Failed(Target)

ReportDrawn ==
  pc = "done" =>
    \/ report = ErrorReport
    \/ report = NoSendReport /\ FirstSend = Nil
    \/ report = Report(RunChecks(in)) /\ in.sendEvent # Nil

HeightSeen == in.currentHeight <= Len(pchain)

Unsigned == in.signature = Nil

VerdictGrounded ==
  /\ Unsigned
  /\ SendSeen
  /\ HeightSeen
  /\ RangeSettled
  /\ AbsenceSeen
  /\ FailureSeen
  /\ ReportDrawn

(* report.go 86-87: the one-line summary names the root cause and quotes   *)
(* the first failed check; the two are the same check.                     *)
SummaryQuotesRootCause ==
  pc = "done" /\ report.checks # <<>> /\ ~report.isHealthy => report.summary = Verdict

(* engine.go 151-155: both searches use the range resolved once.  Unless   *)
(* the user's range ends beyond the chain, nothing that happens later      *)
(* changes what they find, so the two calls agree with one another.        *)
SearchedRangeIsSettled ==
  [][range # Nil /\ cfg.to = 0 =>
       \A m \in Msgs : /\ InRange(Received(m))' = InRange(Received(m))
                       /\ InRange(Failed(m))' = InRange(Failed(m))]_vars

(* engine.go 213-220: when the range of recent blocks is resolved, every    *)
(* message received in the last Window blocks by then is in it, also when   *)
(* the chain is shorter than the window or just as long.                    *)
RecentDeliveriesAreSearched ==
  [][range = Nil /\ range' # Nil /\ cfg.to = 0 =>
       \A m \in Msgs : \A r \in Received(m) :
         head - r.block <= Window => r \in InRange(Received(m))']_vars

-----------------------------------------------------------------------------
(* What the P-Chain warnings should say.                                   *)

(* Who could sign at a height, and with what stake.                        *)
StakesAt(h) == Stakes(RegisteredInfos(pchain[h]))

(* The heights the P-Chain went through since the engine read its height.  *)
HeightsSinceRead == in.currentHeight .. Len(pchain)

(* Validators with a registered key that the current reply has no key for. *)
Unreported(h) == {v \in pchain[h] : IsKey(v.key) /\ ~IsKey(v.signer)}

(* checks.go 178-220, pchain.go 45-56 and 71-85: the churn check compares  *)
(* sets read by separate calls, with keys from different replies, while    *)
(* the P-Chain grows.  It fails only if the stakes really differed after   *)
(* the signing height, or a registered key was not reported; and when no   *)
(* height was lost it passes only if they really agreed, or one was not.   *)
FaithfulChurn ==
  pc = "done" /\ in.atHeight # Nil /\ in.current # Nil =>
    LET differs(h) == StakesAt(h) # StakesAt(in.pchainHeight)
    IN  IF CheckOf("VALIDATOR_SET_CHANGED").passed
          THEN "GetHeight" \notin lost =>
                 \E h \in HeightsSinceRead : ~differs(h) \/ Unreported(h) # {}
          ELSE \E h \in HeightsSinceRead : differs(h) \/ Unreported(h) # {}

(* Why FaithfulChurn holds: the signing set is that of the signing height,  *)
(* the current one that of a height the chain has had since the height was *)
(* read, unless the signing set stands for it; and the height is unknown   *)
(* only if it was lost.                                                    *)
SigningSetSeen ==
  in.atHeight # Nil =>
    /\ in.pchainHeight \in DOMAIN pchain
    /\ in.atHeight \in
         FromValidatorInfos(in.pchainHeight, RegisteredInfos(pchain[in.pchainHeight]))

CurrentSetSeen ==
  in.current # Nil =>
    IF ChainIsElsewhere
      THEN \E h \in HeightsSinceRead :
             in.current \in FromValidatorInfos(in.currentHeight, CurrentInfos(pchain[h]))
      ELSE in.current = in.atHeight

SetsPending ==
  /\ pc \in {"GetSendWarpEvent", "GetHeight", "GetValidatorsAt"} =>
       in.atHeight = Nil /\ in.current = Nil
  /\ pc = "GetCurrentValidators" => in.current = Nil /\ ChainIsElsewhere
  /\ pc = "done" /\ report.checks = <<>> => in.atHeight = Nil

UnknownHeightWasLost ==
  /\ in.currentHeight = 0
  /\ pc \in {"GetValidatorsAt", "GetCurrentValidators"} \/ in.atHeight # Nil
  => "GetHeight" \in lost

SetsSeen ==
  /\ SetsPending
  /\ SigningSetSeen
  /\ CurrentSetSeen
  /\ UnknownHeightWasLost

(* checks.go 291-312: the subtraction of heights wraps around, yet epochs  *)
(* are reported only when that many blocks were really built after the     *)
(* signing height.                                                         *)
EpochWarningIsReal ==
  pc = "done" /\ report.checks # <<>> /\ ~CheckOf("EPOCH_BOUNDARY_RACE").passed =>
    Len(pchain) - in.pchainHeight >= EpochDuration

(* checks.go 290: the heuristic copied into the check decides as           *)
(* validator.DetectEpochBoundaryRace does.                                 *)
EpochHeuristicsAgree ==
  in.pchainHeight # 0 /\ in.currentHeight # 0 =>
    (CheckEpochBoundary(in).passed
       <=> ~DetectEpochBoundaryRace(in.pchainHeight, in.currentHeight))

-----------------------------------------------------------------------------
(* context.WithTimeout, diagnose.go 334: however calls hang or fail,       *)
(* Diagnose returns.                                                       *)
Terminates == <>(pc = "done")
==============================================================================
