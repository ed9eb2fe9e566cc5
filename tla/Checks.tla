------------------------------- MODULE Checks -------------------------------
(***************************************************************************)
(* internal/diagnosis/checks.go and report.go: the seven checks, each a    *)
(* function of the data the engine gathered, and the verdict drawn from    *)
(* them.                                                                   *)
(*                                                                         *)
(* A check's result keeps its category, its severity, whether it passed    *)
(* and what its description says; the wording is left out.                 *)
(***************************************************************************)
EXTENDS Chains

CONSTANTS QuorumNum, QuorumDen   \* 67 and 100 by default, which Diagnose puts for 0

ASSUME QuorumAssumption == QuorumNum \in Nat \ {0} /\ QuorumDen \in Nat \ {0}

(* The part of a SendWarpMessage log the engine goes on with: its message  *)
(* id, and its network id, Nil when the bytes did not parse.               *)
SendEvents == [msg : Msgs, network : Networks \cup {Nil}]

(* A signed message's BitSetSignature: the message, the bitset and the     *)
(* aggregate, Nil when its bytes do not parse.                             *)
Aggregates == [msg : Msgs, keys : SUBSET Keys]
Signatures == [msg : Msgs, signers : Seq(Bytes), sig : Aggregates \cup {Nil}]

(* DiagnosisInput.  The engine never supplies a signature: module Signing  *)
(* does, in the place of a caller to come.                                 *)
Inputs == [sendEvent     : SendEvents \cup {Nil},
           expected      : Networks,
           signature     : Signatures \cup {Nil},
           atHeight      : ValidatorSets \cup {Nil},
           current       : ValidatorSets \cup {Nil},
           pchainHeight  : UInt64,
           currentHeight : UInt64,
           receive       : DestLogs \cup {Nil},
           execFailed    : DestLogs \cup {Nil}]

-----------------------------------------------------------------------------

Categories == {"INVALID_NETWORK_ID", "RELAYER_NEVER_PICKED_UP",
               "DESTINATION_EXECUTION_FAILED", "INSUFFICIENT_STAKE_WEIGHT",
               "VALIDATOR_SET_CHANGED", "BLS_VERIFICATION_FAILED",
               "EPOCH_BOUNDARY_RACE"}

ASSUME NilAssumption ==
  Nil \notin Categories \cup SendEvents \cup Networks \cup Msgs \cup ValidatorSets
             \cup Refusals \cup Aggregates \cup Signatures

(* What descriptions say, wording aside.                                   *)
Says == {"skipped", "matches", "mismatch",
         "received", "no receive event on the destination chain",
         "delivered but reverted", "not applicable", "delivered and executed",
         "threshold reachable", "threshold cannot be met",
         "height unchanged", "set unchanged between the two heights",
         "validators removed since signing",
         "valid", "invalid", "no boundary", "epochs elapsed"}

Summaries == Categories \cup {"delivered", "inconclusive", "no SendWarpMessage event", "error"}

Verdicts == Categories \cup {"HEALTHY", "ERROR"}

CheckResults == [category : Categories, critical : BOOLEAN, passed : BOOLEAN, says : Says]

Reports == [rootCause : Verdicts, isHealthy : BOOLEAN,
            checks : Seq(CheckResults), summary : Summaries]

Critical(category, passed, says) ==
  [category |-> category, critical |-> TRUE, passed |-> passed, says |-> says]

Warning(category, passed, says) ==
  [category |-> category, critical |-> FALSE, passed |-> passed, says |-> says]

CheckNetworkID(in) ==
  LET skipped == in.sendEvent.network = Nil
      matches == in.sendEvent.network = in.expected
  IN  Critical("INVALID_NETWORK_ID", skipped \/ matches,
               IF skipped THEN "skipped" ELSE IF matches THEN "matches" ELSE "mismatch")

CheckRelayerPickup(in) ==
  LET found == in.receive # Nil
  IN  Critical("RELAYER_NEVER_PICKED_UP", found,
               IF found THEN "received" ELSE "no receive event on the destination chain")

(* Slip: a revert at the destination only warns.                           *)
WarnOfDestinationExecution(in) ==
  Warning("DESTINATION_EXECUTION_FAILED", in.execFailed = Nil,
          IF in.execFailed # Nil THEN "delivered but reverted" ELSE "delivered and executed")

CheckDestinationExecution(in) ==
  LET failed == in.execFailed # Nil
  IN  Critical("DESTINATION_EXECUTION_FAILED", ~failed,
               IF failed THEN "delivered but reverted"
               ELSE IF in.receive = Nil THEN "not applicable"
               ELSE "delivered and executed")

(* blsWeight sums the very entries TotalWeight sums.                       *)
CheckStakeWeight(in) ==
  IF in.atHeight = Nil THEN Warning("INSUFFICIENT_STAKE_WEIGHT", TRUE, "skipped")
  ELSE LET blsWeight == SumWeights(WeightsOf(in.atHeight), 0 .. Len(in.atHeight.vals) - 1)
           reachable == CheckThreshold(blsWeight, TotalWeight(in.atHeight), QuorumNum, QuorumDen)
       IN  Warning("INSUFFICIENT_STAKE_WEIGHT", reachable,
                   IF reachable THEN "threshold reachable" ELSE "threshold cannot be met")

CheckValidatorSetChanged(in) ==
  LET skipped   == in.atHeight = Nil \/ in.current = Nil
      sameBlock == in.pchainHeight = in.currentHeight
      unchanged == IsEmpty(Diff(in.atHeight, in.current))
      Stable(says) == Warning("VALIDATOR_SET_CHANGED", TRUE, says)
  IN  IF skipped THEN Stable("skipped")
      ELSE IF sameBlock THEN Stable("height unchanged")
      ELSE IF unchanged THEN Stable("set unchanged between the two heights")
      ELSE Warning("VALIDATOR_SET_CHANGED", FALSE, "validators removed since signing")

CheckBLSSignature(in) ==
  LET skipped == in.signature = Nil \/ in.atHeight = Nil
      vr      == Verify(in.signature.msg, in.signature.signers, in.signature.sig,
                        Pubkeys(in.atHeight), WeightsOf(in.atHeight),
                        TotalWeight(in.atHeight), QuorumNum, QuorumDen)
      valid   == skipped \/ vr.valid
  IN  Critical("BLS_VERIFICATION_FAILED", valid,
               IF skipped THEN "skipped" ELSE IF valid THEN "valid" ELSE "invalid")

(* Slip: the wrapped delta is used without the guard.                      *)
CheckEpochBoundaryUnguarded(in) ==
  LET skipped == in.pchainHeight = 0 \/ in.currentHeight = 0
      within  == Minus(in.currentHeight, in.pchainHeight) \div EpochDuration = 0
  IN  Warning("EPOCH_BOUNDARY_RACE", skipped \/ within,
              IF skipped THEN "skipped" ELSE IF within THEN "no boundary" ELSE "epochs elapsed")

(* delta is computed before the guard that makes it meaningful.            *)
CheckEpochBoundary(in) ==
  LET skipped == in.pchainHeight = 0 \/ in.currentHeight = 0
      delta   == Minus(in.currentHeight, in.pchainHeight)
      within  == in.currentHeight < in.pchainHeight \/ delta \div EpochDuration = 0
  IN  Warning("EPOCH_BOUNDARY_RACE", skipped \/ within,
              IF skipped THEN "skipped" ELSE IF within THEN "no boundary" ELSE "epochs elapsed")

(* Slip: the warnings come first.                                          *)
RunWarningsFirst(in) ==
  << CheckStakeWeight(in), CheckValidatorSetChanged(in), CheckEpochBoundary(in),
     CheckNetworkID(in), CheckRelayerPickup(in), CheckDestinationExecution(in),
     CheckBLSSignature(in) >>

RunChecks(in) ==
  << CheckNetworkID(in),
     CheckRelayerPickup(in),
     CheckDestinationExecution(in),
     CheckStakeWeight(in),
     CheckValidatorSetChanged(in),
     CheckBLSSignature(in),
     CheckEpochBoundary(in) >>

-----------------------------------------------------------------------------
(* The report.  summary is the category of the check whose description the *)
(* one-line summary quotes.                                                *)

FailedChecks(checks) == {i \in DOMAIN checks : ~checks[i].passed}

(* Slip: any failed check is taken for critical.                           *)
AnyFailures(checks) == FailedChecks(checks)

CriticalFailures(checks) == {i \in FailedChecks(checks) : checks[i].critical}

FirstOf(checks, hits) == checks[Min(hits)].category

RootCause(checks) ==
  IF CriticalFailures(checks) = {} THEN "HEALTHY"
  ELSE FirstOf(checks, CriticalFailures(checks))

BuildSummary(checks, isHealthy) ==
  IF isHealthy THEN "delivered"
  ELSE IF FailedChecks(checks) = {} THEN "inconclusive"
  ELSE FirstOf(checks, FailedChecks(checks))

Report(checks) ==
  [rootCause |-> RootCause(checks),
   isHealthy |-> RootCause(checks) = "HEALTHY",
   checks    |-> checks,
   summary   |-> BuildSummary(checks, RootCause(checks) = "HEALTHY")]

NoSendReport ==
  [rootCause |-> "RELAYER_NEVER_PICKED_UP",
   isHealthy |-> FALSE,
   checks    |-> <<>>,
   summary   |-> "no SendWarpMessage event"]

(* Diagnose returned (nil, err).                                           *)
ErrorReport ==
  [rootCause |-> "ERROR", isHealthy |-> FALSE, checks |-> <<>>, summary |-> "error"]

CheckFor(r, category) ==
  CHOOSE c \in ToSet(r.checks) : c.category = category
==============================================================================
