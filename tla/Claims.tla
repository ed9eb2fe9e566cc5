------------------------------- MODULE Claims -------------------------------
(***************************************************************************)
(* What the repository's documentation and messages say of a diagnosis and *)
(* the program does not keep: each of these is violated by Diagnosis.      *)
(***************************************************************************)
EXTENDS Diagnosis

(* README.md 89: RELAYER_NEVER_PICKED_UP is detected by a                  *)
(* ReceiveCrossChainMessage "absent on destination".  The check also fails *)
(* when the search of the blocks that hold the event was lost.             *)
NeverPickedUpMeansAbsent ==
  pc = "done" /\ range # Nil /\ cfg.to = 0 /\ Verdict = "RELAYER_NEVER_PICKED_UP"
    => InRange(Received(Target)) = {}

(* checks.go 199: "Validator set unchanged between P-Chain heights %d and  *)
(* %d", said of two heights: the P-Chain had the second, and a set not     *)
(* older than it has the stakes of the first.                              *)
UnchangedIsSeenAtTwoHeights ==
  pc = "done" /\ report.checks # <<>>
  /\ CheckOf("VALIDATOR_SET_CHANGED").says = "set unchanged between the two heights"
    => /\ in.currentHeight \in DOMAIN pchain
       /\ \E h \in HeightsSinceRead : StakesAt(h) = StakesAt(in.pchainHeight)

(* All the stake of the validators in infos, without wrapping around.      *)
StakeOf(infos) == MapThenSumSet(LAMBDA v : v.weight, infos)

(* README.md 95: INSUFFICIENT_STAKE_WEIGHT means "BLS-capable validator    *)
(* weight < 67% of total".  The total the check takes leaves out whoever   *)
(* has no key.                                                             *)
KeylessStakeCounts ==
  pc = "done" /\ in.atHeight # Nil /\ in.pchainHeight \in DOMAIN pchain =>
    LET infos == RegisteredInfos(pchain[in.pchainHeight])
    IN  CheckOf("INSUFFICIENT_STAKE_WEIGHT").passed
          => StakeOf(Keyed(infos)) * QuorumDen >= StakeOf(infos) * QuorumNum

NodesWithKeys(h) == {v.node : v \in Keyed(RegisteredInfos(pchain[h]))}

(* checks.go 207: "%d validator(s) removed since signing height %d".  The  *)
(* check fails as well when validators only joined or changed their stake, *)
(* with every registered key in the reply.                                 *)
ChurnMeansRemoved ==
  /\ pc = "done" /\ in.atHeight # Nil /\ in.current # Nil
  /\ ~CheckOf("VALIDATOR_SET_CHANGED").passed
  /\ \A h \in HeightsSinceRead : Unreported(h) = {}
  => \E h \in HeightsSinceRead :
       NodesWithKeys(in.pchainHeight) \ NodesWithKeys(h) # {}

(* threshold.go 13: signedWeight * quorumDen >= totalWeight * quorumNum is *)
(* "the exact check".  The products are taken in uint64 and wrap around.   *)
ThresholdIsExact ==
  pc = "done" /\ in.atHeight # Nil =>
    LET stake == StakeOf(ToSet(in.atHeight.vals))
    IN  stake > 0 /\ stake < Word /\ stake * QuorumDen >= stake * QuorumNum
          => CheckOf("INSUFFICIENT_STAKE_WEIGHT").passed
==============================================================================
