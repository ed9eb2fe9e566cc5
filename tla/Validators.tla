----------------------------- MODULE Validators -----------------------------
(***************************************************************************)
(* internal/validator: the canonical Warp validator set built from a       *)
(* P-Chain reply, the difference between two sets, and the heuristic for   *)
(* ACP-181 epoch boundaries.                                               *)
(*                                                                         *)
(* A P-Chain reply is a set of infos, one per node: the map and the list   *)
(* it comes as have no order of their own.                                 *)
(***************************************************************************)
EXTENDS Bls

CONSTANTS
  Nodes,             \* node ids
  Weights,           \* the stake weights that occur
  Keys,              \* public key bytes that occur: naturals, NoKey, BadKey
  EpochDuration,     \* P-Chain blocks per epoch: 150 in the program
  EpochGracePeriod   \* 10 in the program

ASSUME ValidatorAssumption ==
  /\ Weights \subseteq UInt64
  /\ Keys \ {NoKey, BadKey} \subseteq Nat
  /\ NoKey \in Keys
  /\ EpochDuration \in Nat \ {0}
  /\ EpochGracePeriod \in Nat
  /\ EpochGracePeriod <= EpochDuration

Infos == [node : Nodes, weight : Weights, key : Keys]

ValidatorSets == [height : UInt64, vals : Seq(Infos)]

-----------------------------------------------------------------------------

KeyOrdered(vals) == \A i, j \in DOMAIN vals : i < j => vals[i].key <= vals[j].key

(* The sets FromValidatorInfos can build: validators without a key are     *)
(* skipped, a key of the wrong length is an error (Nil), and sort.Slice is *)
(* not stable, so validators that share a key come in any order.           *)
FromValidatorInfos(height, infos) ==
  IF \E v \in infos : v.key = BadKey
    THEN {Nil}
    ELSE {[height |-> height, vals |-> vals] :
            vals \in {s \in SetToSeqs({v \in infos : v.key # NoKey}) : KeyOrdered(s)}}

(* Who can sign, and with what stake.                                      *)
Keyed(infos)  == {v \in infos : IsKey(v.key)}
Stakes(infos) == {<<v.node, v.weight>> : v \in Keyed(infos)}

Pubkeys(vs)     == [i \in DOMAIN vs.vals |-> vs.vals[i].key]
WeightsOf(vs)   == [i \in DOMAIN vs.vals |-> vs.vals[i].weight]
TotalWeight(vs) == SumWeights(WeightsOf(vs), 0 .. Len(vs.vals) - 1)

-----------------------------------------------------------------------------
(* Diff, as engine and report use it: who was added, who was removed, whose *)
(* weight changed.                                                         *)

NodesOf(vs)      == {vs.vals[i].node : i \in DOMAIN vs.vals}
WeightIn(vs, n)  == vs.vals[CHOOSE i \in DOMAIN vs.vals : vs.vals[i].node = n].weight

Diff(atSigning, current) ==
  LET both == NodesOf(atSigning) \cap NodesOf(current)
  IN  [added   |-> NodesOf(current) \ NodesOf(atSigning),
       removed |-> NodesOf(atSigning) \ NodesOf(current),
       changed |-> {n \in both : WeightIn(atSigning, n) # WeightIn(current, n)}]

(* Slip: a validator whose weight changed is overlooked.                   *)
IsEmptyButForWeights(diff) == diff.added = {} /\ diff.removed = {}

IsEmpty(diff) == diff.added = {} /\ diff.removed = {} /\ diff.changed = {}

-----------------------------------------------------------------------------

(* Slip: the early return for a current height that is not later is gone.  *)
DetectEpochBoundaryRaceUnguarded(signingHeight, currentHeight) ==
  LET delta == Minus(currentHeight, signingHeight)
  IN  delta >= EpochGracePeriod /\ delta \div EpochDuration # 0

DetectEpochBoundaryRace(signingHeight, currentHeight) ==
  LET delta == Minus(currentHeight, signingHeight)
  IN  /\ currentHeight > signingHeight
      /\ delta >= EpochGracePeriod
      /\ delta \div EpochDuration # 0
==============================================================================
