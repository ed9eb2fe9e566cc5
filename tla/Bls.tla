--------------------------------- MODULE Bls ---------------------------------
(***************************************************************************)
(* internal/bls: signer bitsets, the stake-weight threshold and the        *)
(* verification of an aggregate signature against the canonical validator  *)
(* order.                                                                  *)
(*                                                                         *)
(* A byte is the set of the bits set in it, numbered from the least        *)
(* significant one; a bitset is a sequence of bytes.  Public keys are      *)
(* naturals, ordered as their 48 compressed bytes are; NoKey is the empty  *)
(* slice and BadKey stands for bytes that are no valid key.                *)
(***************************************************************************)
EXTENDS GoTypes, Sequences, SequencesExt

CONSTANTS
  ByteBits,  \* bits in a byte: 8 in the program
  NoKey,     \* PublicKeyBytes == nil
  BadKey     \* PublicKeyBytes that do not decode to a key

ASSUME ByteBitsAssumption == ByteBits \in Nat \ {0}

(* Bytes the parsing of a compressed key accepts.                          *)
IsKey(k) == k \notin {NoKey, BadKey}

Bytes == SUBSET (0 .. ByteBits - 1)

-----------------------------------------------------------------------------
(* Positions are numbered from 0 in the bitset, from 1 in TLA+ sequences.  *)

(* Slip: bits are numbered from the most significant one.                  *)
IsSetFromTheLeft(signers, i) ==
  /\ i \div ByteBits < Len(signers)
  /\ ByteBits - 1 - (i % ByteBits) \in signers[i \div ByteBits + 1]

IsSet(signers, i) ==
  /\ i \div ByteBits < Len(signers)
  /\ i % ByteBits \in signers[i \div ByteBits + 1]

SignerIndices(signers, validatorCount) ==
  {i \in 0 .. validatorCount - 1 : IsSet(signers, i)}

(* A sum of uint64 values modulo Word is the sum in Go, whatever the order *)
(* in which it wraps around.                                               *)
SumWeights(weights, positions) ==
  SumFunction([i \in positions |-> weights[i + 1]]) % Word

(* Slip: everybody's weight is counted, signer or not.                     *)
AccumulateAllWeight(signers, weights) == SumWeights(weights, 0 .. Len(weights) - 1)

AccumulateWeight(signers, weights) ==
  SumWeights(weights, SignerIndices(signers, Len(weights)))

(* signedWeight * quorumDen >= totalWeight * quorumNum, both in uint64.    *)
MeetsQuorum(signedWeight, totalWeight, quorumNum, quorumDen) ==
  Times(signedWeight, quorumDen) >= Times(totalWeight, quorumNum)

(* Slip: numerator and denominator are swapped.                            *)
CheckThresholdSwapped(signedWeight, totalWeight, quorumNum, quorumDen) ==
  /\ quorumDen # 0
  /\ totalWeight # 0
  /\ MeetsQuorum(signedWeight, totalWeight, quorumDen, quorumNum)

(* TRUE stands for the nil error.                                          *)
CheckThreshold(signedWeight, totalWeight, quorumNum, quorumDen) ==
  /\ quorumDen # 0
  /\ totalWeight # 0
  /\ MeetsQuorum(signedWeight, totalWeight, quorumNum, quorumDen)

-----------------------------------------------------------------------------
(* avalanchego's BLS: an aggregate signature is the message and the keys   *)
(* that signed it, each of them once, or Nil when its bytes do not parse.  *)
(* It verifies against exactly that message and these keys, aggregated as  *)
(* often as they occur in the bag.                                         *)
OneEach(keys) == [k \in keys |-> 1]

AggregateVerifies(sig, msg, keyBag) ==
  /\ sig.msg = msg
  /\ keyBag = OneEach(sig.keys)

Refusals == {"lengths differ", "signature does not parse", "signer without a key",
             "no signers", "invalid signature"}

(* Slip: the error is dropped.                                             *)
RefusedSilently(signedWeight, quorumMet, error) ==
  [valid |-> FALSE, signedWeight |-> signedWeight,
   quorumMet |-> quorumMet, error |-> Nil]

Refused(signedWeight, quorumMet, error) ==
  [valid |-> FALSE, signedWeight |-> signedWeight,
   quorumMet |-> quorumMet, error |-> error]

(* AggregatePublicKeys fails only without keys, which is refused before.   *)
Verify(msg, signers, sig, pubkeys, weights, totalWeight, quorumNum, quorumDen) ==
  LET signing      == SignerIndices(signers, Len(pubkeys))
      keyBag       == [k \in {pubkeys[i + 1] : i \in signing} |->
                         Cardinality({i \in signing : pubkeys[i + 1] = k})]
      signedWeight == AccumulateWeight(signers, weights)
      quorumMet    == MeetsQuorum(signedWeight, totalWeight, quorumNum, quorumDen)
  IN  IF Len(pubkeys) # Len(weights) THEN Refused(0, FALSE, "lengths differ")
      ELSE IF sig = Nil THEN Refused(0, FALSE, "signature does not parse")
      ELSE IF \E i \in signing : ~IsKey(pubkeys[i + 1])
        THEN Refused(signedWeight, FALSE, "signer without a key")
      ELSE IF signing = {} THEN Refused(signedWeight, FALSE, "no signers")
      ELSE IF ~AggregateVerifies(sig, msg, keyBag)
        THEN Refused(signedWeight, quorumMet, "invalid signature")
      ELSE [valid |-> quorumMet, signedWeight |-> signedWeight,
            quorumMet |-> quorumMet, error |-> Nil]
==============================================================================
