------------------------------- MODULE Signing -------------------------------
(***************************************************************************)
(* The way of a signature: a relayer collects the validators' signatures   *)
(* while the P-Chain moves on, and a diagnosis checks the aggregate         *)
(* against the set of a height it has to guess, since the signature does   *)
(* not carry the height it was made at.                                    *)
(*                                                                         *)
(* The relayer and the validators are outside the program.  As avalanchego *)
(* has it, validators that share a key are one signer, and the bitset of   *)
(* the signers is the big-endian bytes of a number; in which order it      *)
(* takes the keys is left open.  diagnose does not hand its engine a       *)
(* signed message yet: Inspect takes the part of a caller to come.         *)
(***************************************************************************)
EXTENDS Diagnosis

VARIABLES
  signing,  \* the relayer's work: height, order of keys, message, keys that signed; or Nil
  shown     \* the bytes of the signed message, Nil before there are any

signingVars == <<signing, shown>>
signedVars  == <<vars, signingVars>>

-----------------------------------------------------------------------------
(* The bytes of the number with these bits set, the highest byte first,    *)
(* and none in front of it.                                                *)
Encode(positions) ==
  LET length == IF positions = {} THEN 0 ELSE Max(positions) \div ByteBits + 1
  IN  [b \in 1 .. length |->
         {j \in 0 .. ByteBits - 1 : (length - b) * ByteBits + j \in positions}]

(* The bits of these keys in the relayer's order.                          *)
PositionsOf(order, keys) == {i \in 0 .. Len(order) - 1 : order[i + 1] \in keys}

KeysHeld(infos) == {v.key : v \in Keyed(infos)}

-----------------------------------------------------------------------------

Signings == [height : UInt64, order : Seq(Keys), msg : Msgs, by : SUBSET Keys]

SigningTypeOK ==
  /\ TypeOK
  /\ signing \in Signings \cup {Nil}
  /\ shown \in Signatures \cup {Nil, Garbled}

SigningInit ==
  /\ Init
  /\ signing = Nil
  /\ shown = Nil

(* The relayer takes the keys registered at the P-Chain's latest height.   *)
BeginSigning(m) ==
  /\ signing = Nil
  /\ \E order \in SetToSeqs(KeysHeld(RegisteredInfos(pchain[Len(pchain)]))) :
       signing' = [height |-> Len(pchain), order |-> order, msg |-> m, by |-> {}]
  /\ UNCHANGED <<vars, shown>>

(* A signature counts if it verifies under a key the relayer has taken: a   *)
(* validator that has another key by now, or none, can no longer give one. *)
Collect(v) ==
  /\ signing # Nil
  /\ shown = Nil
  /\ v.key \in ToSet(signing.order) \ signing.by
  /\ signing' = [signing EXCEPT !.by = @ \cup {v.key}]
  /\ UNCHANGED <<vars, shown>>

(* The aggregate as it was made; with one or more bits set behind the last  *)
(* signer; over another message; with signature bytes that do not parse;   *)
(* or bytes ParseSignedMessage makes nothing of.                           *)
Publish ==
  LET positions == PositionsOf(signing.order, signing.by)
      last      == Len(signing.order)
      sig       == [msg |-> signing.msg, keys |-> signing.by]
      Signed(m, bits, s) == [msg |-> m, signers |-> Encode(bits), sig |-> s]
  IN  /\ signing # Nil
      /\ shown = Nil
      /\ shown' \in {Signed(signing.msg, positions \cup more, sig) :
                       more \in {{}, {last}, last .. last + ByteBits}}
                    \cup {Signed(m, positions, sig) : m \in Msgs}
                    \cup {Signed(signing.msg, positions, Nil), Garbled}
      /\ UNCHANGED <<vars, signing>>

(* Slip: what does not parse is handed on.                                 *)
InspectAnything ==
  /\ pc = "GetSendWarpEvent"
  /\ shown # Nil
  /\ in' = [in EXCEPT !.signature = shown]
  /\ UNCHANGED <<chainVars, pc, expired, cfg, range, lost, report, signingVars>>

(* ParseSignedMessage, whose error leaves the diagnosis without a signature. *)
Inspect ==
  /\ pc = "GetSendWarpEvent"
  /\ shown \notin {Nil, Garbled}
  /\ in.signature = Nil
  /\ in' = [in EXCEPT !.signature = shown]
  /\ UNCHANGED <<chainVars, pc, expired, cfg, range, lost, report, signingVars>>

Diagnose ==
  /\ shown # Nil
  /\ shown # Garbled => in.signature = shown
  /\ EngineStep
  /\ UNCHANGED signingVars

SigningNext ==
  \/ \E m \in Msgs : BeginSigning(m)
  \/ \E v \in pchain[Len(pchain)] : Collect(v)
  \/ Publish
  \/ Inspect
  \/ Diagnose
  \/ Environment /\ UNCHANGED signingVars
  \/ Returned /\ UNCHANGED signingVars

SigningSpec == SigningInit /\ [][SigningNext]_signedVars
-----------------------------------------------------------------------------
(* What the verdict on a signature should say.                             *)

Checked == pc = "done" /\ report.checks # <<>>

SignatureCheck == CheckOf("BLS_VERIFICATION_FAILED")

Intact == in.signature # Nil /\ in.signature.sig # Nil /\ in.signature.msg = signing.msg

(* set.go 36-38, engine.go 128-144: the bits were set for the keys of the   *)
(* signing height, they are counted in the set of a guessed height, and    *)
(* both are what the P-Chain really had at these heights, though it went   *)
(* on in between.                                                          *)
MadeAtHeight ==
  signing # Nil =>
    /\ signing.height \in DOMAIN pchain
    /\ signing.order \in SetToSeqs(KeysHeld(RegisteredInfos(pchain[signing.height])))
    /\ signing.by \subseteq ToSet(signing.order)

ShownAsMade ==
  shown \notin {Nil, Garbled} =>
    LET positions == PositionsOf(signing.order, signing.by)
        last      == Len(signing.order)
    IN  /\ signing # Nil
        /\ shown.sig \in {Nil, [msg |-> signing.msg, keys |-> signing.by]}
        /\ \E more \in {{}, {last}, last .. last + ByteBits} :
             shown.signers = Encode(positions \cup more)

CheckedAsShown ==
  /\ in.signature # Nil => in.signature = shown /\ shown # Garbled
  /\ pc # "GetSendWarpEvent" => shown # Nil
  /\ pc # "GetSendWarpEvent" /\ shown # Garbled => in.signature = shown

SignatureTraced ==
  /\ MadeAtHeight
  /\ ShownAsMade
  /\ CheckedAsShown
  /\ HeightSeen
  /\ ReportDrawn
  /\ SetsSeen

DistinctKeys(vs) ==
  \A i, j \in DOMAIN vs.vals : vs.vals[i].key = vs.vals[j].key => i = j

(* The stake, in this set, of the keys that really signed.                 *)
Backing(vs) ==
  SumFunction([i \in {j \in DOMAIN vs.vals : vs.vals[j].key \in signing.by} |->
                 vs.vals[i].weight])

Stake(vs) == SumFunction(WeightsOf(vs))

HasQuorum(vs) == Backing(vs) * QuorumDen >= Stake(vs) * QuorumNum

(* threshold.go 26-27: the threshold's products stay below 2^64 for the    *)
(* stake of every set there is, which the program takes for granted.       *)
KeyedStake(infos) == SumFunction([v \in Keyed(infos) |-> v.weight])

Fits(infos) == KeyedStake(infos) * QuorumDen < Word /\ KeyedStake(infos) * QuorumNum < Word

ProductsFit == \A s \in Snapshots : Fits(RegisteredInfos(s)) /\ Fits(CurrentInfos(s))

(* verifier.go 44-133: whatever height was guessed, whatever the bitset     *)
(* was made for and however it is read, a signature passes only for the    *)
(* message that was signed, and only if the keys that signed it hold the   *)
(* quorum of the very set it is checked against.                           *)
ValidMeansSigned ==
  Checked /\ SignatureCheck.says = "valid" =>
    /\ Intact
    /\ HasQuorum(in.atHeight)

(* The signature is untouched and of a quorum, and is checked at the height *)
(* it was made at; the relayer had the keys in the order of their bytes.   *)
GenuineQuorum ==
  /\ Checked
  /\ in.atHeight # Nil
  /\ in.pchainHeight = signing.height
  /\ \A i, j \in DOMAIN signing.order : i < j => signing.order[i] < signing.order[j]
  /\ Intact
  /\ signing.by # {}
  /\ HasQuorum(in.atHeight)

(* set.go 36-38: the order of the set read later is the one the bitset was *)
(* made with.  A genuine signature of a quorum passes, where nobody shares *)
(* a key and the bitset is a single byte, though the sort is not stable    *)
(* and bits may be set behind the last signer.                             *)
QuorumIsRecognised ==
  GenuineQuorum /\ DistinctKeys(in.atHeight) /\ Len(in.signature.signers) <= 1
    => SignatureCheck.says = "valid"


(* set.go 36-38: the ordering "must exactly match the ordering used when    *)
(* the BitSetSignature was constructed".  The set has an entry for each    *)
(* validator, the bitset one bit for all who share a key.                  *)
OrderingMatches ==
  GenuineQuorum /\ Len(in.signature.signers) <= 1 => SignatureCheck.says = "valid"

(* verifier.go 118-132: the one refusal that comes without an error is     *)
(* that of a genuine signature of too little stake.                        *)
OnlyQuorumGoesUnexplained ==
  Checked /\ in.atHeight # Nil /\ in.signature # Nil =>
    LET vs == in.atHeight
        vr == Verify(in.signature.msg, in.signature.signers, in.signature.sig, Pubkeys(vs),
                     WeightsOf(vs), TotalWeight(vs), QuorumNum, QuorumDen)
    IN  ~vr.valid /\ vr.error = Nil =>
          Intact /\ (DistinctKeys(vs) => ~HasQuorum(vs))

(* verifier.go 102: the threshold is written out a second time there.  No  *)
(* signature is called valid beside a stake check that says the quorum     *)
(* cannot be reached, which has a refusal of its own for a zero total.     *)
ThresholdsAgree ==
  Checked /\ SignatureCheck.says = "valid" =>
    CheckOf("INSUFFICIENT_STAKE_WEIGHT").says = "threshold reachable"

(* Validators that share a key have the same stake, so that it does not    *)
(* matter which of them a bit stands for.                                  *)
EvenKeys(vs) ==
  \A i, j \in DOMAIN vs.vals :
    vs.vals[i].key = vs.vals[j].key => vs.vals[i].weight = vs.vals[j].weight

NoKeyRotated ==
  \A i \in DOMAIN in.atHeight.vals, j \in DOMAIN in.current.vals :
    in.atHeight.vals[i].node = in.current.vals[j].node
      => in.atHeight.vals[i].key = in.current.vals[j].key

(* diff.go 62: a validator that stays with its stake and another key is no *)
(* difference.  But for such rotations, a set called unchanged since the   *)
(* signing height still takes, or still refuses, the same signature.       *)
UnchangedKeepsVerdict ==
  /\ Checked
  /\ CheckOf("VALIDATOR_SET_CHANGED").says = "set unchanged between the two heights"
  /\ NoKeyRotated
  /\ EvenKeys(in.atHeight)
  => CheckBLSSignature([in EXCEPT !.atHeight = in.current]) = SignatureCheck
==============================================================================
