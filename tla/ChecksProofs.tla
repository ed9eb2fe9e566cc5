----------------------------- MODULE ChecksProofs -----------------------------
(***************************************************************************)
(* What holds of the checks, the report and the operators under them, for  *)
(* every value of the constants.                                           *)
(***************************************************************************)
EXTENDS Checks, SumProofs, SequenceTheorems

-----------------------------------------------------------------------------
(* Arithmetic on uint64.                                                   *)

(* A difference that does not go below zero is the difference in Go.       *)
LEMMA MinusInRange ==
  ASSUME NEW a \in UInt64, NEW b \in UInt64, b <= a
  PROVE  Minus(a, b) = a - b
BY WordAssumption DEF Minus, UInt64

(* Less than a whole epoch is no epoch.                                    *)
LEMMA WholeEpochs ==
  ASSUME NEW d \in Nat
  PROVE  d \div EpochDuration # 0 <=> d >= EpochDuration
BY ValidatorAssumption

(* checks.go 290: the heuristic written out in the check and the one in    *)
(* package validator decide alike, for all heights below 2^64.             *)
THEOREM HeuristicsAgree ==
  ASSUME NEW i \in Inputs, i.pchainHeight # 0, i.currentHeight # 0
  PROVE  CheckEpochBoundary(i).passed
           <=> ~DetectEpochBoundaryRace(i.pchainHeight, i.currentHeight)
<1> DEFINE p == i.pchainHeight
           c == i.currentHeight
<1>1. p \in UInt64 /\ c \in UInt64
  BY DEF Inputs
<1>2. CheckEpochBoundary(i).passed <=> c < p \/ Minus(c, p) \div EpochDuration = 0
  BY DEF CheckEpochBoundary, Warning
<1>3. CASE c < p
  BY <1>1, <1>2, <1>3 DEF DetectEpochBoundaryRace, UInt64
<1>4. CASE p <= c
  <2>1. Minus(c, p) = c - p
    BY <1>1, <1>4, MinusInRange
  <2>2. c - p \in Nat
    BY <1>1, <1>4 DEF UInt64
  <2>3. (c - p) \div EpochDuration # 0 <=> c - p >= EpochDuration
    BY <2>2, WholeEpochs
  <2> QED
    BY <1>1, <1>2, <1>4, <2>1, <2>2, <2>3, ValidatorAssumption
    DEF DetectEpochBoundaryRace, UInt64
<1> QED
  BY <1>1, <1>3, <1>4 DEF UInt64

-----------------------------------------------------------------------------
(* Types.                                                                  *)

(* What the P-Chain's clients answer: finitely many infos, one per node.   *)
Reply(infos) ==
  /\ infos \subseteq Infos
  /\ IsFiniteSet(infos)
  /\ \A v, w \in infos : v.node = w.node => v = w

(* pchain.go 45-56, 71-85: both calls answer so.                           *)
LEMMA RepliesOf ==
  ASSUME NEW s \in Snapshots
  PROVE  Reply(RegisteredInfos(s)) /\ Reply(CurrentInfos(s))
<1> DEFINE registered == [v \in s |-> [node |-> v.node, weight |-> v.weight, key |-> v.key]]
           current == [v \in s |-> [node |-> v.node, weight |-> v.weight,
                                    key |-> IF IsKey(v.signer) THEN v.signer ELSE NoKey]]
<1>1. /\ s \subseteq Members /\ IsFiniteSet(s)
      /\ \A v, w \in s : v.node = w.node => v = w
  BY ChainAssumption
<1>2. /\ RegisteredInfos(s) = {registered[v] : v \in s}
      /\ CurrentInfos(s) = {current[v] : v \in s}
  BY DEF RegisteredInfos, CurrentInfos, ExtractBLSKeyBytes
<1>3. IsFiniteSet(RegisteredInfos(s)) /\ IsFiniteSet(CurrentInfos(s))
  <2>1. /\ registered \in [s -> RegisteredInfos(s)]
        /\ \A i \in RegisteredInfos(s) : \E v \in s : registered[v] = i
        /\ current \in [s -> CurrentInfos(s)]
        /\ \A i \in CurrentInfos(s) : \E v \in s : current[v] = i
    BY <1>2
  <2> HIDE DEF registered, current
  <2>2. /\ registered \in Surjection(s, RegisteredInfos(s))
        /\ current \in Surjection(s, CurrentInfos(s))
    BY <2>1, Fun_IsSurj
  <2> QED
    BY <1>1, <2>2, FS_Surjection
<1>4. RegisteredInfos(s) \subseteq Infos
  BY <1>1 DEF RegisteredInfos, Members, Infos
<1>5. CurrentInfos(s) \subseteq Infos
  BY <1>1, ValidatorAssumption DEF CurrentInfos, ExtractBLSKeyBytes, Members, Infos
<1>6. \A v, w \in RegisteredInfos(s) : v.node = w.node => v = w
  BY <1>1 DEF RegisteredInfos
<1>7. \A v, w \in CurrentInfos(s) : v.node = w.node => v = w
  BY <1>1 DEF CurrentInfos, ExtractBLSKeyBytes
<1> QED
  BY <1>3, <1>4, <1>5, <1>6, <1>7 DEF Reply

(* Where every registered key has its signer in the reply, both calls tell *)
(* of the same stakes.                                                     *)
LEMMA SameStakesReported ==
  ASSUME NEW s \in Snapshots, \A v \in s : IsKey(v.key) => IsKey(v.signer)
  PROVE  Stakes(CurrentInfos(s)) = Stakes(RegisteredInfos(s))
<1>1. \A v \in s : /\ IsKey(v.key) <=> IsKey(v.signer)
                   /\ IsKey(v.signer) => v.signer = v.key
  BY ChainAssumption
<1>2. ~IsKey(NoKey)
  BY DEF IsKey
<1>3. \A t : t \in Stakes(RegisteredInfos(s))
              <=> \E v \in s : IsKey(v.key) /\ t = <<v.node, v.weight>>
  <2> SUFFICES ASSUME NEW t
               PROVE  t \in Stakes(RegisteredInfos(s))
                        <=> \E v \in s : IsKey(v.key) /\ t = <<v.node, v.weight>>
    OBVIOUS
  <2>1. t \in Stakes(RegisteredInfos(s))
          <=> \E i \in RegisteredInfos(s) : IsKey(i.key) /\ t = <<i.node, i.weight>>
    BY DEF Stakes, Keyed
  <2>2. \A v \in s : [node |-> v.node, weight |-> v.weight, key |-> v.key] \in RegisteredInfos(s)
    BY DEF RegisteredInfos
  <2>3. \A i \in RegisteredInfos(s) :
          \E v \in s : i = [node |-> v.node, weight |-> v.weight, key |-> v.key]
    BY DEF RegisteredInfos
  <2>4. ASSUME NEW v \in s, IsKey(v.key), t = <<v.node, v.weight>>
        PROVE  t \in Stakes(RegisteredInfos(s))
    <3> DEFINE i == [node |-> v.node, weight |-> v.weight, key |-> v.key]
    <3>1. i \in RegisteredInfos(s) /\ IsKey(i.key) /\ t = <<i.node, i.weight>>
      BY <2>2, <2>4
    <3> QED
      BY <2>1, <3>1
  <2>5. ASSUME NEW i \in RegisteredInfos(s), IsKey(i.key), t = <<i.node, i.weight>>
        PROVE  \E v \in s : IsKey(v.key) /\ t = <<v.node, v.weight>>
    <3>1. PICK v \in s : i = [node |-> v.node, weight |-> v.weight, key |-> v.key]
      BY <2>3
    <3> QED
      BY <2>5, <3>1
  <2> QED
    BY <2>1, <2>4, <2>5
<1>4. \A t : t \in Stakes(CurrentInfos(s))
              <=> \E v \in s : IsKey(v.signer) /\ t = <<v.node, v.weight>>
  <2> DEFINE InfoOf(v) == [node |-> v.node, weight |-> v.weight,
                           key |-> IF IsKey(v.signer) THEN v.signer ELSE NoKey]
  <2> SUFFICES ASSUME NEW t
               PROVE  t \in Stakes(CurrentInfos(s))
                        <=> \E v \in s : IsKey(v.signer) /\ t = <<v.node, v.weight>>
    OBVIOUS
  <2>1. t \in Stakes(CurrentInfos(s))
          <=> \E i \in CurrentInfos(s) : IsKey(i.key) /\ t = <<i.node, i.weight>>
    BY DEF Stakes, Keyed
  <2>2. /\ \A v \in s : InfoOf(v) \in CurrentInfos(s)
        /\ \A i \in CurrentInfos(s) : \E v \in s : i = InfoOf(v)
    BY DEF CurrentInfos, ExtractBLSKeyBytes
  <2>4. ASSUME NEW v \in s, IsKey(v.signer), t = <<v.node, v.weight>>
        PROVE  t \in Stakes(CurrentInfos(s))
    <3>1. InfoOf(v) \in CurrentInfos(s) /\ IsKey(InfoOf(v).key)
      BY <2>2, <2>4
    <3>2. t = <<InfoOf(v).node, InfoOf(v).weight>>
      BY <2>4
    <3> QED
      BY <2>1, <3>1, <3>2
  <2>5. ASSUME NEW i \in CurrentInfos(s), IsKey(i.key), t = <<i.node, i.weight>>
        PROVE  \E v \in s : IsKey(v.signer) /\ t = <<v.node, v.weight>>
    <3>1. PICK v \in s : i = InfoOf(v)
      BY <2>2
    <3>2. IsKey(v.signer) /\ t = <<v.node, v.weight>>
      BY <1>2, <2>5, <3>1
    <3> QED
      BY <3>2
  <2> QED
    BY <2>1, <2>4, <2>5
<1>5. \A t : t \in Stakes(CurrentInfos(s)) <=> t \in Stakes(RegisteredInfos(s))
  BY <1>1, <1>3, <1>4
<1> QED
  BY <1>5

(* set.go 39-73: a canonical set consists of validators of the reply, and   *)
(* there is one unless a key does not decode.                              *)
LEMMA CanonicalSetType ==
  ASSUME NEW h \in UInt64, NEW infos, infos \subseteq Infos, IsFiniteSet(infos),
         NEW vs \in FromValidatorInfos(h, infos)
  PROVE  /\ vs \in ValidatorSets \cup {Nil}
         /\ (\A v \in infos : v.key # BadKey) => vs \in ValidatorSets
<1> DEFINE S == {v \in infos : v.key # NoKey}
<1>1. CASE \E v \in infos : v.key = BadKey
  BY <1>1 DEF FromValidatorInfos
<1>2. CASE ~ \E v \in infos : v.key = BadKey
  <2>1. PICK vals \in SetToSeqs(S) : vs = [height |-> h, vals |-> vals]
    BY <1>2 DEF FromValidatorInfos
  <2>2. IsFiniteSet(S)
    BY FS_Subset
  <2>3. Cardinality(S) \in Nat
    BY <2>2, FS_CardinalityType
  <2>4. vals \in [1 .. Cardinality(S) -> S]
    BY <2>1 DEF SetToSeqs
  <2>5. vals \in Seq(Infos)
    BY <2>3, <2>4
  <2> QED
    BY <2>1, <2>5 DEF ValidatorSets
<1> QED
  BY <1>1, <1>2

LEMMA ResultType ==
  ASSUME NEW category \in Categories, NEW passed \in BOOLEAN, NEW says \in Says
  PROVE  /\ Critical(category, passed, says) \in CheckResults
         /\ Warning(category, passed, says) \in CheckResults
BY DEF Critical, Warning, CheckResults

(* verifier.go 44-133: a verdict is one of two.                            *)
LEMMA VerifyType ==
  ASSUME NEW msg, NEW signers, NEW sig, NEW keys, NEW weights, NEW total, NEW num, NEW den
  PROVE  Verify(msg, signers, sig, keys, weights, total, num, den).valid \in BOOLEAN
<1> DEFINE signing == SignerIndices(signers, Len(keys))
           signed  == AccumulateWeight(signers, weights)
           met     == MeetsQuorum(signed, total, num, den)
           result  == [valid |-> met, signedWeight |-> signed, quorumMet |-> met, error |-> Nil]
           v       == Verify(msg, signers, sig, keys, weights, total, num, den)
<1>1. \/ v = Refused(0, FALSE, "lengths differ")
      \/ v = Refused(0, FALSE, "signature does not parse")
      \/ v = Refused(signed, FALSE, "signer without a key")
      \/ v = Refused(signed, FALSE, "no signers")
      \/ v = Refused(signed, met, "invalid signature")
      \/ v = result
  <2> DEFINE bag == [k \in {keys[i + 1] : i \in signing} |->
                       Cardinality({i \in signing : keys[i + 1] = k})]
             verifies == AggregateVerifies(sig, msg, bag)
             keyless  == \E i \in signing : ~IsKey(keys[i + 1])
  <2>1. v = IF Len(keys) # Len(weights) THEN Refused(0, FALSE, "lengths differ")
            ELSE IF sig = Nil THEN Refused(0, FALSE, "signature does not parse")
            ELSE IF keyless THEN Refused(signed, FALSE, "signer without a key")
            ELSE IF signing = {} THEN Refused(signed, FALSE, "no signers")
            ELSE IF ~verifies THEN Refused(signed, met, "invalid signature")
            ELSE result
    BY Zenon DEF Verify
  <2> HIDE DEF v, signing, verifies, keyless, signed, met, result
  <2> QED
    BY <2>1
<1>2. met \in BOOLEAN /\ result.valid = met
  BY DEF MeetsQuorum
<1> HIDE DEF v, result, met
<1>3. v.valid = FALSE \/ v = result
  <2>1. \A w, q, e : Refused(w, q, e).valid = FALSE
    BY DEF Refused
  <2> QED
    BY <1>1, <2>1, Zenon
<1> QED
  BY <1>2, <1>3 DEF v

(* checks.go 38-313: the seven results are well-formed.                    *)
LEMMA ChecksType ==
  ASSUME NEW i
  PROVE  /\ RunChecks(i) \in Seq(CheckResults)
         /\ Len(RunChecks(i)) = 7
<1>2. CheckNetworkID(i) \in CheckResults
  BY DEF CheckNetworkID, Critical, CheckResults, Categories, Says
<1>3. CheckRelayerPickup(i) \in CheckResults
  BY DEF CheckRelayerPickup, Critical, CheckResults, Categories, Says
<1>4. CheckDestinationExecution(i) \in CheckResults
  BY DEF CheckDestinationExecution, Critical, CheckResults, Categories, Says
<1>5. CheckStakeWeight(i) \in CheckResults
  BY DEF CheckStakeWeight, CheckThreshold, MeetsQuorum, Warning, CheckResults, Categories, Says
<1>6. CheckValidatorSetChanged(i) \in CheckResults
  BY DEF CheckValidatorSetChanged, Warning, CheckResults, Categories, Says
<1>7. CheckBLSSignature(i) \in CheckResults
  <2>1. PICK valid \in BOOLEAN, says \in {"skipped", "valid", "invalid"} :
          CheckBLSSignature(i) = Critical("BLS_VERIFICATION_FAILED", valid, says)
    BY VerifyType DEF CheckBLSSignature
  <2> QED
    BY <2>1, ResultType DEF Categories, Says
<1>8. CheckEpochBoundary(i) \in CheckResults
  BY DEF CheckEpochBoundary, Warning, CheckResults, Categories, Says
<1> QED
  BY <1>2, <1>3, <1>4, <1>5, <1>6, <1>7, <1>8 DEF RunChecks

(* report.go 77-88, engine.go 181-189: the first of some of the checks.    *)
LEMMA FirstOfSome ==
  ASSUME NEW checks \in Seq(CheckResults), Len(checks) = 7,
         NEW hits, hits \subseteq DOMAIN checks, hits # {}
  PROVE  \E k \in hits : /\ FirstOf(checks, hits) = checks[k].category
                        /\ checks[k].category \in Categories
                        /\ \A j \in hits : k <= j
<1> DEFINE k == Min(hits)
<1>1. hits \subseteq Nat
  OBVIOUS
<1>2. k \in hits /\ \A j \in hits : k <= j
  BY <1>1, LeastNatural
<1>3. FirstOf(checks, hits) = checks[k].category
  BY DEF FirstOf
<1> HIDE DEF k
<1>4. checks[k].category \in Categories
  <2>1. k \in 1 .. Len(checks)
    BY <1>2
  <2>2. checks[k] \in CheckResults
    BY <2>1, ElementOfSeq
  <2> QED
    BY <2>2 DEF CheckResults
<1> QED
  BY <1>2, <1>3, <1>4

LEMMA ReportType ==
  ASSUME NEW i \in Inputs
  PROVE  Report(RunChecks(i)) \in Reports
<1> DEFINE checks == RunChecks(i)
<1>1. checks \in Seq(CheckResults) /\ Len(checks) = 7
  BY ChecksType
<1> HIDE DEF checks
<1>2. /\ FailedChecks(checks) \subseteq DOMAIN checks
      /\ CriticalFailures(checks) \subseteq DOMAIN checks
  BY DEF FailedChecks, CriticalFailures
<1>3. RootCause(checks) \in Categories \cup {"HEALTHY"}
  BY <1>1, <1>2, FirstOfSome DEF RootCause
<1>4. BuildSummary(checks, RootCause(checks) = "HEALTHY") \in Summaries
  BY <1>1, <1>2, FirstOfSome DEF BuildSummary, Summaries
<1> QED
  BY <1>1, <1>3, <1>4 DEF Report, Reports, Verdicts, checks

(* evm.go 97-111: what a log search returns.                               *)
LEMMA EarliestType ==
  ASSUME NEW ls, NEW l \in Earliest(ls)
  PROVE  l \in ls \cup {Nil} /\ (ls # {} => l \in ls)
BY DEF Earliest

-----------------------------------------------------------------------------
(* Canonical sets and their difference.                                    *)

(* set.go 39-73: a canonical set holds every validator of the reply that   *)
(* has a key, once, and its keys do not decrease.                          *)
LEMMA CanonicalSet ==
  ASSUME NEW h, NEW infos, IsFiniteSet(infos),
         NEW vs \in FromValidatorInfos(h, infos), vs # Nil
  PROVE  /\ vs.height = h
         /\ IsFiniteSet(Keyed(infos))
         /\ Len(vs.vals) \in Nat /\ DOMAIN vs.vals = 1 .. Len(vs.vals)
         /\ Len(vs.vals) = Cardinality(Keyed(infos))
         /\ \A i \in DOMAIN vs.vals : vs.vals[i] \in infos /\ IsKey(vs.vals[i].key)
         /\ \A v \in infos : IsKey(v.key) => \E i \in DOMAIN vs.vals : vs.vals[i] = v
         /\ \A i, j \in DOMAIN vs.vals : i # j => vs.vals[i] # vs.vals[j]
         /\ KeyOrdered(vs.vals)
<1> DEFINE K == {v \in infos : v.key # NoKey}
           D == 1 .. Cardinality(K)
<1>1. \A v \in infos : v.key # BadKey
  BY DEF FromValidatorInfos
<1>2. PICK vals \in SetToSeqs(K) : vs = [height |-> h, vals |-> vals] /\ KeyOrdered(vals)
  BY DEF FromValidatorInfos
<1>3. K = Keyed(infos)
  BY <1>1 DEF IsKey, Keyed
<1>4. IsFiniteSet(K) /\ Cardinality(K) \in Nat
  BY FS_Subset, FS_CardinalityType
<1>5. vals \in [D -> K] /\ \A i, j \in D : i # j => vals[i] # vals[j]
  BY <1>2 DEF SetToSeqs
<1> HIDE DEF K
<1>6. vals \in Surjection(D, K)
  <2>1. vals \in Injection(D, K)
    BY <1>5, Fun_IsInj
  <2>2. IsFiniteSet(D) /\ Cardinality(D) = Cardinality(K)
    <3>1. Cardinality(D) = IF 1 > Cardinality(K) THEN 0 ELSE Cardinality(K) - 1 + 1
      BY <1>4, FS_Interval
    <3> QED
      BY <1>4, <3>1, FS_Interval
  <2> QED
    BY <1>4, <2>1, <2>2, FS_Injection
<1>7. \A v \in K : \E i \in D : vals[i] = v
  BY <1>6 DEF Surjection
<1>8. vals \in Seq(K) /\ Len(vals) = Cardinality(K) /\ DOMAIN vals = D
  BY <1>4, <1>5
<1>9. vs.height = h /\ vs.vals = vals
  BY <1>2
<1>10. \A v : v \in K <=> v \in infos /\ IsKey(v.key)
  BY <1>3 DEF Keyed
<1>11. \A i \in D : vals[i] \in K
  BY <1>5
<1> HIDE DEF D
<1> QED
  BY <1>2, <1>3, <1>4, <1>5, <1>7, <1>8, <1>9, <1>10, <1>11 DEF D

(* A node occurs in a canonical set with the stake of the reply.           *)
LEMMA CanonicalStakes ==
  ASSUME NEW h, NEW infos, IsFiniteSet(infos), \A v, w \in infos : v.node = w.node => v = w,
         NEW vs \in FromValidatorInfos(h, infos), vs # Nil
  PROVE  /\ \A n : n \in NodesOf(vs) <=> \E v \in infos : IsKey(v.key) /\ v.node = n
         /\ \A v \in infos : IsKey(v.key) => WeightIn(vs, v.node) = v.weight
<1>1. /\ \A i \in DOMAIN vs.vals : vs.vals[i] \in infos /\ IsKey(vs.vals[i].key)
      /\ \A v \in infos : IsKey(v.key) => \E i \in DOMAIN vs.vals : vs.vals[i] = v
  BY CanonicalSet
<1>2. ASSUME NEW v \in infos, IsKey(v.key) PROVE WeightIn(vs, v.node) = v.weight
  <2> DEFINE i == CHOOSE i \in DOMAIN vs.vals : vs.vals[i].node = v.node
  <2>1. i \in DOMAIN vs.vals /\ vs.vals[i].node = v.node
    BY <1>1, <1>2
  <2>2. WeightIn(vs, v.node) = vs.vals[i].weight
    BY DEF WeightIn
  <2> HIDE DEF i
  <2>3. vs.vals[i] = v
    BY <1>1, <2>1
  <2> QED
    BY <2>2, <2>3
<1>3. \A n : n \in NodesOf(vs) <=> \E v \in infos : IsKey(v.key) /\ v.node = n
  BY <1>1 DEF NodesOf
<1> QED
  BY <1>2, <1>3

(* diff.go 33-79: two sets have an empty difference exactly when the same  *)
(* validators can sign, with the same stakes.                              *)
THEOREM EmptyDiffMeansSameStakes ==
  ASSUME NEW h, NEW k, NEW S, IsFiniteSet(S), \A v, w \in S : v.node = w.node => v = w,
         NEW T, IsFiniteSet(T), \A v, w \in T : v.node = w.node => v = w,
         NEW a \in FromValidatorInfos(h, S), a # Nil,
         NEW b \in FromValidatorInfos(k, T), b # Nil
  PROVE  IsEmpty(Diff(a, b)) <=> Stakes(S) = Stakes(T)
<1>1. /\ \A n : n \in NodesOf(a) <=> \E v \in S : IsKey(v.key) /\ v.node = n
      /\ \A v \in S : IsKey(v.key) => WeightIn(a, v.node) = v.weight
  BY CanonicalStakes
<1>2. /\ \A n : n \in NodesOf(b) <=> \E v \in T : IsKey(v.key) /\ v.node = n
      /\ \A v \in T : IsKey(v.key) => WeightIn(b, v.node) = v.weight
  BY CanonicalStakes
<1>3. IsEmpty(Diff(a, b)) <=> /\ NodesOf(a) = NodesOf(b)
                             /\ \A n \in NodesOf(a) : WeightIn(a, n) = WeightIn(b, n)
  <2>1. /\ Diff(a, b).added = NodesOf(b) \ NodesOf(a)
        /\ Diff(a, b).removed = NodesOf(a) \ NodesOf(b)
        /\ Diff(a, b).changed = {n \in NodesOf(a) \cap NodesOf(b) :
                                   WeightIn(a, n) # WeightIn(b, n)}
    BY DEF Diff
  <2> QED
    BY <2>1 DEF IsEmpty
<1>4. \A s : s \in Stakes(S) <=> \E v \in S : IsKey(v.key) /\ s = <<v.node, v.weight>>
  BY DEF Stakes, Keyed
<1>5. \A s : s \in Stakes(T) <=> \E v \in T : IsKey(v.key) /\ s = <<v.node, v.weight>>
  BY DEF Stakes, Keyed
<1>6. ASSUME IsEmpty(Diff(a, b)) PROVE Stakes(S) = Stakes(T)
  <2>1. ASSUME NEW s \in Stakes(S) PROVE s \in Stakes(T)
    <3>1. PICK v \in S : IsKey(v.key) /\ s = <<v.node, v.weight>>
      BY <1>4
    <3>2. PICK w \in T : IsKey(w.key) /\ w.node = v.node
      BY <1>1, <1>2, <1>3, <1>6, <3>1
    <3>3. w.weight = v.weight
      BY <1>1, <1>2, <1>3, <1>6, <3>1, <3>2
    <3> QED
      BY <1>5, <3>1, <3>2, <3>3
  <2>2. ASSUME NEW s \in Stakes(T) PROVE s \in Stakes(S)
    <3>1. PICK w \in T : IsKey(w.key) /\ s = <<w.node, w.weight>>
      BY <1>5
    <3>2. PICK v \in S : IsKey(v.key) /\ v.node = w.node
      BY <1>1, <1>2, <1>3, <1>6, <3>1
    <3>3. w.weight = v.weight
      BY <1>1, <1>2, <1>3, <1>6, <3>1, <3>2
    <3> QED
      BY <1>4, <3>1, <3>2, <3>3
  <2> QED
    BY <2>1, <2>2
<1>7. ASSUME Stakes(S) = Stakes(T) PROVE IsEmpty(Diff(a, b))
  <2>1. ASSUME NEW v \in S, IsKey(v.key)
        PROVE  \E w \in T : IsKey(w.key) /\ w.node = v.node /\ w.weight = v.weight
    <3>1. <<v.node, v.weight>> \in Stakes(T)
      BY <1>4, <1>7, <2>1
    <3>2. PICK w \in T : IsKey(w.key) /\ <<v.node, v.weight>> = <<w.node, w.weight>>
      BY <1>5, <3>1
    <3> QED
      BY <3>2
  <2>2. ASSUME NEW w \in T, IsKey(w.key)
        PROVE  \E v \in S : IsKey(v.key) /\ v.node = w.node
    <3>1. <<w.node, w.weight>> \in Stakes(S)
      BY <1>5, <1>7, <2>2
    <3>2. PICK v \in S : IsKey(v.key) /\ <<w.node, w.weight>> = <<v.node, v.weight>>
      BY <1>4, <3>1
    <3> QED
      BY <3>2
  <2>3. NodesOf(a) = NodesOf(b)
    <3>1. \A n : n \in NodesOf(a) <=> n \in NodesOf(b)
      <4> SUFFICES ASSUME NEW n PROVE n \in NodesOf(a) <=> n \in NodesOf(b)
        OBVIOUS
      <4>1. ASSUME n \in NodesOf(a) PROVE n \in NodesOf(b)
        BY <1>1, <1>2, <2>1, <4>1
      <4>2. ASSUME n \in NodesOf(b) PROVE n \in NodesOf(a)
        BY <1>1, <1>2, <2>2, <4>2
      <4> QED
        BY <4>1, <4>2
    <3> QED
      BY <3>1
  <2>4. ASSUME NEW n \in NodesOf(a) PROVE WeightIn(a, n) = WeightIn(b, n)
    <3>1. PICK v \in S : IsKey(v.key) /\ v.node = n
      BY <1>1
    <3>2. PICK w \in T : IsKey(w.key) /\ w.node = v.node /\ w.weight = v.weight
      BY <2>1, <3>1
    <3> QED
      BY <1>1, <1>2, <3>1, <3>2
  <2> QED
    BY <1>3, <2>3, <2>4
<1> QED
  BY <1>6, <1>7

-----------------------------------------------------------------------------
(* The seven checks, seen from the report.                                 *)

(* Four checks can fail critically, and when three of them do is seen from  *)
(* a field of the input.                                                   *)
LEMMA CriticalOnes ==
  ASSUME NEW i
  PROVE  /\ CriticalFailures(RunChecks(i)) \subseteq {1, 2, 3, 6}
         /\ CriticalFailures(RunChecks(i)) \subseteq FailedChecks(RunChecks(i))
         /\ FailedChecks(RunChecks(i)) \cap {1, 2, 3, 6} \subseteq CriticalFailures(RunChecks(i))
         /\ FailedChecks(RunChecks(i)) \subseteq 1 .. 7
         /\ 1 \in CriticalFailures(RunChecks(i))
              <=> i.sendEvent.network \notin {Nil, i.expected}
         /\ 2 \in CriticalFailures(RunChecks(i)) <=> i.receive = Nil
         /\ 3 \in CriticalFailures(RunChecks(i)) <=> i.execFailed # Nil
         /\ 6 \in CriticalFailures(RunChecks(i)) <=> ~CheckBLSSignature(i).passed
<1> DEFINE checks == RunChecks(i)
<1>1. DOMAIN checks = 1 .. 7
  BY ChecksType
<1>2. /\ checks[1] = CheckNetworkID(i)
      /\ checks[2] = CheckRelayerPickup(i)
      /\ checks[3] = CheckDestinationExecution(i)
      /\ checks[4] = CheckStakeWeight(i)
      /\ checks[5] = CheckValidatorSetChanged(i)
      /\ checks[6] = CheckBLSSignature(i)
      /\ checks[7] = CheckEpochBoundary(i)
  BY DEF RunChecks
<1>3. /\ CheckNetworkID(i).critical
      /\ CheckNetworkID(i).passed <=> i.sendEvent.network \in {Nil, i.expected}
  BY DEF CheckNetworkID, Critical
<1>4. CheckRelayerPickup(i).critical /\ CheckRelayerPickup(i).passed = (i.receive # Nil)
  BY DEF CheckRelayerPickup, Critical
<1>5. /\ CheckDestinationExecution(i).critical
      /\ CheckDestinationExecution(i).passed = ~(i.execFailed # Nil)
  BY DEF CheckDestinationExecution, Critical
<1>6. ~CheckStakeWeight(i).critical
  BY DEF CheckStakeWeight, Warning
<1>7. ~CheckValidatorSetChanged(i).critical
  BY DEF CheckValidatorSetChanged, Warning
<1>8. CheckBLSSignature(i).critical
  <2>1. \A passed, says : Critical("BLS_VERIFICATION_FAILED", passed, says).critical
    BY DEF Critical
  <2> QED
    BY <2>1 DEF CheckBLSSignature
<1>9. ~CheckEpochBoundary(i).critical
  BY DEF CheckEpochBoundary, Warning
<1>10. FailedChecks(checks) = {k \in 1 .. 7 : ~checks[k].passed}
  BY <1>1 DEF FailedChecks
<1>11. CriticalFailures(checks) = {k \in FailedChecks(checks) : checks[k].critical}
  BY DEF CriticalFailures
<1> HIDE DEF checks
<1>12. CriticalFailures(checks) \subseteq {1, 2, 3, 6}
  <2> SUFFICES ASSUME NEW k \in CriticalFailures(checks) PROVE k \in {1, 2, 3, 6}
    OBVIOUS
  <2>1. k \in 1 .. 7 /\ ~checks[k].passed /\ checks[k].critical
    BY <1>10, <1>11
  <2> QED
    BY <1>2, <1>6, <1>7, <1>9, <2>1
<1>13. \A k \in 1 .. 7 : k \in CriticalFailures(checks)
                            <=> ~checks[k].passed /\ checks[k].critical
  BY <1>10, <1>11
<1>14. 1 \in 1 .. 7 /\ 2 \in 1 .. 7 /\ 3 \in 1 .. 7 /\ 6 \in 1 .. 7
  OBVIOUS
<1>15. 1 \in CriticalFailures(checks) <=> i.sendEvent.network \notin {Nil, i.expected}
  BY <1>2, <1>3, <1>13, <1>14
<1>16. 2 \in CriticalFailures(checks) <=> i.receive = Nil
  BY <1>2, <1>4, <1>13, <1>14
<1>17. 3 \in CriticalFailures(checks) <=> i.execFailed # Nil
  BY <1>2, <1>5, <1>13, <1>14
<1>18. 6 \in CriticalFailures(checks) <=> ~CheckBLSSignature(i).passed
  BY <1>2, <1>8, <1>13, <1>14
<1>19. FailedChecks(checks) \cap {1, 2, 3, 6} \subseteq CriticalFailures(checks)
  BY <1>2, <1>3, <1>4, <1>5, <1>8, <1>10, <1>11
<1> QED
  BY <1>10, <1>11, <1>12, <1>15, <1>16, <1>17, <1>18, <1>19 DEF checks

(* Without a signature its check is skipped.                               *)
LEMMA UnsignedPasses ==
  ASSUME NEW i, i.signature = Nil
  PROVE  CheckBLSSignature(i).passed
BY DEF CheckBLSSignature, Critical

(* engine.go 180-190: the root cause, as a decision.                       *)
LEMMA RootCauseOf ==
  ASSUME NEW i, i.signature = Nil
  PROVE  RootCause(RunChecks(i)) =
           IF i.sendEvent.network \notin {Nil, i.expected} THEN "INVALID_NETWORK_ID"
           ELSE IF i.receive = Nil THEN "RELAYER_NEVER_PICKED_UP"
           ELSE IF i.execFailed # Nil THEN "DESTINATION_EXECUTION_FAILED"
           ELSE "HEALTHY"
<1> DEFINE checks == RunChecks(i)
           hits   == CriticalFailures(checks)
<1>1. /\ checks[1].category = "INVALID_NETWORK_ID"
      /\ checks[2].category = "RELAYER_NEVER_PICKED_UP"
      /\ checks[3].category = "DESTINATION_EXECUTION_FAILED"
  BY DEF RunChecks, CheckNetworkID, CheckRelayerPickup, CheckDestinationExecution, Critical
<1>2. checks \in Seq(CheckResults) /\ Len(checks) = 7
  BY ChecksType
<1>3. /\ hits \subseteq {1, 2, 3}
      /\ 1 \in hits <=> i.sendEvent.network \notin {Nil, i.expected}
      /\ 2 \in hits <=> i.receive = Nil
      /\ 3 \in hits <=> i.execFailed # Nil
  BY CriticalOnes, UnsignedPasses
<1>4. RootCause(checks) = IF hits = {} THEN "HEALTHY" ELSE FirstOf(checks, hits)
  BY DEF RootCause
<1> HIDE DEF checks, hits
<1>5. CASE hits = {}
  BY <1>3, <1>4, <1>5 DEF checks
<1>6. CASE hits # {}
  <2>1. hits \subseteq DOMAIN checks
    BY <1>2, <1>3
  <2>2. PICK k \in hits : FirstOf(checks, hits) = checks[k].category /\ \A j \in hits : k <= j
    BY <1>2, <1>6, <2>1, FirstOfSome
  <2>3. RootCause(checks) = checks[k].category
    BY <1>4, <1>6, <2>2
  <2>4. CASE k = 1
    BY <1>1, <1>3, <2>2, <2>3, <2>4 DEF checks
  <2>5. CASE k = 2
    BY <1>1, <1>3, <2>2, <2>3, <2>5 DEF checks
  <2>6. CASE k = 3
    BY <1>1, <1>3, <2>2, <2>3, <2>6 DEF checks
  <2> QED
    BY <1>3, <2>2, <2>4, <2>5, <2>6
<1> QED
  BY <1>5, <1>6

(* report.go 86-87: the first failed check is the first critical one,      *)
(* unless that is the signature's and a warning comes before it.           *)
LEMMA SummaryIs ==
  ASSUME NEW i, RootCause(RunChecks(i)) # "HEALTHY",
         BuildSummary(RunChecks(i), FALSE) # RootCause(RunChecks(i))
  PROVE  /\ RootCause(RunChecks(i)) = "BLS_VERIFICATION_FAILED"
         /\ BuildSummary(RunChecks(i), FALSE)
              \in {"INSUFFICIENT_STAKE_WEIGHT", "VALIDATOR_SET_CHANGED"}
         /\ ~CheckBLSSignature(i).passed
<1> DEFINE checks == RunChecks(i)
           failed == FailedChecks(checks)
           hits   == CriticalFailures(checks)
<1>1. checks \in Seq(CheckResults) /\ DOMAIN checks = 1 .. 7
  BY ChecksType
<1>2. /\ hits \subseteq {1, 2, 3, 6} /\ hits \subseteq failed
      /\ failed \cap {1, 2, 3, 6} \subseteq hits /\ failed \subseteq 1 .. 7
      /\ 6 \in hits <=> ~CheckBLSSignature(i).passed
  BY CriticalOnes
<1>3. hits # {} /\ RootCause(checks) = FirstOf(checks, hits)
  BY DEF RootCause
<1>4. BuildSummary(checks, FALSE) = IF failed = {} THEN "inconclusive" ELSE FirstOf(checks, failed)
  BY DEF BuildSummary
<1>5. /\ checks[4].category = "INSUFFICIENT_STAKE_WEIGHT"
      /\ checks[5].category = "VALIDATOR_SET_CHANGED"
      /\ checks[6].category = "BLS_VERIFICATION_FAILED"
  <2>1. CheckStakeWeight(i).category = "INSUFFICIENT_STAKE_WEIGHT"
    BY DEF CheckStakeWeight, Warning
  <2>2. CheckValidatorSetChanged(i).category = "VALIDATOR_SET_CHANGED"
    BY DEF CheckValidatorSetChanged, Warning
  <2>3. CheckBLSSignature(i).category = "BLS_VERIFICATION_FAILED"
    BY DEF CheckBLSSignature, Critical
  <2> QED
    BY <2>1, <2>2, <2>3 DEF RunChecks
<1> HIDE DEF checks, failed, hits
<1>6. failed # {} /\ failed \subseteq DOMAIN checks /\ hits \subseteq DOMAIN checks
  BY <1>1, <1>2, <1>3
<1>7. PICK k \in hits : FirstOf(checks, hits) = checks[k].category /\ \A j \in hits : k <= j
  BY <1>1, <1>3, <1>6, FirstOfSome
<1>8. PICK f \in failed : FirstOf(checks, failed) = checks[f].category /\ \A j \in failed : f <= j
  BY <1>1, <1>6, FirstOfSome
<1>9. f <= k /\ k \in {1, 2, 3, 6} /\ f \in 1 .. 7
  BY <1>2, <1>7, <1>8
<1>10. f # k
  BY <1>3, <1>4, <1>6, <1>7, <1>8 DEF checks
<1>11. f \notin hits
  BY <1>7, <1>9, <1>10
<1>12. f \notin {1, 2, 3, 6}
  BY <1>2, <1>8, <1>11
<1>13. f \in {4, 5} /\ k = 6
  BY <1>9, <1>12
<1> QED
  BY <1>2, <1>3, <1>4, <1>5, <1>6, <1>7, <1>8, <1>13 DEF checks

LEMMA SummaryOf ==
  ASSUME NEW i, i.signature = Nil, RootCause(RunChecks(i)) # "HEALTHY"
  PROVE  BuildSummary(RunChecks(i), FALSE) = RootCause(RunChecks(i))
BY SummaryIs, UnsignedPasses

(* engine.go 181-189: a failed critical check makes a report unhealthy.    *)
LEMMA HealthyChecks ==
  ASSUME NEW i \in Inputs, RootCause(RunChecks(i)) = "HEALTHY"
  PROVE  i.receive # Nil /\ i.execFailed = Nil
<1> DEFINE checks == RunChecks(i)
<1>1. checks \in Seq(CheckResults) /\ Len(checks) = 7
  BY ChecksType
<1>2. checks[2] = CheckRelayerPickup(i) /\ checks[3] = CheckDestinationExecution(i)
  BY DEF RunChecks
<1> HIDE DEF checks
<1>3. CriticalFailures(checks) = {}
  <2> SUFFICES ASSUME CriticalFailures(checks) # {} PROVE FALSE
    OBVIOUS
  <2>1. CriticalFailures(checks) \subseteq DOMAIN checks
    BY DEF CriticalFailures, FailedChecks
  <2>2. FirstOf(checks, CriticalFailures(checks)) \in Categories
    BY <1>1, <2>1, FirstOfSome
  <2> QED
    BY <2>2 DEF RootCause, Categories, checks
<1>4. 2 \notin CriticalFailures(checks) /\ 3 \notin CriticalFailures(checks)
  BY <1>3
<1>5. /\ checks[2].passed \/ ~checks[2].critical
      /\ checks[3].passed \/ ~checks[3].critical
  BY <1>1, <1>4 DEF CriticalFailures, FailedChecks
<1>6. /\ CheckRelayerPickup(i).critical
      /\ CheckRelayerPickup(i).passed = (i.receive # Nil)
  BY DEF CheckRelayerPickup, Critical
<1>7. /\ CheckDestinationExecution(i).critical
      /\ CheckDestinationExecution(i).passed = ~(i.execFailed # Nil)
  BY DEF CheckDestinationExecution, Critical
<1> QED
  BY <1>2, <1>5, <1>6, <1>7

(* A check of the report is found by its category.                         *)
LEMMA CheckFound ==
  ASSUME NEW i
  PROVE  /\ CheckFor(Report(RunChecks(i)), "EPOCH_BOUNDARY_RACE") = CheckEpochBoundary(i)
         /\ CheckFor(Report(RunChecks(i)), "VALIDATOR_SET_CHANGED") = CheckValidatorSetChanged(i)
         /\ CheckFor(Report(RunChecks(i)), "INSUFFICIENT_STAKE_WEIGHT") = CheckStakeWeight(i)
         /\ CheckFor(Report(RunChecks(i)), "BLS_VERIFICATION_FAILED") = CheckBLSSignature(i)
<1> DEFINE results == ToSet(RunChecks(i))
<1>1. results = {CheckNetworkID(i), CheckRelayerPickup(i), CheckDestinationExecution(i),
                 CheckStakeWeight(i), CheckValidatorSetChanged(i), CheckBLSSignature(i),
                 CheckEpochBoundary(i)}
  <2>1. DOMAIN RunChecks(i) = 1 .. 7
    BY ChecksType
  <2>2. results = {RunChecks(i)[k] : k \in 1 .. 7}
    BY <2>1 DEF ToSet
  <2> QED
    BY <2>2 DEF RunChecks
<1>2. /\ CheckNetworkID(i).category = "INVALID_NETWORK_ID"
      /\ CheckRelayerPickup(i).category = "RELAYER_NEVER_PICKED_UP"
      /\ CheckDestinationExecution(i).category = "DESTINATION_EXECUTION_FAILED"
  BY DEF CheckNetworkID, CheckRelayerPickup, CheckDestinationExecution, Critical
<1>3. CheckStakeWeight(i).category = "INSUFFICIENT_STAKE_WEIGHT"
  BY DEF CheckStakeWeight, Warning
<1>4. CheckValidatorSetChanged(i).category = "VALIDATOR_SET_CHANGED"
  BY DEF CheckValidatorSetChanged, Warning
<1>5. CheckBLSSignature(i).category = "BLS_VERIFICATION_FAILED"
  BY DEF CheckBLSSignature, Critical
<1>6. CheckEpochBoundary(i).category = "EPOCH_BOUNDARY_RACE"
  BY DEF CheckEpochBoundary, Warning
<1>7. Report(RunChecks(i)).checks = RunChecks(i)
  BY DEF Report
<1> HIDE DEF results
<1>8. /\ \A c \in results : c.category = "EPOCH_BOUNDARY_RACE" <=> c = CheckEpochBoundary(i)
      /\ \A c \in results : c.category = "VALIDATOR_SET_CHANGED" <=> c = CheckValidatorSetChanged(i)
      /\ \A c \in results : c.category = "INSUFFICIENT_STAKE_WEIGHT" <=> c = CheckStakeWeight(i)
      /\ \A c \in results : c.category = "BLS_VERIFICATION_FAILED" <=> c = CheckBLSSignature(i)
  BY <1>1, <1>2, <1>3, <1>4, <1>5, <1>6
<1>9. {CheckEpochBoundary(i), CheckValidatorSetChanged(i), CheckStakeWeight(i),
       CheckBLSSignature(i)} \subseteq results
  BY <1>1
<1>10. \A category : CheckFor(Report(RunChecks(i)), category)
                       = CHOOSE c \in results : c.category = category
  BY <1>7 DEF CheckFor, results
<1> QED
  BY <1>3, <1>4, <1>5, <1>6, <1>8, <1>9, <1>10
==============================================================================
