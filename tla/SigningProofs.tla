---------------------------- MODULE SigningProofs ----------------------------
(***************************************************************************)
(* Signing for every value of the constants: the bitset, the canonical     *)
(* order and the verdict on a signature as operators, and what SigningSpec *)
(* keeps while the P-Chain moves on and the engine goes from call to call. *)
(***************************************************************************)
EXTENDS Signing, VerdictProofs

-----------------------------------------------------------------------------
(* The bitset.                                                             *)

LEMMA Division ==
  ASSUME NEW i \in Nat, NEW b \in Nat \ {0}
  PROVE  /\ i \div b \in Nat
         /\ i % b \in 0 .. b - 1
         /\ (i \div b) * b + (i % b) = i
         /\ \A m \in Nat : i <= m => i \div b <= m \div b
<1>1. i \div b \in Nat
  OBVIOUS
<1>2. i % b \in 0 .. b - 1
  OBVIOUS
<1>3. (i \div b) * b + (i % b) = i
  OBVIOUS
<1>4. ASSUME NEW m \in Nat, i <= m PROVE i \div b <= m \div b
  BY <1>4, SMTT(30)
<1> QED
  BY <1>1, <1>2, <1>3, <1>4

LEMMA BitOfByte ==
  ASSUME NEW i \in Nat
  PROVE  /\ i \div ByteBits \in Nat
         /\ i % ByteBits \in 0 .. ByteBits - 1
         /\ (i \div ByteBits) * ByteBits + (i % ByteBits) = i
         /\ \A m \in Nat : i <= m => i \div ByteBits <= m \div ByteBits
BY ByteBitsAssumption, Division

LEMMA Greatest ==
  ASSUME NEW n \in Nat, NEW P, P \subseteq 0 .. n, P # {}
  PROVE  Max(P) \in P /\ Max(P) \in Nat /\ \A j \in P : j <= Max(P)
<1> DEFINE gaps == {n - j : j \in P}
<1>1. \A j \in P : j \in Nat /\ n - j \in Nat
  OBVIOUS
<1>2. gaps \subseteq Nat /\ gaps # {}
  BY <1>1
<1>3. PICK j \in P : n - j = Min(gaps)
  BY <1>2, LeastNatural
<1>4. \A k \in P : n - j <= n - k
  BY <1>2, <1>3, LeastNatural
<1>5. \A k \in P : j >= k
  BY <1>1, <1>4
<1>6. Max(P) \in P /\ \A k \in P : Max(P) >= k
  BY <1>5 DEF Max
<1> QED
  BY <1>1, <1>6
(* The bytes of a number, from the highest to the lowest.                  *)
LEMMA EncodedBytes ==
  ASSUME NEW n \in Nat, NEW P, P \subseteq 0 .. n
  PROVE  /\ Encode(P) \in Seq(Bytes) /\ Len(Encode(P)) \in Nat
         /\ \A i \in P : i \div ByteBits < Len(Encode(P))
         /\ \A b \in 1 .. Len(Encode(P)), j \in 0 .. ByteBits - 1 :
              j \in Encode(P)[b] <=> (Len(Encode(P)) - b) * ByteBits + j \in P
<1> DEFINE length == IF P = {} THEN 0 ELSE Max(P) \div ByteBits + 1
           byte(b) == {j \in 0 .. ByteBits - 1 : (length - b) * ByteBits + j \in P}
<1>1. length \in Nat /\ \A i \in P : i \div ByteBits < length
  <2>1. CASE P = {}
    BY <2>1
  <2>2. CASE P # {}
    <3> DEFINE m == Max(P)
    <3>1. m \in P /\ m \in Nat /\ \A j \in P : j <= m
      BY <2>2, Greatest
    <3>2. length = m \div ByteBits + 1
      BY <2>2
    <3> HIDE DEF m, length
    <3>3. m \div ByteBits \in Nat
      BY <3>1, BitOfByte
    <3>4. ASSUME NEW i \in P PROVE i \div ByteBits < length
      <4>1. i \in Nat /\ i <= m
        BY <3>1
      <4>2. i \div ByteBits \in Nat /\ i \div ByteBits <= m \div ByteBits
        BY <3>1, <4>1, BitOfByte
      <4> QED
        BY <3>2, <3>3, <4>2
    <3> QED
      BY <3>2, <3>3, <3>4
  <2> QED
    BY <2>1, <2>2
<1>2. Encode(P) = [b \in 1 .. length |-> byte(b)]
  BY DEF Encode
<1> HIDE DEF length
<1>3. \A b \in 1 .. length : byte(b) \in Bytes
  BY DEF Bytes
<1> HIDE DEF byte
<1>4. Encode(P) \in Seq(Bytes) /\ Len(Encode(P)) = length
  BY <1>1, <1>2, <1>3
<1>5. ASSUME NEW b \in 1 .. length, NEW j \in 0 .. ByteBits - 1
      PROVE  j \in Encode(P)[b] <=> (length - b) * ByteBits + j \in P
  BY <1>2, <1>5 DEF byte
<1> QED
  BY <1>1, <1>4, <1>5

(* bitset.go 9-16: IsSet counts the bytes from the front, the relayer from *)
(* the back, so what is read of position i is what was written of the same *)
(* bit of the mirrored byte.  A single byte is its own mirror, and is read *)
(* as it was written.                                                      *)
THEOREM BytesAreMirrored ==
  ASSUME NEW n \in Nat, NEW P, P \subseteq 0 .. n, NEW i \in Nat
  PROVE  /\ IsSet(Encode(P), i)
              <=> /\ i \div ByteBits < Len(Encode(P))
                  /\ (Len(Encode(P)) - 1 - i \div ByteBits) * ByteBits + (i % ByteBits) \in P
         /\ Len(Encode(P)) <= 1 => (IsSet(Encode(P), i) <=> i \in P)
<1> DEFINE q == i \div ByteBits
           r == i % ByteBits
           length == Len(Encode(P))
<1>1. q \in Nat /\ r \in 0 .. ByteBits - 1 /\ q * ByteBits + r = i
  BY BitOfByte
<1>2. /\ length \in Nat /\ (i \in P => q < length)
      /\ \A b \in 1 .. length, j \in 0 .. ByteBits - 1 :
           j \in Encode(P)[b] <=> (length - b) * ByteBits + j \in P
  BY EncodedBytes
<1>3. IsSet(Encode(P), i) <=> q < length /\ r \in Encode(P)[q + 1]
  BY DEF IsSet
<1> HIDE DEF q, r, length
<1>4. q < length => (r \in Encode(P)[q + 1] <=> (length - 1 - q) * ByteBits + r \in P)
  <2> SUFFICES ASSUME q < length
               PROVE  r \in Encode(P)[q + 1] <=> (length - 1 - q) * ByteBits + r \in P
    OBVIOUS
  <2>1. q + 1 \in 1 .. length /\ length - (q + 1) = length - 1 - q
    BY <1>1, <1>2
  <2>2. r \in Encode(P)[q + 1] <=> (length - (q + 1)) * ByteBits + r \in P
    BY <1>1, <1>2, <2>1
  <2> QED
    BY <2>1, <2>2
<1>5. IsSet(Encode(P), i) <=> q < length /\ (length - 1 - q) * ByteBits + r \in P
  BY <1>3, <1>4
<1>6. ASSUME length <= 1 PROVE IsSet(Encode(P), i) <=> i \in P
  <2>1. CASE q < length
    <3>1. q = 0 /\ length - 1 - q = 0
      BY <1>1, <1>2, <1>6, <2>1
    <3>2. (length - 1 - q) * ByteBits + r = i
      BY <1>1, <3>1, ByteBitsAssumption
    <3> QED
      BY <1>5, <2>1, <3>2
  <2>2. CASE ~(q < length)
    BY <1>2, <1>5, <2>2
  <2> QED
    BY <2>1, <2>2
<1> QED
  BY <1>5, <1>6 DEF q, r, length

-----------------------------------------------------------------------------
(* The canonical order.                                                    *)

(* Two orders of n validators by key, each validator of the first being    *)
(* somewhere in the second.                                                *)
Reordered(n, x, y) ==
  /\ \A i \in 1 .. n : x[i].key \in Nat /\ y[i].key \in Nat
  /\ \A i, j \in 1 .. n : i < j => x[i].key <= x[j].key /\ y[i].key <= y[j].key
  /\ \A i \in 1 .. n : \E j \in 1 .. n : y[j] = x[i]
  /\ \A i, j \in 1 .. n : i # j => x[i] # x[j]

(* The first has no smaller key anywhere: the validators up to there would *)
(* have to fit before that place in the second.                            *)
LEMMA NotBelow ==
  ASSUME NEW n \in Nat, NEW x, NEW y, Reordered(n, x, y), NEW p \in 1 .. n
  PROVE  y[p].key <= x[p].key
<1> SUFFICES ASSUME x[p].key < y[p].key PROVE FALSE
  BY DEF Reordered
<1> DEFINE place == [i \in 1 .. p |-> CHOOSE j \in 1 .. n : y[j] = x[i]]
<1>0. p \in Nat /\ p <= n /\ \A i \in 1 .. p : i \in 1 .. n
  OBVIOUS
<1>1. ASSUME NEW i \in 1 .. p PROVE place[i] \in 1 .. n /\ y[place[i]] = x[i]
  <2>1. \E j \in 1 .. n : y[j] = x[i]
    BY <1>0 DEF Reordered
  <2>2. place[i] = CHOOSE j \in 1 .. n : y[j] = x[i]
    OBVIOUS
  <2> QED
    BY <2>1, <2>2
<1> HIDE DEF place
<1>2. ASSUME NEW i, NEW j, i \in 1 .. n, j \in 1 .. n, i <= j
      PROVE  x[i].key <= x[j].key /\ y[i].key <= y[j].key
  <2>0. x[i].key \in Nat /\ y[i].key \in Nat
    BY <1>2 DEF Reordered
  <2>1. CASE i = j
    BY <2>0, <2>1
  <2>2. CASE i < j
    BY <1>2, <2>2 DEF Reordered
  <2> QED
    BY <1>2, <2>1, <2>2
<1>4. ASSUME NEW i \in 1 .. p PROVE place[i] \in 1 .. p - 1
  <2> SUFFICES ASSUME place[i] \notin 1 .. p - 1 PROVE FALSE
    OBVIOUS
  <2>1. place[i] \in 1 .. n /\ y[place[i]] = x[i]
    BY <1>1
  <2>2. p <= place[i]
    BY <1>0, <2>1
  <2>3. y[p].key <= x[i].key
    BY <1>2, <2>1, <2>2
  <2>4. x[i].key <= x[p].key
    BY <1>0, <1>2
  <2>5. x[i].key \in Nat /\ x[p].key \in Nat /\ y[p].key \in Nat
    BY <1>0 DEF Reordered
  <2> QED
    BY <2>3, <2>4, <2>5
<1>5. place \in [1 .. p -> 1 .. p - 1]
  BY <1>4 DEF place
<1>6. /\ IsFiniteSet(1 .. p) /\ Cardinality(1 .. p) = p
      /\ IsFiniteSet(1 .. p - 1) /\ Cardinality(1 .. p - 1) = p - 1
  <2>1. /\ Cardinality(1 .. p) = IF 1 > p THEN 0 ELSE p - 1 + 1
        /\ Cardinality(1 .. p - 1) = IF 1 > p - 1 THEN 0 ELSE p - 1 - 1 + 1
        /\ IsFiniteSet(1 .. p) /\ IsFiniteSet(1 .. p - 1)
    BY FS_Interval
  <2> QED
    BY <2>1
<1>7. Cardinality(1 .. p - 1) < Cardinality(1 .. p)
  BY <1>6
<1>8. PICK i, j \in 1 .. p : i # j /\ place[i] = place[j]
  BY <1>5, <1>6, <1>7, FS_PigeonHole
<1>9. x[i] = x[j]
  BY <1>1, <1>8
<1>10. i \in 1 .. n /\ j \in 1 .. n
  BY <1>0
<1> QED
  BY <1>8, <1>9, <1>10 DEF Reordered
(* set.go 33-73: the sort is not stable, and still the keys of one set of  *)
(* validators come in one order, and the stakes with them, if validators   *)
(* that share a key have the same.                                         *)
THEOREM SameOrder ==
  ASSUME NEW h, NEW S, Reply(S), NEW a \in FromValidatorInfos(h, S), a # Nil,
         NEW k, NEW T, Reply(T), NEW b \in FromValidatorInfos(k, T), b # Nil,
         Keyed(S) \subseteq Keyed(T), Keyed(T) \subseteq Keyed(S)
  PROVE  /\ Len(a.vals) = Len(b.vals)
         /\ Pubkeys(a) = Pubkeys(b)
         /\ EvenKeys(a) => WeightsOf(a) = WeightsOf(b)
<1> DEFINE n == Len(a.vals)
           x == a.vals
           y == b.vals
<1>0. IsFiniteSet(S) /\ S \subseteq Infos /\ IsFiniteSet(T)
  BY DEF Reply
<1>1. \A v : v \in Keyed(S) <=> v \in S /\ IsKey(v.key)
  BY DEF Keyed
<1>2. \A v : v \in Keyed(T) <=> v \in T /\ IsKey(v.key)
  BY DEF Keyed
<1>3. \A v \in Keyed(S) : v.key \in Nat
  BY <1>0, <1>1, ValidatorAssumption DEF Infos, IsKey
<1>4. /\ n \in Nat /\ n = Cardinality(Keyed(S)) /\ DOMAIN x = 1 .. n /\ KeyOrdered(x)
      /\ \A i \in 1 .. n : x[i] \in Keyed(S)
      /\ \A v \in Keyed(S) : \E i \in 1 .. n : x[i] = v
      /\ \A i, j \in 1 .. n : i # j => x[i] # x[j]
  BY <1>0, <1>1, CanonicalSet
<1>5. /\ Len(y) = Cardinality(Keyed(T)) /\ DOMAIN y = 1 .. Len(y) /\ KeyOrdered(y)
      /\ \A i \in DOMAIN y : y[i] \in Keyed(T)
      /\ \A v \in Keyed(T) : \E i \in DOMAIN y : y[i] = v
      /\ \A i, j \in DOMAIN y : i # j => y[i] # y[j]
  BY <1>0, <1>2, CanonicalSet
<1>6. Len(y) = n /\ DOMAIN y = 1 .. n /\ Keyed(S) = Keyed(T)
  <2>1. Keyed(S) = Keyed(T)
    OBVIOUS
  <2> QED
    BY <1>4, <1>5, <2>1
<1> HIDE DEF x, y, n
<1>7. \A i \in 1 .. n : x[i].key \in Nat /\ y[i].key \in Nat
  BY <1>3, <1>4, <1>5, <1>6
<1>8. /\ \A i \in 1 .. n : \E j \in 1 .. n : y[j] = x[i]
      /\ \A i \in 1 .. n : \E j \in 1 .. n : x[j] = y[i]
  BY <1>4, <1>5, <1>6
<1>9. \A p \in 1 .. n : x[p].key = y[p].key
  <2> SUFFICES ASSUME NEW p \in 1 .. n PROVE x[p].key = y[p].key
    OBVIOUS
  <2>1. y[p].key <= x[p].key
    <3>1. Reordered(n, x, y)
      BY <1>4, <1>5, <1>6, <1>7, <1>8 DEF Reordered, KeyOrdered
    <3> QED
      BY <1>4, <3>1, NotBelow
  <2>2. x[p].key <= y[p].key
    <3>1. Reordered(n, y, x)
      BY <1>4, <1>5, <1>6, <1>7, <1>8 DEF Reordered, KeyOrdered
    <3> QED
      BY <1>4, <3>1, NotBelow
  <2> QED
    BY <1>7, <2>1, <2>2
<1>10. Pubkeys(a) = Pubkeys(b)
  BY <1>4, <1>6, <1>9 DEF Pubkeys, x, y
<1>11. ASSUME EvenKeys(a) PROVE WeightsOf(a) = WeightsOf(b)
  <2>1. \A i, j \in 1 .. n : x[i].key = x[j].key => x[i].weight = x[j].weight
    BY <1>4, <1>11 DEF EvenKeys, x
  <2>2. \A p \in 1 .. n : x[p].weight = y[p].weight
    <3> SUFFICES ASSUME NEW p \in 1 .. n PROVE x[p].weight = y[p].weight
      OBVIOUS
    <3>1. PICK q \in 1 .. n : x[q] = y[p]
      BY <1>8
    <3>2. x[q].key = x[p].key
      BY <1>9, <3>1
    <3>3. x[q].weight = x[p].weight
      BY <2>1, <3>2
    <3> QED
      BY <3>1, <3>3
  <2> QED
    BY <1>4, <1>6, <2>2 DEF WeightsOf, x, y
<1> QED
  BY <1>6, <1>10, <1>11 DEF x, y, n
(* The keys of a set where nobody shares one, in the order of their bytes, *)
(* are its public keys: both are the one increasing sequence of them.      *)
LEMMA OrderOfKeys ==
  ASSUME NEW h, NEW S, Reply(S), NEW vs \in FromValidatorInfos(h, S), vs # Nil,
         DistinctKeys(vs), NEW order \in SetToSeqs(KeysHeld(S)),
         \A i, j \in DOMAIN order : i < j => order[i] < order[j]
  PROVE  /\ order = Pubkeys(vs) /\ Len(order) = Len(vs.vals)
         /\ DOMAIN order = 1 .. Len(vs.vals)
<1> DEFINE n == Len(vs.vals)
           x == vs.vals
           K == KeysHeld(S)
           key == [i \in 1 .. n |-> x[i].key]
<1>1. /\ n \in Nat /\ DOMAIN x = 1 .. n /\ KeyOrdered(x)
      /\ \A i \in 1 .. n : x[i] \in Keyed(S)
      /\ \A v \in Keyed(S) : \E i \in 1 .. n : x[i] = v
  <2>1. IsFiniteSet(S)
    BY DEF Reply
  <2>2. \A v : v \in Keyed(S) <=> v \in S /\ IsKey(v.key)
    BY DEF Keyed
  <2> QED
    BY <2>1, <2>2, CanonicalSet
<1>2. \A v \in Keyed(S) : v.key \in Nat
  BY ValidatorAssumption DEF Reply, Keyed, Infos, IsKey
<1>3. \A i, j \in 1 .. n : x[i].key = x[j].key => i = j
  BY <1>1 DEF DistinctKeys
<1> HIDE DEF x, n
<1>4. IsFiniteSet(1 .. n) /\ Cardinality(1 .. n) = n
  <2>1. /\ Cardinality(1 .. n) = IF 1 > n THEN 0 ELSE n - 1 + 1
        /\ IsFiniteSet(1 .. n)
    BY <1>1, FS_Interval
  <2> QED
    BY <1>1, <2>1
<1>5. key \in Surjection(1 .. n, K)
  <2>1. \A i \in 1 .. n : key[i] \in K
    BY <1>1 DEF KeysHeld
  <2>2. \A k \in K : \E i \in 1 .. n : key[i] = k
    BY <1>1 DEF KeysHeld
  <2> QED
    BY <2>1, <2>2 DEF Surjection
<1>6. key \in Injection(1 .. n, K)
  <2>1. key \in [1 .. n -> K]
    BY <1>5 DEF Surjection
  <2>2. \A i, j \in 1 .. n : key[i] = key[j] => i = j
    BY <1>3
  <2> QED
    BY <2>1, <2>2, Fun_IsInj
<1>7. IsFiniteSet(K) /\ Cardinality(K) = n
  BY <1>4, <1>5, <1>6, FS_Surjection
<1>8. order \in [1 .. n -> K] /\ \A i, j \in 1 .. n : i # j => order[i] # order[j]
  BY <1>7 DEF SetToSeqs
<1>9. order \in Surjection(1 .. n, K)
  <2>1. order \in Injection(1 .. n, K)
    BY <1>8, Fun_IsInj
  <2> QED
    BY <1>4, <1>7, <2>1, FS_Injection
<1> DEFINE xs == [i \in 1 .. n |-> [key |-> key[i]]]
           ys == [i \in 1 .. n |-> [key |-> order[i]]]
<1>10. \A k \in K : k \in Nat
  BY <1>2 DEF KeysHeld
<1>11. /\ \A i \in 1 .. n : key[i] \in K /\ order[i] \in K
       /\ \A k \in K : \E i \in 1 .. n : key[i] = k
       /\ \A k \in K : \E i \in 1 .. n : order[i] = k
       /\ \A i, j \in 1 .. n : i # j => key[i] # key[j]
  BY <1>3, <1>5, <1>8, <1>9 DEF Surjection
<1>12. \A i, j \in 1 .. n : i < j => key[i] <= key[j] /\ order[i] <= order[j]
  <2>1. \A i, j \in 1 .. n : i < j => key[i] <= key[j]
    BY <1>1 DEF KeyOrdered
  <2>2. \A i, j \in 1 .. n : i < j => order[i] < order[j]
    BY <1>8
  <2>3. \A i \in 1 .. n : order[i] \in Nat
    BY <1>10, <1>11
  <2> QED
    BY <2>1, <2>2, <2>3
<1> HIDE DEF key, K
<1>13. Reordered(n, xs, ys)
  <2>1. \A i \in 1 .. n : xs[i].key = key[i] /\ ys[i].key = order[i]
    OBVIOUS
  <2>2. \A i, j \in 1 .. n : key[i] = order[j] => ys[j] = xs[i]
    OBVIOUS
  <2>3. \A i, j \in 1 .. n : i # j => xs[i] # xs[j]
    BY <1>11, <2>1
  <2> HIDE DEF xs, ys
  <2> QED
    BY <1>10, <1>11, <1>12, <2>1, <2>2, <2>3 DEF Reordered
<1>14. Reordered(n, ys, xs)
  <2>1. \A i \in 1 .. n : xs[i].key = key[i] /\ ys[i].key = order[i]
    OBVIOUS
  <2>2. \A i, j \in 1 .. n : key[i] = order[j] => ys[j] = xs[i]
    OBVIOUS
  <2>3. \A i, j \in 1 .. n : i # j => ys[i] # ys[j]
    BY <1>8, <2>1
  <2> HIDE DEF xs, ys
  <2> QED
    BY <1>10, <1>11, <1>12, <2>1, <2>2, <2>3 DEF Reordered
<1>15. \A p \in 1 .. n : order[p] = key[p]
  <2> SUFFICES ASSUME NEW p \in 1 .. n PROVE order[p] = key[p]
    OBVIOUS
  <2>1. ys[p].key <= xs[p].key /\ xs[p].key <= ys[p].key
    <3> HIDE DEF xs, ys
    <3> QED
      BY <1>1, <1>13, <1>14, NotBelow
  <2>2. xs[p].key = key[p] /\ ys[p].key = order[p]
    OBVIOUS
  <2>3. key[p] \in Nat /\ order[p] \in Nat
    BY <1>10, <1>11
  <2> QED
    BY <2>1, <2>2, <2>3
<1>16. Pubkeys(vs) = key
  BY <1>1 DEF Pubkeys, key, x
<1>17. order = key
  BY <1>8, <1>15 DEF key
<1>18. DOMAIN order = 1 .. n /\ Len(order) = n
  BY <1>1, <1>8
<1> QED
  BY <1>16, <1>17, <1>18 DEF n

-----------------------------------------------------------------------------
(* The verdict.                                                            *)

(* How often the keys of these positions occur.                            *)
KeyBag(vs, positions) ==
  [k \in {vs.vals[i + 1].key : i \in positions} |->
     Cardinality({i \in positions : vs.vals[i + 1].key = k})]

Ordered(vs) == Len(vs.vals) \in Nat /\ DOMAIN vs.vals = 1 .. Len(vs.vals)

Met(vs, positions) ==
  MeetsQuorum(SumWeights(WeightsOf(vs), positions), TotalWeight(vs), QuorumNum, QuorumDen)

(* The signature of these validators over this message.                    *)
Genuine(vs, positions, msg, sig) ==
  /\ sig # Nil
  /\ \A i \in positions : IsKey(vs.vals[i + 1].key)
  /\ positions # {}
  /\ AggregateVerifies(sig, msg, KeyBag(vs, positions))

VerifyIn(vs, msg, signers, sig) ==
  Verify(msg, signers, sig, Pubkeys(vs), WeightsOf(vs), TotalWeight(vs), QuorumNum, QuorumDen)

LEMMA Columns ==
  ASSUME NEW vs, Ordered(vs)
  PROVE  /\ Len(Pubkeys(vs)) = Len(vs.vals) /\ Len(WeightsOf(vs)) = Len(vs.vals)
         /\ \A i \in 0 .. Len(vs.vals) - 1 : /\ Pubkeys(vs)[i + 1] = vs.vals[i + 1].key
                                            /\ WeightsOf(vs)[i + 1] = vs.vals[i + 1].weight
<1> DEFINE n == Len(vs.vals)
           K == {vs.vals[i].key : i \in 1 .. n}
           W == {vs.vals[i].weight : i \in 1 .. n}
<1>1. n \in Nat /\ DOMAIN vs.vals = 1 .. n
  BY DEF Ordered
<1>2. Pubkeys(vs) = [i \in 1 .. n |-> vs.vals[i].key] /\ Pubkeys(vs) \in [1 .. n -> K]
  BY <1>1 DEF Pubkeys
<1>3. WeightsOf(vs) = [i \in 1 .. n |-> vs.vals[i].weight] /\ WeightsOf(vs) \in [1 .. n -> W]
  BY <1>1 DEF WeightsOf
<1> HIDE DEF K, W, n
<1>4. Len(Pubkeys(vs)) = n /\ Len(WeightsOf(vs)) = n
  BY <1>1, <1>2, <1>3
<1>5. \A i \in 0 .. n - 1 : i + 1 \in 1 .. n
  BY <1>1
<1> QED
  BY <1>2, <1>3, <1>4, <1>5 DEF n

LEMMA KeyBags ==
  ASSUME NEW vs, Ordered(vs), NEW positions, positions \subseteq 0 .. Len(vs.vals) - 1
  PROVE  [k \in {Pubkeys(vs)[i + 1] : i \in positions} |->
            Cardinality({i \in positions : Pubkeys(vs)[i + 1] = k})] = KeyBag(vs, positions)
<1>1. \A i \in positions : Pubkeys(vs)[i + 1] = vs.vals[i + 1].key
  BY Columns
<1>2. {Pubkeys(vs)[i + 1] : i \in positions} = {vs.vals[i + 1].key : i \in positions}
  BY <1>1
<1>3. \A k : {i \in positions : Pubkeys(vs)[i + 1] = k} = {i \in positions : vs.vals[i + 1].key = k}
  BY <1>1
<1> QED
  BY <1>2, <1>3 DEF KeyBag

(* verifier.go 44-133: a signature is valid if it is genuine and the quorum *)
(* is met, and what fails without an error failed for the quorum.          *)
LEMMA VerifyOutcome ==
  ASSUME NEW vs, Ordered(vs), NEW msg, NEW signers, NEW sig,
         NEW positions, positions = SignerIndices(signers, Len(vs.vals))
  PROVE  /\ VerifyIn(vs, msg, signers, sig).valid
              <=> Genuine(vs, positions, msg, sig) /\ Met(vs, positions)
         /\ VerifyIn(vs, msg, signers, sig).error = Nil <=> Genuine(vs, positions, msg, sig)
<1> DEFINE signed   == SumWeights(WeightsOf(vs), positions)
           met      == MeetsQuorum(signed, TotalWeight(vs), QuorumNum, QuorumDen)
           result   == [valid |-> met, signedWeight |-> signed, quorumMet |-> met, error |-> Nil]
           v        == VerifyIn(vs, msg, signers, sig)
           bag      == [k \in {Pubkeys(vs)[i + 1] : i \in positions} |->
                          Cardinality({i \in positions : Pubkeys(vs)[i + 1] = k})]
           verifies == AggregateVerifies(sig, msg, bag)
           keyless  == \E i \in positions : ~IsKey(Pubkeys(vs)[i + 1])
<1>1. positions \subseteq 0 .. Len(vs.vals) - 1
  BY DEF SignerIndices
<1>2. Len(Pubkeys(vs)) = Len(vs.vals) /\ Len(WeightsOf(vs)) = Len(vs.vals)
  BY Columns
<1>3. AccumulateWeight(signers, WeightsOf(vs)) = signed
  BY <1>2 DEF AccumulateWeight
<1>4. SignerIndices(signers, Len(Pubkeys(vs))) = positions
  BY <1>2
<1>5. v = IF Len(Pubkeys(vs)) # Len(WeightsOf(vs)) THEN Refused(0, FALSE, "lengths differ")
          ELSE IF sig = Nil THEN Refused(0, FALSE, "signature does not parse")
          ELSE IF keyless THEN Refused(signed, FALSE, "signer without a key")
          ELSE IF positions = {} THEN Refused(signed, FALSE, "no signers")
          ELSE IF ~verifies THEN Refused(signed, met, "invalid signature")
          ELSE result
  BY <1>3, <1>4, Zenon DEF VerifyIn, Verify
<1>6. verifies <=> AggregateVerifies(sig, msg, KeyBag(vs, positions))
  BY <1>1, KeyBags
<1>7. keyless <=> \E i \in positions : ~IsKey(vs.vals[i + 1].key)
  BY <1>1, Columns
<1>8. met = Met(vs, positions) /\ result.valid = met /\ result.error = Nil
  BY DEF Met
<1>9. \A w, q, e : Refused(w, q, e).valid = FALSE /\ Refused(w, q, e).error = e
  BY DEF Refused
<1>10. \A e \in Refusals : e # Nil
  BY NilAssumption
<1> HIDE DEF v, met, result, verifies, keyless, signed
<1>11. Genuine(vs, positions, msg, sig)
         <=> sig # Nil /\ ~keyless /\ positions # {} /\ verifies
  BY <1>6, <1>7 DEF Genuine
<1>12. ASSUME Genuine(vs, positions, msg, sig)
       PROVE  v.error = Nil /\ v.valid = Met(vs, positions)
  BY <1>2, <1>5, <1>8, <1>11, <1>12
<1>13. ASSUME ~Genuine(vs, positions, msg, sig)
       PROVE  v.error # Nil /\ v.valid = FALSE
  <2>1. \/ v = Refused(0, FALSE, "signature does not parse")
        \/ v = Refused(signed, FALSE, "signer without a key")
        \/ v = Refused(signed, FALSE, "no signers")
        \/ v = Refused(signed, met, "invalid signature")
    BY <1>2, <1>5, <1>11, <1>13
  <2>2. PICK w, q, e : e \in Refusals /\ v = Refused(w, q, e)
    BY <2>1 DEF Refusals
  <2> QED
    BY <1>9, <1>10, <2>2
<1> QED
  BY <1>12, <1>13 DEF v

-----------------------------------------------------------------------------
(* Stakes.                                                                 *)

StakeAt(vs, positions) ==
  SumFunctionOnSet([i \in positions |-> WeightsOf(vs)[i + 1]], positions)

LEMMA SumAt ==
  ASSUME NEW vs, NEW positions
  PROVE  SumWeights(WeightsOf(vs), positions) = StakeAt(vs, positions) % Word
<1> DEFINE f == [i \in positions |-> WeightsOf(vs)[i + 1]]
<1>1. SumWeights(WeightsOf(vs), positions) = SumFunctionOnSet(f, DOMAIN f) % Word
  BY DEF SumWeights, SumFunction
<1>2. DOMAIN f = positions
  OBVIOUS
<1> QED
  BY <1>1, <1>2 DEF StakeAt

LEMMA CanonicalIsOrdered ==
  ASSUME NEW h, NEW S, Reply(S), NEW vs \in FromValidatorInfos(h, S), vs # Nil
  PROVE  /\ Ordered(vs)
         /\ \A i \in DOMAIN vs.vals : /\ vs.vals[i] \in Infos /\ vs.vals[i].weight \in Nat
                                      /\ IsKey(vs.vals[i].key)
<1>1. IsFiniteSet(S) /\ S \subseteq Infos
  BY DEF Reply
<1>2. \A v \in S : v.weight \in Nat
  <2>1. \A v \in Infos : v.weight \in Weights
    BY DEF Infos
  <2>2. \A m \in Weights : m \in Nat
    BY ValidatorAssumption DEF UInt64
  <2> QED
    BY <1>1, <2>1, <2>2
<1> QED
  BY <1>1, <1>2, CanonicalSet DEF Ordered

(* No sum of stakes of a set exceeds its total, which is the sum over the  *)
(* validators of the reply that have a key.                                *)
LEMMA StakesOfSet ==
  ASSUME NEW h, NEW S, Reply(S), NEW vs \in FromValidatorInfos(h, S), vs # Nil
  PROVE  /\ Stake(vs) = KeyedStake(S)
         /\ Stake(vs) = StakeAt(vs, 0 .. Len(vs.vals) - 1)
         /\ Stake(vs) \in Nat
         /\ \A P \in SUBSET (0 .. Len(vs.vals) - 1) :
              StakeAt(vs, P) \in Nat /\ StakeAt(vs, P) <= Stake(vs)
<1> DEFINE n == Len(vs.vals)
           D == 1 .. n
           Z == 0 .. n - 1
           w == WeightsOf(vs)
           f == [i \in Z |-> w[i + 1]]
           g == [v \in Keyed(S) |-> v.weight]
           x == vs.vals
           next == [i \in Z |-> i + 1]
<1>1. n \in Nat /\ DOMAIN x = D /\ \A i \in D : x[i].weight \in Nat
  BY CanonicalIsOrdered DEF Ordered
<1>2. w = [i \in D |-> x[i].weight]
  BY <1>1 DEF WeightsOf
<1>3. /\ \A i \in D : x[i] \in Keyed(S)
      /\ \A v \in Keyed(S) : \E i \in D : x[i] = v
      /\ \A i, j \in D : i # j => x[i] # x[j]
  <2>1. IsFiniteSet(S)
    BY DEF Reply
  <2>2. \A v : v \in Keyed(S) <=> v \in S /\ IsKey(v.key)
    BY DEF Keyed
  <2> QED
    BY <1>1, <2>1, <2>2, CanonicalSet
<1>4. IsFiniteSet(D) /\ IsFiniteSet(Z)
  BY <1>1, FS_Interval
<1>5. Stake(vs) = SumFunctionOnSet(w, D)
  <2>1. Stake(vs) = SumFunctionOnSet(w, DOMAIN w)
    BY DEF Stake, SumFunction
  <2> QED
    BY <1>2, <2>1
<1> HIDE DEF n, x, w
<1>6. Naturals(w, D)
  BY <1>1, <1>2 DEF Naturals
<1>7. Stake(vs) \in Nat
  BY <1>4, <1>5, <1>6, SumIsNatural
<1>8. Stake(vs) = KeyedStake(S)
  <2>1. \A i \in D : w[i] = g[x[i]]
    BY <1>2, <1>3
  <2>2. \A i, j \in D : x[i] = x[j] => i = j
    BY <1>3
  <2>3. SumFunctionOnSet(w, D) = SumFunctionOnSet(g, {x[i] : i \in D})
    <3> HIDE DEF D, g
    <3> QED
      BY <1>4, <1>6, <2>1, <2>2, SumRenumbered
  <2>4. {x[i] : i \in D} = Keyed(S)
    BY <1>3
  <2>5. KeyedStake(S) = SumFunctionOnSet(g, DOMAIN g) /\ DOMAIN g = Keyed(S)
    BY DEF KeyedStake, SumFunction
  <2> QED
    BY <1>5, <2>3, <2>4, <2>5
<1>9. Naturals(f, Z)
  <2>1. \A i \in Z : i + 1 \in D
    BY <1>1
  <2> QED
    BY <1>6, <2>1 DEF Naturals
<1>10. Stake(vs) = SumFunctionOnSet(f, Z)
  <2>1. \A i \in Z : f[i] = w[next[i]]
    OBVIOUS
  <2>2. \A i, j \in Z : next[i] = next[j] => i = j
    BY <1>1
  <2>3. SumFunctionOnSet(f, Z) = SumFunctionOnSet(w, {next[i] : i \in Z})
    <3> HIDE DEF Z, f, next
    <3> QED
      BY <1>4, <1>9, <2>1, <2>2, SumRenumbered
  <2>4. {next[i] : i \in Z} = D
    <3>1. \A i \in Z : next[i] \in D
      BY <1>1
    <3>2. \A j \in D : j - 1 \in Z /\ next[j - 1] = j
      BY <1>1
    <3> QED
      BY <3>1, <3>2
  <2> QED
    BY <1>5, <2>3, <2>4
<1>11. ASSUME NEW P \in SUBSET Z
       PROVE  StakeAt(vs, P) \in Nat /\ StakeAt(vs, P) <= Stake(vs)
  <2> DEFINE part == [i \in P |-> w[i + 1]]
  <2>1. IsFiniteSet(P)
    BY <1>4, FS_Subset
  <2>2. \A i \in P : part[i] = f[i]
    OBVIOUS
  <2>3. StakeAt(vs, P) = SumFunctionOnSet(part, P)
    BY DEF StakeAt, w
  <2> HIDE DEF f, part, Z
  <2>4. SumFunctionOnSet(part, P) = SumFunctionOnSet(f, P)
    BY <2>1, <2>2, SumAgrees
  <2>5. SumFunctionOnSet(f, P) <= SumFunctionOnSet(f, Z)
    BY <1>4, <1>9, SumGrows
  <2>6. Naturals(f, P)
    BY <1>9 DEF Naturals
  <2>7. SumFunctionOnSet(f, P) \in Nat
    BY <2>1, <2>6, SumIsNatural
  <2> QED
    BY <1>10, <2>3, <2>4, <2>5, <2>7
<1> QED
  BY <1>7, <1>8, <1>10, <1>11 DEF StakeAt, n, w

(* threshold.go 17-37: where the products fit, the comparison in uint64 is *)
(* the comparison of the stakes.                                           *)
THEOREM QuorumIsExact ==
  ASSUME NEW h, NEW S, Reply(S), Fits(S),
         NEW vs \in FromValidatorInfos(h, S), vs # Nil,
         NEW P \in SUBSET (0 .. Len(vs.vals) - 1)
  PROVE  /\ SumWeights(WeightsOf(vs), P) = StakeAt(vs, P)
         /\ TotalWeight(vs) = Stake(vs)
         /\ Times(StakeAt(vs, P), QuorumDen) = StakeAt(vs, P) * QuorumDen
         /\ Times(Stake(vs), QuorumNum) = Stake(vs) * QuorumNum
         /\ StakeAt(vs, P) * QuorumDen \in Nat /\ Stake(vs) * QuorumDen \in Nat
         /\ StakeAt(vs, P) * QuorumDen <= Stake(vs) * QuorumDen
         /\ Stake(vs) * QuorumNum \in Nat
         /\ Met(vs, P) <=> StakeAt(vs, P) * QuorumDen >= Stake(vs) * QuorumNum
<1> DEFINE s == StakeAt(vs, P)
           t == Stake(vs)
<1>1. s \in Nat /\ t \in Nat /\ s <= t
  BY StakesOfSet
<1>2. t * QuorumDen < Word /\ t * QuorumNum < Word
  BY StakesOfSet DEF Fits
<1>3. t = StakeAt(vs, 0 .. Len(vs.vals) - 1)
  BY StakesOfSet
<1>4. SumWeights(WeightsOf(vs), P) = s % Word
  BY SumAt
<1>5. TotalWeight(vs) = t % Word
  BY <1>3, SumAt DEF TotalWeight
<1> HIDE DEF s, t
<1>6. \A a, b, c \in Nat : a <= b => a * c <= b * c
  OBVIOUS
<1>7. \A a, c \in Nat : a * c \in Nat /\ (c # 0 => a <= a * c)
  OBVIOUS
<1>8. /\ s * QuorumDen <= t * QuorumDen
      /\ s * QuorumDen \in Nat /\ t * QuorumDen \in Nat /\ t * QuorumNum \in Nat
      /\ t <= t * QuorumDen
  BY <1>1, <1>6, <1>7, QuorumAssumption
<1>9. s < Word /\ t < Word /\ s * QuorumDen < Word
  BY <1>1, <1>2, <1>8, WordAssumption
<1>10. \A m \in Nat : m < Word => m % Word = m
  BY WordAssumption
<1>11. s % Word = s /\ t % Word = t
  BY <1>1, <1>9, <1>10
<1>12. (s * QuorumDen) % Word = s * QuorumDen /\ (t * QuorumNum) % Word = t * QuorumNum
  BY <1>2, <1>8, <1>9, <1>10
<1>13. Met(vs, P) <=> s * QuorumDen >= t * QuorumNum
  BY <1>4, <1>5, <1>11, <1>12 DEF Met, MeetsQuorum, Times
<1> QED
  BY <1>4, <1>5, <1>8, <1>11, <1>12, <1>13 DEF Times, s, t
(* A sum over other indices, in terms of the set of these.                 *)
LEMMA SumMoved ==
  ASSUME NEW f, NEW I, IsFiniteSet(I), Naturals(f, I), NEW g, NEW next,
         \A i \in I : f[i] = g[next[i]],
         \A i, j \in I : next[i] = next[j] => i = j,
         NEW J, J = {next[i] : i \in I}
  PROVE  SumFunctionOnSet(f, I) = SumFunctionOnSet(g, J)
BY SumRenumbered

(* The stake of these keys in a set.                                       *)
StakeOf(vs, keys) ==
  SumFunction([i \in {j \in DOMAIN vs.vals : vs.vals[j].key \in keys} |-> vs.vals[i].weight])

(* The positions a bitset names cannot carry more stake in a set than the   *)
(* keys that signed have there, and carry just as much where nobody shares *)
(* a key.                                                                  *)
LEMMA StakeIsBacked ==
  ASSUME NEW h, NEW S, Reply(S), NEW vs \in FromValidatorInfos(h, S), vs # Nil,
         NEW P \in SUBSET (0 .. Len(vs.vals) - 1),
         NEW keys, KeyBag(vs, P) = OneEach(keys)
  PROVE  /\ StakeOf(vs, keys) \in Nat /\ StakeAt(vs, P) <= StakeOf(vs, keys)
         /\ DistinctKeys(vs) => StakeOf(vs, keys) = StakeAt(vs, P)
<1> DEFINE n == Len(vs.vals)
           x == vs.vals
           B == {j \in 1 .. n : x[j].key \in keys}
           f == [i \in P |-> WeightsOf(vs)[i + 1]]
           g == [j \in B |-> x[j].weight]
           next == [i \in P |-> i + 1]
           T == {next[i] : i \in P}
<1>1. /\ n \in Nat /\ DOMAIN x = 1 .. n
      /\ \A i \in 1 .. n : x[i].weight \in Nat
  BY CanonicalIsOrdered DEF Ordered
<1>2. \A i \in P : i \in Nat /\ i + 1 \in 1 .. n /\ f[i] = x[i + 1].weight
  <2>1. \A i \in P : i \in 0 .. n - 1
    OBVIOUS
  <2>2. \A i \in 0 .. n - 1 : WeightsOf(vs)[i + 1] = x[i + 1].weight
    BY Columns, CanonicalIsOrdered
  <2> QED
    BY <1>1, <2>1, <2>2
<1>3. IsFiniteSet(P) /\ IsFiniteSet(B)
  <2>1. IsFiniteSet(0 .. n - 1) /\ IsFiniteSet(1 .. n)
    BY <1>1, FS_Interval
  <2> QED
    BY <2>1, FS_Subset
<1>4. {x[i + 1].key : i \in P} = keys
  <2>1. DOMAIN KeyBag(vs, P) = {x[i + 1].key : i \in P}
    BY DEF KeyBag
  <2>2. DOMAIN OneEach(keys) = keys
    BY DEF OneEach
  <2> QED
    BY <2>1, <2>2
<1>5. StakeOf(vs, keys) = SumFunctionOnSet(g, B)
  <2>1. {j \in DOMAIN vs.vals : vs.vals[j].key \in keys} = B
    BY <1>1
  <2>2. StakeOf(vs, keys) = SumFunctionOnSet(g, DOMAIN g)
    BY <2>1 DEF StakeOf, SumFunction
  <2>3. DOMAIN g = B
    OBVIOUS
  <2> QED
    BY <2>2, <2>3
<1>6. StakeAt(vs, P) = SumFunctionOnSet(f, P)
  BY DEF StakeAt
<1>7. \A i \in P : next[i] = i + 1 /\ next[i] \in B
  BY <1>2, <1>4
<1>8. T \in SUBSET B
  BY <1>7
<1>9. DistinctKeys(vs) => T = B
  <2> SUFFICES ASSUME DistinctKeys(vs), NEW j \in B PROVE j \in T
    BY <1>8
  <2>1. PICK i \in P : x[i + 1].key = x[j].key
    BY <1>4
  <2>2. i + 1 = j
    BY <1>1, <1>2, <2>1 DEF DistinctKeys
  <2> QED
    BY <1>7, <2>2
<1>10. Naturals(g, B) /\ Naturals(f, P)
  BY <1>1, <1>2 DEF Naturals
<1>11. \A i \in P : f[i] = g[next[i]]
  BY <1>2, <1>7
<1>12. \A i, j \in P : next[i] = next[j] => i = j
  BY <1>2, <1>7
<1> HIDE DEF n, x, B, f, g, next
<1> DEFINE I == P
<1>13. SumFunctionOnSet(f, I) = SumFunctionOnSet(g, T)
  <2>1. IsFiniteSet(I) /\ Naturals(f, I)
    BY <1>3, <1>10
  <2>2. \A i \in I : f[i] = g[next[i]]
    BY <1>11
  <2>3. \A i, j \in I : next[i] = next[j] => i = j
    BY <1>12
  <2>4. T = {next[i] : i \in I}
    OBVIOUS
  <2> HIDE DEF T, I
  <2> QED
    BY <2>1, <2>2, <2>3, <2>4, SumMoved
<1> HIDE DEF T
<1>14. SumFunctionOnSet(g, T) <= SumFunctionOnSet(g, B)
  BY <1>3, <1>8, <1>10, SumGrows
<1>15. SumFunctionOnSet(g, B) \in Nat
  BY <1>3, <1>10, SumIsNatural
<1>16. /\ StakeOf(vs, keys) \in Nat /\ StakeAt(vs, P) <= StakeOf(vs, keys)
       /\ T = B => StakeOf(vs, keys) = StakeAt(vs, P)
  BY <1>5, <1>6, <1>13, <1>14, <1>15
<1> QED
  BY <1>9, <1>16

-----------------------------------------------------------------------------
(* What SigningSpec keeps.                                                 *)

LEMMA OrderType ==
  ASSUME NEW S, Reply(S), NEW order \in SetToSeqs(KeysHeld(S))
  PROVE  order \in Seq(Keys)
<1> DEFINE K == KeysHeld(S)
           key == [v \in Keyed(S) |-> v.key]
<1>1. IsFiniteSet(Keyed(S))
  BY FS_Subset DEF Reply, Keyed
<1>2. key \in Surjection(Keyed(S), K)
  BY DEF KeysHeld, Surjection
<1>3. K \subseteq Keys
  BY DEF KeysHeld, Keyed, Reply, Infos
<1> HIDE DEF K, key
<1>4. Cardinality(K) \in Nat
  BY <1>1, <1>2, FS_Surjection, FS_CardinalityType
<1>5. order \in [1 .. Cardinality(K) -> K]
  BY DEF SetToSeqs, K
<1> QED
  BY <1>3, <1>4, <1>5

(* The bits of the signers and those behind the last one can be encoded.   *)
LEMMA BitsType ==
  ASSUME SigningTypeOK, signing # Nil,
         NEW P, P \subseteq PositionsOf(signing.order, signing.by)
                              \cup (Len(signing.order) .. Len(signing.order) + ByteBits)
  PROVE  /\ Len(signing.order) + ByteBits \in Nat
         /\ P \subseteq 0 .. Len(signing.order) + ByteBits
         /\ Encode(P) \in Seq(Bytes)
<1> DEFINE last == Len(signing.order)
           m == last + ByteBits
<1>1. last \in Nat
  BY DEF SigningTypeOK, Signings
<1>2. \A i \in PositionsOf(signing.order, signing.by) : i \in 0 .. last - 1
  BY DEF PositionsOf
<1> HIDE DEF last
<1>3. m \in Nat /\ \A i \in P : i \in 0 .. m
  BY <1>1, <1>2, ByteBitsAssumption DEF last
<1>4. P \subseteq 0 .. m
  BY <1>3
<1> HIDE DEF m
<1>5. Encode(P) \in Seq(Bytes)
  BY <1>3, <1>4, EncodedBytes
<1> QED
  BY <1>3, <1>4, <1>5 DEF m, last

(* The relayer's step, the caller's, or a step the engine's proofs know.   *)
LEMMA SigningSteps ==
  ASSUME [SigningNext]_signedVars
  PROVE  \/ \E m \in Msgs : BeginSigning(m)
         \/ \E v \in pchain[Len(pchain)] : Collect(v)
         \/ Publish
         \/ Inspect
         \/ /\ [Next]_vars /\ UNCHANGED signingVars
            /\ \/ UNCHANGED engineVars
               \/ shown # Nil /\ (shown # Garbled => in.signature = shown)
<1>1. CASE UNCHANGED signedVars
  BY <1>1 DEF signedVars, signingVars, vars
<1>2. CASE Diagnose
  BY <1>2 DEF Diagnose, Next
<1>3. CASE Environment /\ UNCHANGED signingVars
  BY <1>3 DEF Environment, Next
<1>4. CASE Returned /\ UNCHANGED signingVars
  BY <1>4 DEF Returned, Next, vars
<1> QED
  BY <1>1, <1>2, <1>3, <1>4 DEF SigningNext

LEMMA InspectFrame ==
  ASSUME SigningTypeOK, Inspect
  PROVE  /\ UNCHANGED <<chainVars, pc, expired, cfg, range, lost, report, signing, shown>>
         /\ pc = "GetSendWarpEvent" /\ shown \in Signatures /\ in.signature = Nil
         /\ in' \in Inputs /\ in'.signature = shown
         /\ in'.sendEvent = in.sendEvent /\ in'.atHeight = in.atHeight
         /\ in'.current = in.current /\ in'.currentHeight = in.currentHeight
         /\ in'.pchainHeight = in.pchainHeight
         /\ in'.receive = in.receive /\ in'.execFailed = in.execFailed
<1>1. in \in Inputs /\ shown \in Signatures /\ in' = [in EXCEPT !.signature = shown]
  BY DEF Inspect, SigningTypeOK, TypeOK
<1>2. in' \in Inputs
  BY <1>1 DEF Inputs
<1>3. /\ in'.signature = shown
      /\ in'.sendEvent = in.sendEvent /\ in'.atHeight = in.atHeight
      /\ in'.current = in.current /\ in'.currentHeight = in.currentHeight
      /\ in'.pchainHeight = in.pchainHeight
      /\ in'.receive = in.receive /\ in'.execFailed = in.execFailed
  BY <1>1 DEF Inputs
<1> QED
  BY <1>1, <1>2, <1>3 DEF Inspect, signingVars

LEMMA SigningInitType == SigningInit => SigningTypeOK
BY InitType DEF SigningInit, SigningTypeOK

LEMMA SigningStepType ==
  ASSUME SigningTypeOK, [SigningNext]_signedVars
  PROVE  SigningTypeOK'
<1>t. /\ TypeOK /\ signing \in Signings \cup {Nil}
      /\ shown \in Signatures \cup {Nil, Garbled}
  BY DEF SigningTypeOK
<1>v. UNCHANGED vars => TypeOK'
  BY <1>t, StepType
<1>1. ASSUME NEW m \in Msgs, BeginSigning(m) PROVE SigningTypeOK'
  <2>1. Len(pchain) \in DOMAIN pchain /\ Len(pchain) \in UInt64
    BY <1>t, ChainAssumption, WordAssumption DEF TypeOK, ChainTypeOK, UInt64
  <2> DEFINE S == RegisteredInfos(pchain[Len(pchain)])
  <2>2. Reply(S)
    BY <1>t, <2>1, SnapshotType
  <2>3. PICK order \in SetToSeqs(KeysHeld(S)) :
          signing' = [height |-> Len(pchain), order |-> order, msg |-> m, by |-> {}]
    BY <1>1 DEF BeginSigning
  <2> HIDE DEF S
  <2>4. order \in Seq(Keys)
    BY <2>2, <2>3, OrderType
  <2>5. signing' \in Signings
    BY <2>1, <2>3, <2>4 DEF Signings
  <2> QED
    BY <1>1, <1>t, <1>v, <2>5 DEF BeginSigning, SigningTypeOK
<1>2. ASSUME NEW v \in pchain[Len(pchain)], Collect(v) PROVE SigningTypeOK'
  <2>1. signing \in Signings /\ signing' = [signing EXCEPT !.by = @ \cup {v.key}]
    BY <1>2, <1>t DEF Collect
  <2>2. v.key \in Keys
    <3>1. signing.order \in Seq(Keys) /\ v.key \in ToSet(signing.order)
      BY <1>2, <2>1 DEF Collect, Signings
    <3>2. PICK i \in DOMAIN signing.order : v.key = signing.order[i]
      BY <3>1 DEF ToSet
    <3> QED
      BY <3>1, <3>2
  <2>3. signing' \in Signings
    BY <2>1, <2>2 DEF Signings
  <2> QED
    BY <1>2, <1>t, <1>v, <2>3 DEF Collect, SigningTypeOK
<1>3. ASSUME Publish PROVE SigningTypeOK'
  <2> DEFINE P == PositionsOf(signing.order, signing.by)
             last == Len(signing.order)
             sig == [msg |-> signing.msg, keys |-> signing.by]
  <2>1. signing \in Signings /\ sig \in Aggregates
    BY <1>3, <1>t DEF Publish, Signings, Aggregates
  <2>2. Encode(P) \in Seq(Bytes)
    BY <1>3, BitsType DEF Publish
  <2>3. ASSUME NEW more \in {{}, {last}, last .. last + ByteBits}
        PROVE  Encode(P \cup more) \in Seq(Bytes)
    <3>1. last \in Nat
      BY <2>1 DEF Signings
    <3>2. more \subseteq last .. last + ByteBits
      BY <3>1, ByteBitsAssumption
    <3> QED
      BY <1>3, <3>2, BitsType DEF Publish
  <2>4. \/ \E more \in {{}, {last}, last .. last + ByteBits} :
             shown' = [msg |-> signing.msg, signers |-> Encode(P \cup more), sig |-> sig]
        \/ \E m \in Msgs : shown' = [msg |-> m, signers |-> Encode(P), sig |-> sig]
        \/ shown' = [msg |-> signing.msg, signers |-> Encode(P), sig |-> Nil]
        \/ shown' = Garbled
    BY <1>3 DEF Publish
  <2>5. signing.msg \in Msgs
    BY <2>1 DEF Signings
  <2> HIDE DEF P, last, sig
  <2>6. shown' \in Signatures \cup {Garbled}
    BY <2>1, <2>2, <2>3, <2>4, <2>5 DEF Signatures
  <2> QED
    BY <1>3, <1>t, <1>v, <2>6 DEF Publish, SigningTypeOK
<1>4. ASSUME Inspect PROVE SigningTypeOK'
  <2>1. /\ UNCHANGED <<chainVars, pc, expired, cfg, range, lost, report, signing, shown>>
        /\ in' \in Inputs
    BY <1>4, InspectFrame
  <2> QED
    BY <1>t, <2>1 DEF SigningTypeOK, TypeOK, ChainTypeOK, chainVars
<1>5. ASSUME [Next]_vars, UNCHANGED signingVars PROVE SigningTypeOK'
  BY <1>5, <1>t, StepType DEF SigningTypeOK, signingVars
<1> QED
  BY <1>1, <1>2, <1>3, <1>4, <1>5, SigningSteps

(* The relayer changes nothing the engine's invariants are about, and a    *)
(* signature comes in before anything else has been gathered.              *)
LEMMA EngineUndisturbed ==
  ASSUME SigningTypeOK, [SigningNext]_signedVars
  PROVE  Inspect \/ [Next]_vars
<1>1. (\E m \in Msgs : BeginSigning(m)) => UNCHANGED vars
  BY DEF BeginSigning
<1>2. (\E v \in pchain[Len(pchain)] : Collect(v)) => UNCHANGED vars
  BY DEF Collect
<1>3. Publish => UNCHANGED vars
  BY DEF Publish
<1> QED
  BY <1>1, <1>2, <1>3, SigningSteps

LEMMA SigningStepEvidence ==
  ASSUME SigningTypeOK, EvidenceHolds, [SigningNext]_signedVars
  PROVE  EvidenceHolds'
<1>1. CASE [Next]_vars
  BY <1>1, StepEvidence DEF SigningTypeOK
<1>2. CASE Inspect
  <2>1. /\ UNCHANGED <<chainVars, pc, range, lost, report>> /\ pc = "GetSendWarpEvent"
        /\ in'.sendEvent = in.sendEvent
        /\ in'.receive = in.receive /\ in'.execFailed = in.execFailed
    BY <1>2, InspectFrame
  <2>2. in.receive = Nil /\ in.execFailed = Nil
    BY <2>1 DEF EvidenceHolds, GatheredSoFar, Steps
  <2>3. DeliveredOnce'
    BY <2>1 DEF EvidenceHolds, DeliveredOnce, Received, Failed, LogOf, chainVars
  <2>4. GatheredSoFar'
    BY <2>1, <2>2 DEF GatheredSoFar
  <2>5. ReceiveSeen' /\ RevertSeen' /\ HealthyFromEvidence'
    BY <2>1, <2>2 DEF ReceiveSeen, RevertSeen, HealthyFromEvidence
  <2> QED
    BY <2>3, <2>4, <2>5 DEF EvidenceHolds
<1> QED
  BY <1>1, <1>2, EngineUndisturbed

LEMMA SigningStepSets ==
  ASSUME SigningTypeOK, EvidenceHolds, HeightSeen, ReportDrawn, SetsSeen,
         [SigningNext]_signedVars
  PROVE  HeightSeen' /\ ReportDrawn' /\ SetsSeen'
<1>1. CASE [Next]_vars
  BY <1>1, HeightSeenStep, ReportDrawnStep, StepSets DEF SigningTypeOK
<1>2. CASE Inspect
  <2>1. /\ UNCHANGED <<chainVars, pc, lost, report>> /\ pc = "GetSendWarpEvent"
        /\ in'.atHeight = in.atHeight /\ in'.current = in.current
        /\ in'.currentHeight = in.currentHeight
    BY <1>2, InspectFrame
  <2>2. in.atHeight = Nil /\ in.current = Nil
    BY <2>1 DEF SetsSeen, SetsPending
  <2>3. HeightSeen' /\ ReportDrawn'
    BY <2>1 DEF HeightSeen, ReportDrawn, chainVars
  <2>4. SetsPending' /\ SigningSetSeen' /\ CurrentSetSeen' /\ UnknownHeightWasLost'
    BY <2>1, <2>2 DEF SetsPending, SigningSetSeen, CurrentSetSeen, UnknownHeightWasLost
  <2> QED
    BY <2>3, <2>4 DEF SetsSeen
<1> QED
  BY <1>1, <1>2, EngineUndisturbed

(* The registered keys of the signing height stay what they were.          *)
LEMMA MadeStep ==
  ASSUME SigningTypeOK, MadeAtHeight, [SigningNext]_signedVars
  PROVE  MadeAtHeight'
<1>t. TypeOK /\ signing \in Signings \cup {Nil}
  BY DEF SigningTypeOK
<1>1. ASSUME NEW m \in Msgs, BeginSigning(m) PROVE MadeAtHeight'
  <2>1. Len(pchain) \in DOMAIN pchain
    BY <1>t DEF TypeOK, ChainTypeOK
  <2>2. PICK order \in SetToSeqs(KeysHeld(RegisteredInfos(pchain[Len(pchain)]))) :
          signing' = [height |-> Len(pchain), order |-> order, msg |-> m, by |-> {}]
    BY <1>1 DEF BeginSigning
  <2>3. pchain' = pchain
    BY <1>1 DEF BeginSigning, vars, chainVars
  <2> QED
    BY <2>1, <2>2, <2>3 DEF MadeAtHeight
<1>2. ASSUME NEW v \in pchain[Len(pchain)], Collect(v) PROVE MadeAtHeight'
  <2>1. /\ signing \in Signings /\ signing' = [signing EXCEPT !.by = @ \cup {v.key}]
        /\ v.key \in ToSet(signing.order) /\ signing # Nil /\ pchain' = pchain
    BY <1>2, <1>t DEF Collect, vars, chainVars
  <2>2. /\ signing'.height = signing.height /\ signing'.order = signing.order
        /\ signing'.by = signing.by \cup {v.key}
    BY <2>1 DEF Signings
  <2> QED
    BY <2>1, <2>2 DEF MadeAtHeight
<1>3. ASSUME UNCHANGED <<pchain, signing>> PROVE MadeAtHeight'
  BY <1>3 DEF MadeAtHeight
<1>4. ASSUME [Next]_vars, UNCHANGED signingVars PROVE MadeAtHeight'
  <2>1. \A h \in DOMAIN pchain : h \in DOMAIN pchain' /\ pchain'[h] = pchain[h]
    BY <1>4, <1>t, PChainGrows
  <2> QED
    BY <1>4, <2>1 DEF MadeAtHeight, signingVars
<1>5. Publish \/ Inspect => UNCHANGED <<pchain, signing>>
  BY DEF Publish, Inspect, vars, chainVars, signingVars
<1> QED
  BY <1>1, <1>2, <1>3, <1>4, <1>5, SigningSteps

LEMMA ShownStep ==
  ASSUME SigningTypeOK, ShownAsMade, [SigningNext]_signedVars
  PROVE  ShownAsMade'
<1>1. ASSUME Publish PROVE ShownAsMade'
  <2> DEFINE P == PositionsOf(signing.order, signing.by)
             last == Len(signing.order)
             sig == [msg |-> signing.msg, keys |-> signing.by]
             beyond == {{}, {last}, last .. last + ByteBits}
  <2>1. \/ \E more \in beyond :
             shown' = [msg |-> signing.msg, signers |-> Encode(P \cup more), sig |-> sig]
        \/ \E m \in Msgs : shown' = [msg |-> m, signers |-> Encode(P), sig |-> sig]
        \/ shown' = [msg |-> signing.msg, signers |-> Encode(P), sig |-> Nil]
        \/ shown' = Garbled
    BY <1>1 DEF Publish
  <2>2. P \cup {} = P /\ {} \in beyond
    OBVIOUS
  <2> HIDE DEF P, sig, beyond, last
  <2>3. ASSUME NEW m, NEW Q, NEW w, shown' = [msg |-> m, signers |-> Encode(Q), sig |-> w]
        PROVE  shown'.sig = w /\ shown'.signers = Encode(Q)
    BY <2>3
  <2>4. shown' # Garbled =>
          /\ shown'.sig \in {Nil, sig}
          /\ \E more \in beyond : shown'.signers = Encode(P \cup more)
    <3>1. ASSUME NEW more \in beyond,
                 shown' = [msg |-> signing.msg, signers |-> Encode(P \cup more), sig |-> sig]
          PROVE  shown'.sig = sig /\ shown'.signers = Encode(P \cup more)
      BY <2>3, <3>1
    <3>2. ASSUME NEW m \in Msgs, shown' = [msg |-> m, signers |-> Encode(P), sig |-> sig]
          PROVE  shown'.sig = sig /\ shown'.signers = Encode(P \cup {})
      BY <2>2, <2>3, <3>2
    <3>3. ASSUME shown' = [msg |-> signing.msg, signers |-> Encode(P), sig |-> Nil]
          PROVE  shown'.sig = Nil /\ shown'.signers = Encode(P \cup {})
      BY <2>2, <2>3, <3>3
    <3> QED
      BY <2>1, <2>2, <3>1, <3>2, <3>3
  <2>5. signing' = signing /\ signing # Nil
    BY <1>1 DEF Publish
  <2> QED
    BY <2>4, <2>5 DEF ShownAsMade, P, sig, beyond, last
<1>2. ASSUME shown = Nil, UNCHANGED shown PROVE ShownAsMade'
  BY <1>2 DEF ShownAsMade
<1>3. ASSUME UNCHANGED <<signing, shown>> PROVE ShownAsMade'
  BY <1>3 DEF ShownAsMade
<1>4. ASSUME NEW m \in Msgs, BeginSigning(m) PROVE ShownAsMade'
  <2>1. shown \notin {Nil, Garbled} => FALSE
    BY <1>4 DEF BeginSigning, ShownAsMade
  <2> QED
    BY <1>4, <2>1 DEF BeginSigning, ShownAsMade
<1>5. (\E v \in pchain[Len(pchain)] : Collect(v)) => shown = Nil /\ UNCHANGED shown
  BY DEF Collect
<1>6. Inspect => UNCHANGED <<signing, shown>>
  BY DEF Inspect, signingVars
<1> QED
  BY <1>1, <1>2, <1>3, <1>4, <1>5, <1>6, SigningSteps DEF signingVars

LEMMA CheckedStep ==
  ASSUME SigningTypeOK, CheckedAsShown, [SigningNext]_signedVars
  PROVE  CheckedAsShown'
<1>1. ASSUME UNCHANGED vars, UNCHANGED shown PROVE CheckedAsShown'
  BY <1>1 DEF CheckedAsShown, vars, engineVars
<1>2. ASSUME Publish PROVE CheckedAsShown'
  <2>1. shown = Nil /\ UNCHANGED vars
    BY <1>2 DEF Publish
  <2>2. in.signature = Nil /\ pc = "GetSendWarpEvent"
    BY <2>1 DEF CheckedAsShown
  <2> QED
    BY <2>1, <2>2 DEF CheckedAsShown, vars, engineVars
<1>3. ASSUME Inspect PROVE CheckedAsShown'
  <2>1. UNCHANGED <<pc, shown>> /\ pc = "GetSendWarpEvent" /\ in'.signature = shown
    BY <1>3, InspectFrame
  <2>2. shown # Garbled
    BY <1>3 DEF Inspect
  <2> QED
    BY <2>1, <2>2 DEF CheckedAsShown
<1>4. ASSUME [Next]_vars, UNCHANGED signingVars,
             \/ UNCHANGED engineVars
             \/ shown # Nil /\ (shown # Garbled => in.signature = shown)
      PROVE  CheckedAsShown'
  <2>1. in'.signature = in.signature /\ shown' = shown
    BY <1>4, StepFrame DEF SigningTypeOK, signingVars
  <2>2. CASE UNCHANGED engineVars
    BY <2>1, <2>2 DEF CheckedAsShown, engineVars
  <2>3. CASE shown # Nil /\ (shown # Garbled => in.signature = shown)
    BY <2>1, <2>3 DEF CheckedAsShown
  <2> QED
    BY <1>4, <2>2, <2>3
<1>5. (\E m \in Msgs : BeginSigning(m)) => UNCHANGED vars /\ UNCHANGED shown
  BY DEF BeginSigning
<1>6. (\E v \in pchain[Len(pchain)] : Collect(v)) => UNCHANGED vars /\ UNCHANGED shown
  BY DEF Collect
<1> QED
  BY <1>1, <1>2, <1>3, <1>4, <1>5, <1>6, SigningSteps

LEMMA SigningInitTraced == SigningInit => EvidenceHolds /\ SignatureTraced
<1> SUFFICES ASSUME SigningInit PROVE EvidenceHolds /\ SignatureTraced
  OBVIOUS
<1>1. Init /\ signing = Nil /\ shown = Nil
  BY DEF SigningInit
<1>2. EvidenceHolds /\ HeightSeen /\ ReportDrawn /\ SetsSeen
  BY <1>1, InitEvidence, InitGrounded, InitSets DEF VerdictGrounded
<1>3. MadeAtHeight /\ ShownAsMade
  BY <1>1 DEF MadeAtHeight, ShownAsMade
<1>4. CheckedAsShown
  BY <1>1 DEF CheckedAsShown, Init
<1> QED
  BY <1>2, <1>3, <1>4 DEF SignatureTraced

(* The variables keep their types, while signatures are collected and      *)
(* shown, the P-Chain goes on and the engine gathers its input.            *)
THEOREM SigningTypeCorrect == SigningSpec => []SigningTypeOK
<1>1. SigningTypeOK /\ [SigningNext]_signedVars => SigningTypeOK'
  BY SigningStepType
<1> QED
  BY SigningInitType, <1>1, PTL DEF SigningSpec

(* set.go 36-38, engine.go 128-144: a signature is always checked against  *)
(* what the P-Chain really had at the guessed height, and was made for     *)
(* what it had at the signing height, however long either took.            *)
THEOREM SignatureAlwaysTraced == SigningSpec => []SignatureTraced
<1>1. SigningTypeOK /\ (EvidenceHolds /\ SignatureTraced) /\ [SigningNext]_signedVars
        => (EvidenceHolds /\ SignatureTraced)'
  <2> SUFFICES ASSUME SigningTypeOK, EvidenceHolds, SignatureTraced, [SigningNext]_signedVars
               PROVE  EvidenceHolds' /\ SignatureTraced'
    OBVIOUS
  <2>1. EvidenceHolds'
    BY SigningStepEvidence
  <2>2. HeightSeen' /\ ReportDrawn' /\ SetsSeen'
    BY SigningStepSets DEF SignatureTraced
  <2>3. MadeAtHeight' /\ ShownAsMade' /\ CheckedAsShown'
    BY MadeStep, ShownStep, CheckedStep DEF SignatureTraced
  <2> QED
    BY <2>1, <2>2, <2>3 DEF SignatureTraced
<1> QED
  BY SigningInitTraced, SigningTypeCorrect, <1>1, PTL DEF SigningSpec

-----------------------------------------------------------------------------
(* What a verdict on a signature means.                                    *)

(* What the invariants say of the input the checks were run on.            *)
LEMMA CheckedInput ==
  ASSUME SigningTypeOK, SignatureTraced, Checked
  PROVE  /\ SignatureCheck = CheckBLSSignature(in)
         /\ CheckOf("INSUFFICIENT_STAKE_WEIGHT") = CheckStakeWeight(in)
         /\ CheckOf("VALIDATOR_SET_CHANGED") = CheckValidatorSetChanged(in)
<1>1. ErrorReport.checks = <<>> /\ NoSendReport.checks = <<>>
  BY DEF ErrorReport, NoSendReport
<1>2. report = Report(RunChecks(in))
  BY <1>1 DEF Checked, SignatureTraced, ReportDrawn
<1> QED
  BY <1>2, CheckFound DEF SignatureCheck, CheckOf

LEMMA InputType ==
  ASSUME SigningTypeOK
  PROVE  /\ TypeOK /\ in \in Inputs /\ signing \in Signings \cup {Nil}
         /\ in.signature \in Signatures \cup {Nil}
BY DEF SigningTypeOK, TypeOK, Inputs

(* The set a signature is checked in is that of a reply.                   *)
LEMMA SetAtHeight ==
  ASSUME SigningTypeOK, SignatureTraced, in.atHeight # Nil
  PROVE  /\ in.pchainHeight \in DOMAIN pchain
         /\ \E S : /\ S = RegisteredInfos(pchain[in.pchainHeight])
                   /\ Reply(S) /\ (ProductsFit => Fits(S))
                   /\ in.atHeight \in FromValidatorInfos(in.pchainHeight, S)
<1>1. /\ in.pchainHeight \in DOMAIN pchain
      /\ in.atHeight \in
           FromValidatorInfos(in.pchainHeight, RegisteredInfos(pchain[in.pchainHeight]))
  BY DEF SignatureTraced, SetsSeen, SigningSetSeen
<1>2. /\ pchain[in.pchainHeight] \in Snapshots
      /\ Reply(RegisteredInfos(pchain[in.pchainHeight]))
  BY <1>1, SnapshotType DEF SigningTypeOK
<1>3. ProductsFit => Fits(RegisteredInfos(pchain[in.pchainHeight]))
  BY <1>2 DEF ProductsFit
<1> QED
  BY <1>1, <1>2, <1>3

(* What the invariants say of the signature in the input.                  *)
LEMMA ShownSignature ==
  ASSUME SigningTypeOK, SignatureTraced, in.signature # Nil
  PROVE  /\ signing \in Signings
         /\ in.signature.sig # Nil =>
              in.signature.sig.msg = signing.msg /\ in.signature.sig.keys = signing.by
         /\ \E more \in {{}, {Len(signing.order)},
                         Len(signing.order) .. Len(signing.order) + ByteBits} :
              in.signature.signers
                = Encode(PositionsOf(signing.order, signing.by) \cup more)
<1>1. in.signature = shown /\ shown # Nil /\ shown # Garbled
  BY DEF SignatureTraced, CheckedAsShown
<1>2. signing # Nil /\ signing \in Signings
  BY <1>1, InputType DEF SignatureTraced, ShownAsMade
<1>3. in.signature.sig \in {Nil, [msg |-> signing.msg, keys |-> signing.by]}
  BY <1>1 DEF SignatureTraced, ShownAsMade
<1>4. \E more \in {{}, {Len(signing.order)},
                   Len(signing.order) .. Len(signing.order) + ByteBits} :
        in.signature.signers = Encode(PositionsOf(signing.order, signing.by) \cup more)
  BY <1>1 DEF SignatureTraced, ShownAsMade
<1>5. in.signature.sig # Nil =>
        in.signature.sig.msg = signing.msg /\ in.signature.sig.keys = signing.by
  BY <1>3
<1> QED
  BY <1>2, <1>4, <1>5

(* checks.go 225-274: the check passes on Verify's verdict.                *)
LEMMA SignatureSays ==
  ASSUME NEW i
  PROVE  /\ i.signature # Nil /\ i.atHeight # Nil =>
              /\ CheckBLSSignature(i).says = "valid"
                   <=> VerifyIn(i.atHeight, i.signature.msg, i.signature.signers,
                                i.signature.sig).valid
              /\ CheckBLSSignature(i).says \in {"valid", "invalid"}
         /\ ~(i.signature # Nil /\ i.atHeight # Nil) => CheckBLSSignature(i).says = "skipped"
<1> DEFINE v == VerifyIn(i.atHeight, i.signature.msg, i.signature.signers, i.signature.sig).valid
           skipped == i.signature = Nil \/ i.atHeight = Nil
<1>1. v \in BOOLEAN
  BY VerifyType DEF VerifyIn
<1>2. CheckBLSSignature(i)
        = Critical("BLS_VERIFICATION_FAILED", skipped \/ v,
                   IF skipped THEN "skipped" ELSE IF skipped \/ v THEN "valid" ELSE "invalid")
  BY DEF CheckBLSSignature, VerifyIn
<1> HIDE DEF v
<1>3. CheckBLSSignature(i).says
        = IF skipped THEN "skipped" ELSE IF v THEN "valid" ELSE "invalid"
  BY <1>2 DEF Critical
<1> QED
  BY <1>1, <1>3 DEF v

(* A genuine signature in a set is one of the message that was signed, and *)
(* its stake there is covered by the keys that signed.                     *)
LEMMA GenuineIsSigned ==
  ASSUME SigningTypeOK, SignatureTraced, in.signature # Nil,
         NEW S, Reply(S), NEW h, NEW vs \in FromValidatorInfos(h, S), vs # Nil,
         NEW P, P = SignerIndices(in.signature.signers, Len(vs.vals)),
         Genuine(vs, P, in.signature.msg, in.signature.sig)
  PROVE  /\ Intact /\ P \in SUBSET (0 .. Len(vs.vals) - 1)
         /\ Backing(vs) \in Nat /\ StakeAt(vs, P) <= Backing(vs)
         /\ DistinctKeys(vs) => Backing(vs) = StakeAt(vs, P)
<1>1. /\ in.signature.sig # Nil /\ in.signature.sig.msg = in.signature.msg
      /\ KeyBag(vs, P) = OneEach(in.signature.sig.keys)
  BY DEF Genuine, AggregateVerifies
<1>2. in.signature.sig.msg = signing.msg /\ in.signature.sig.keys = signing.by
  BY <1>1, ShownSignature
<1>3. P \in SUBSET (0 .. Len(vs.vals) - 1)
  BY DEF SignerIndices
<1>4. PICK keys : keys = signing.by
  OBVIOUS
<1>5. KeyBag(vs, P) = OneEach(keys)
  BY <1>1, <1>2, <1>4
<1>6. Backing(vs) = StakeOf(vs, keys)
  BY <1>4 DEF Backing, StakeOf
<1>7. /\ StakeOf(vs, keys) \in Nat /\ StakeAt(vs, P) <= StakeOf(vs, keys)
      /\ DistinctKeys(vs) => StakeOf(vs, keys) = StakeAt(vs, P)
  BY <1>3, <1>5, StakeIsBacked
<1> QED
  BY <1>1, <1>2, <1>3, <1>6, <1>7 DEF Intact

(* What a signature that meets the quorum says of the keys that signed.    *)
LEMMA GenuineIsWeighed ==
  ASSUME SigningTypeOK, SignatureTraced, in.signature # Nil,
         NEW S, Reply(S), Fits(S), NEW h, NEW vs \in FromValidatorInfos(h, S), vs # Nil,
         NEW P, P = SignerIndices(in.signature.signers, Len(vs.vals)),
         Genuine(vs, P, in.signature.msg, in.signature.sig)
  PROVE  /\ Met(vs, P) => HasQuorum(vs)
         /\ DistinctKeys(vs) /\ HasQuorum(vs) => Met(vs, P)
<1>1. /\ P \in SUBSET (0 .. Len(vs.vals) - 1)
      /\ Backing(vs) \in Nat /\ StakeAt(vs, P) <= Backing(vs)
      /\ DistinctKeys(vs) => Backing(vs) = StakeAt(vs, P)
  BY GenuineIsSigned
<1> DEFINE s == StakeAt(vs, P)
           b == Backing(vs)
           t == Stake(vs)
<1>2. /\ Met(vs, P) <=> s * QuorumDen >= t * QuorumNum
      /\ t * QuorumNum \in Nat /\ s * QuorumDen \in Nat
  BY <1>1, QuorumIsExact
<1>3. s \in Nat
  BY <1>1, StakesOfSet
<1>4. HasQuorum(vs) <=> b * QuorumDen >= t * QuorumNum
  BY DEF HasQuorum
<1>5. b \in Nat /\ s <= b /\ (DistinctKeys(vs) => b = s)
  BY <1>1
<1> HIDE DEF s, b, t
<1>6. b * QuorumDen \in Nat /\ s * QuorumDen <= b * QuorumDen
  BY <1>3, <1>5, QuorumAssumption
<1> QED
  BY <1>2, <1>4, <1>5, <1>6

LEMMA SignedIfValid ==
  ASSUME ProductsFit, SigningTypeOK, SignatureTraced
  PROVE  ValidMeansSigned
<1> SUFFICES ASSUME Checked, SignatureCheck.says = "valid"
             PROVE  Intact /\ HasQuorum(in.atHeight)
  BY DEF ValidMeansSigned
<1> DEFINE vs == in.atHeight
           P  == SignerIndices(in.signature.signers, Len(vs.vals))
<1>1. /\ in.signature # Nil /\ vs # Nil
      /\ VerifyIn(vs, in.signature.msg, in.signature.signers, in.signature.sig).valid
  BY CheckedInput, SignatureSays
<1>2. PICK S : Reply(S) /\ Fits(S) /\ vs \in FromValidatorInfos(in.pchainHeight, S)
  BY <1>1, SetAtHeight
<1>3. Ordered(vs)
  BY <1>1, <1>2, CanonicalIsOrdered
<1>4. Genuine(vs, P, in.signature.msg, in.signature.sig) /\ Met(vs, P)
  BY <1>1, <1>3, VerifyOutcome
<1> HIDE DEF vs, P
<1>5. Intact
  BY <1>1, <1>2, <1>4, GenuineIsSigned DEF P
<1>6. HasQuorum(vs)
  BY <1>1, <1>2, <1>4, GenuineIsWeighed DEF P
<1> QED
  BY <1>5, <1>6 DEF vs

(* The bits of the signers, and none behind the last validator, are read   *)
(* from a single byte, where the relayer's order is that of the set.       *)
LEMMA SignersOfByte ==
  ASSUME NEW n \in Nat, NEW order, Len(order) = n, NEW keys,
         NEW more, more \subseteq n .. n + ByteBits,
         Len(Encode(PositionsOf(order, keys) \cup more)) <= 1
  PROVE  SignerIndices(Encode(PositionsOf(order, keys) \cup more), n)
           = PositionsOf(order, keys)
<1> DEFINE P == PositionsOf(order, keys)
           Q == P \cup more
           m == n + ByteBits
<1>1. /\ m \in Nat
      /\ \A i \in P : i \in 0 .. n - 1 /\ i \in 0 .. m
      /\ \A i \in more : i \notin 0 .. n - 1 /\ i \in 0 .. m
  BY ByteBitsAssumption DEF PositionsOf
<1> HIDE DEF P, m
<1>2. Q \subseteq 0 .. m
  BY <1>1
<1>3. \A i \in 0 .. n - 1 : i \in Nat /\ (i \in Q <=> i \in P)
  BY <1>1
<1>4. Len(Encode(Q)) <= 1
  BY DEF P
<1> HIDE DEF Q
<1>5. \A i \in 0 .. n - 1 : IsSet(Encode(Q), i) <=> i \in P
  BY <1>1, <1>2, <1>3, <1>4, BytesAreMirrored
<1>6. \A i \in P : i \in 0 .. n - 1
  BY <1>1
<1>7. SignerIndices(Encode(Q), n) = P
  BY <1>5, <1>6 DEF SignerIndices
<1> QED
  BY <1>7 DEF P, Q

(* Where nobody shares a key, every key that signed has one bit.           *)
LEMMA OneBitEach ==
  ASSUME NEW vs, Ordered(vs), DistinctKeys(vs), NEW keys, keys \subseteq ToSet(Pubkeys(vs))
  PROVE  /\ KeyBag(vs, PositionsOf(Pubkeys(vs), keys)) = OneEach(keys)
         /\ keys # {} => PositionsOf(Pubkeys(vs), keys) # {}
<1> DEFINE n == Len(vs.vals)
           x == vs.vals
           P == PositionsOf(Pubkeys(vs), keys)
<1>1. n \in Nat /\ DOMAIN x = 1 .. n
  BY DEF Ordered
<1>2. P = {i \in 0 .. n - 1 : x[i + 1].key \in keys}
  <2>1. Len(Pubkeys(vs)) = n /\ \A i \in 0 .. n - 1 : Pubkeys(vs)[i + 1] = x[i + 1].key
    BY Columns
  <2> QED
    BY <2>1 DEF PositionsOf
<1>3. \A k \in keys : \E i \in 1 .. n : x[i].key = k
  <2>1. DOMAIN Pubkeys(vs) = 1 .. n /\ \A i \in 1 .. n : Pubkeys(vs)[i] = x[i].key
    BY <1>1 DEF Pubkeys
  <2> QED
    BY <2>1 DEF ToSet
<1>4. \A i, j \in 1 .. n : x[i].key = x[j].key => i = j
  BY <1>1 DEF DistinctKeys
<1> HIDE DEF n, x
<1>5. \A k \in keys : \E i \in P : x[i + 1].key = k
  <2> SUFFICES ASSUME NEW k \in keys PROVE \E i \in P : x[i + 1].key = k
    OBVIOUS
  <2>1. PICK i \in 1 .. n : x[i].key = k
    BY <1>3
  <2>2. i - 1 \in 0 .. n - 1 /\ (i - 1) + 1 = i
    BY <1>1, <2>1
  <2> QED
    BY <1>2, <2>1, <2>2
<1>6. \A i \in P : i + 1 \in 1 .. n /\ i \in Int /\ x[i + 1].key \in keys
  BY <1>1, <1>2
<1>7. \A i, j \in P : x[i + 1].key = x[j + 1].key => i = j
  <2> SUFFICES ASSUME NEW i \in P, NEW j \in P, x[i + 1].key = x[j + 1].key PROVE i = j
    OBVIOUS
  <2>1. i + 1 = j + 1
    BY <1>4, <1>6
  <2> QED
    BY <1>6, <2>1
<1> HIDE DEF P
<1>8. {x[i + 1].key : i \in P} = keys
  BY <1>5, <1>6
<1>9. ASSUME NEW k \in keys PROVE Cardinality({i \in P : x[i + 1].key = k}) = 1
  <2>1. PICK i \in P : x[i + 1].key = k
    BY <1>5
  <2>2. {j \in P : x[j + 1].key = k} = {i}
    BY <1>7, <2>1
  <2> QED
    BY <2>2, FS_Singleton
<1>10. KeyBag(vs, P) = [k \in keys |-> Cardinality({i \in P : x[i + 1].key = k})]
  BY <1>8 DEF KeyBag, x
<1>11. KeyBag(vs, P) = OneEach(keys)
  BY <1>9, <1>10 DEF OneEach
<1> QED
  BY <1>5, <1>11 DEF P

LEMMA RecognisedIfQuorum ==
  ASSUME ProductsFit, SigningTypeOK, SignatureTraced
  PROVE  QuorumIsRecognised
<1> SUFFICES ASSUME GenuineQuorum, DistinctKeys(in.atHeight),
                    Len(in.signature.signers) <= 1
             PROVE  SignatureCheck.says = "valid"
  BY DEF QuorumIsRecognised
<1> DEFINE vs == in.atHeight
           n  == Len(vs.vals)
<1>1. /\ Checked /\ vs # Nil /\ in.pchainHeight = signing.height /\ signing.by # {}
      /\ in.signature # Nil /\ in.signature.sig # Nil /\ in.signature.msg = signing.msg
      /\ \A i, j \in DOMAIN signing.order : i < j => signing.order[i] < signing.order[j]
      /\ HasQuorum(vs)
  BY DEF GenuineQuorum, Intact
<1>2. PICK S : /\ S = RegisteredInfos(pchain[in.pchainHeight])
               /\ Reply(S) /\ Fits(S) /\ vs \in FromValidatorInfos(in.pchainHeight, S)
  BY <1>1, SetAtHeight
<1>3. Ordered(vs) /\ \A i \in DOMAIN vs.vals : IsKey(vs.vals[i].key)
  BY <1>1, <1>2, CanonicalIsOrdered
<1>4. /\ signing \in Signings
      /\ in.signature.sig.msg = signing.msg /\ in.signature.sig.keys = signing.by
  BY <1>1, ShownSignature
<1>5. PICK order, keys : order = signing.order /\ keys = signing.by
  OBVIOUS
<1>6. order \in SetToSeqs(KeysHeld(S)) /\ keys \subseteq ToSet(order)
  <2>1. signing # Nil
    BY <1>1, ShownSignature DEF SignatureTraced, CheckedAsShown, ShownAsMade
  <2> QED
    BY <1>1, <1>2, <1>5, <2>1 DEF SignatureTraced, MadeAtHeight
<1>7. PICK more \in {{}, {Len(order)}, Len(order) .. Len(order) + ByteBits} :
        in.signature.signers = Encode(PositionsOf(order, keys) \cup more)
  BY <1>1, <1>5, ShownSignature
<1>8. order = Pubkeys(vs) /\ Len(order) = n /\ n \in Nat
  <2>1. \A i, j \in DOMAIN order : i < j => order[i] < order[j]
    BY <1>1, <1>5
  <2> HIDE DEF vs, n
  <2> QED
    BY <1>1, <1>2, <1>3, <1>6, <2>1, OrderOfKeys DEF Ordered, n, vs
<1> DEFINE P == PositionsOf(order, keys)
<1>9. SignerIndices(in.signature.signers, n) = P
  <2>1. more \subseteq n .. n + ByteBits
    BY <1>8, ByteBitsAssumption
  <2>2. Len(Encode(PositionsOf(order, keys) \cup more)) <= 1
    BY <1>7
  <2>3. Len(order) = n /\ n \in Nat
    BY <1>8
  <2> HIDE DEF n, P
  <2>4. SignerIndices(Encode(PositionsOf(order, keys) \cup more), n) = PositionsOf(order, keys)
    BY <2>1, <2>2, <2>3, SignersOfByte
  <2> QED
    BY <1>7, <2>4 DEF P
<1>10. KeyBag(vs, P) = OneEach(keys) /\ P # {}
  <2>1. DistinctKeys(vs) /\ keys \subseteq ToSet(Pubkeys(vs)) /\ keys # {}
    BY <1>1, <1>5, <1>6, <1>8
  <2> HIDE DEF vs
  <2> QED
    BY <1>3, <1>8, <2>1, OneBitEach
<1>11. Genuine(vs, P, in.signature.msg, in.signature.sig)
  <2>1. \A i \in P : i + 1 \in DOMAIN vs.vals
    BY <1>3, <1>8 DEF PositionsOf, Ordered
  <2>2. \A i \in P : IsKey(vs.vals[i + 1].key)
    BY <1>3, <2>1
  <2>3. AggregateVerifies(in.signature.sig, in.signature.msg, KeyBag(vs, P))
    BY <1>1, <1>4, <1>5, <1>10 DEF AggregateVerifies
  <2> HIDE DEF vs, P
  <2> QED
    BY <1>1, <1>10, <2>2, <2>3 DEF Genuine
<1> HIDE DEF vs, P
<1>12. Met(vs, P)
  <2>1. DistinctKeys(vs) /\ P = SignerIndices(in.signature.signers, Len(vs.vals))
    BY <1>9 DEF vs
  <2> QED
    BY <1>1, <1>2, <1>11, <2>1, GenuineIsWeighed
<1>13. VerifyIn(vs, in.signature.msg, in.signature.signers, in.signature.sig).valid
  BY <1>3, <1>9, <1>11, <1>12, VerifyOutcome
<1>14. CheckBLSSignature(in).says = "valid"
  BY <1>1, <1>13, SignatureSays DEF vs
<1> QED
  BY <1>1, <1>14, CheckedInput

LEMMA UnexplainedIfNoQuorum ==
  ASSUME ProductsFit, SigningTypeOK, SignatureTraced
  PROVE  OnlyQuorumGoesUnexplained
<1> DEFINE vs == in.atHeight
           P  == SignerIndices(in.signature.signers, Len(vs.vals))
           v  == VerifyIn(vs, in.signature.msg, in.signature.signers, in.signature.sig)
<1> SUFFICES ASSUME Checked, vs # Nil, in.signature # Nil, ~v.valid, v.error = Nil
             PROVE  Intact /\ (DistinctKeys(vs) => ~HasQuorum(vs))
  BY DEF OnlyQuorumGoesUnexplained, VerifyIn
<1>1. PICK S : Reply(S) /\ Fits(S) /\ vs \in FromValidatorInfos(in.pchainHeight, S)
  BY SetAtHeight
<1>2. Ordered(vs)
  BY <1>1, CanonicalIsOrdered
<1>3. Genuine(vs, P, in.signature.msg, in.signature.sig) /\ ~Met(vs, P)
  BY <1>2, VerifyOutcome
<1> HIDE DEF vs, P
<1>4. Intact
  BY <1>1, <1>3, GenuineIsSigned DEF P
<1>5. DistinctKeys(vs) => ~HasQuorum(vs)
  BY <1>1, <1>3, GenuineIsWeighed DEF P
<1> QED
  BY <1>4, <1>5

(* checks.go 147: with the whole of the set's stake signed, the threshold   *)
(* can be met unless there is no stake.                                    *)
LEMMA WholeStake ==
  ASSUME NEW h, NEW S, Reply(S), Fits(S),
         NEW vs \in FromValidatorInfos(h, S), vs # Nil
  PROVE  /\ Stake(vs) \in Nat /\ TotalWeight(vs) = Stake(vs)
         /\ Stake(vs) * QuorumDen \in Nat /\ Stake(vs) * QuorumNum \in Nat
         /\ \A i : i.atHeight = vs =>
              (CheckStakeWeight(i).says = "threshold reachable"
                 <=> Stake(vs) # 0 /\ Stake(vs) * QuorumDen >= Stake(vs) * QuorumNum)
<1> DEFINE t == Stake(vs)
           Z == 0 .. Len(vs.vals) - 1
<1>1. t \in Nat /\ t = StakeAt(vs, Z) /\ Z \in SUBSET Z
  BY StakesOfSet
<1>2. /\ SumWeights(WeightsOf(vs), Z) = t /\ TotalWeight(vs) = t
      /\ Times(t, QuorumDen) = t * QuorumDen /\ Times(t, QuorumNum) = t * QuorumNum
      /\ t * QuorumDen \in Nat /\ t * QuorumNum \in Nat
  BY <1>1, QuorumIsExact
<1>3. CheckThreshold(t, t, QuorumNum, QuorumDen) <=> t # 0 /\ t * QuorumDen >= t * QuorumNum
  BY <1>2, QuorumAssumption DEF CheckThreshold, MeetsQuorum
<1>4. ASSUME NEW i, i.atHeight = vs
      PROVE  CheckStakeWeight(i).says = "threshold reachable"
               <=> CheckThreshold(t, t, QuorumNum, QuorumDen)
  <2> DEFINE reachable == CheckThreshold(t, t, QuorumNum, QuorumDen)
             line == IF reachable THEN "threshold reachable" ELSE "threshold cannot be met"
  <2>1. CheckStakeWeight(i) = Warning("INSUFFICIENT_STAKE_WEIGHT", reachable, line)
    BY <1>2, <1>4 DEF CheckStakeWeight
  <2> HIDE DEF line, reachable
  <2>2. CheckStakeWeight(i).says = line
    BY <2>1 DEF Warning
  <2> QED
    BY <2>2 DEF reachable, line
<1> HIDE DEF t
<1> QED
  BY <1>1, <1>2, <1>3, <1>4 DEF t

LEMMA SomeStake ==
  ASSUME 0 \notin Weights, NEW h, NEW S, Reply(S),
         NEW vs \in FromValidatorInfos(h, S), vs # Nil,
         NEW i \in 0 .. Len(vs.vals) - 1
  PROVE  Stake(vs) # 0
<1> DEFINE Z == 0 .. Len(vs.vals) - 1
           f == [j \in Z |-> WeightsOf(vs)[j + 1]]
<1>1. Ordered(vs) /\ \A j \in DOMAIN vs.vals : vs.vals[j] \in Infos
  BY CanonicalIsOrdered
<1>2. ASSUME NEW j \in Z PROVE f[j] \in Nat /\ f[j] # 0
  <2>1. j + 1 \in DOMAIN vs.vals
    BY <1>1 DEF Ordered
  <2>2. vs.vals[j + 1].weight \in Weights
    BY <1>1, <2>1 DEF Infos
  <2>3. f[j] = vs.vals[j + 1].weight
    BY <1>1, Columns
  <2>4. \A w \in Weights : w \in Nat /\ w # 0
    BY ValidatorAssumption DEF UInt64
  <2> QED
    BY <2>2, <2>3, <2>4
<1>3. IsFiniteSet(Z)
  <2>1. Len(vs.vals) - 1 \in Int
    BY <1>1 DEF Ordered
  <2> QED
    BY <2>1, FS_Interval
<1>4. Naturals(f, Z)
  BY <1>2 DEF Naturals
<1>5. Stake(vs) = SumFunctionOnSet(f, Z) /\ Stake(vs) \in Nat
  BY StakesOfSet DEF StakeAt
<1>6. i \in Z /\ f[i] \in Nat /\ f[i] # 0
  BY <1>2
<1> HIDE DEF f, Z
<1>7. f[i] <= SumFunctionOnSet(f, Z)
  BY <1>3, <1>4, <1>6, TermAtMostSum
<1> QED
  BY <1>5, <1>6, <1>7
LEMMA ReachableIfValid ==
  ASSUME ProductsFit, 0 \notin Weights, SigningTypeOK, SignatureTraced
  PROVE  ThresholdsAgree
<1> SUFFICES ASSUME Checked, SignatureCheck.says = "valid"
             PROVE  CheckStakeWeight(in).says = "threshold reachable"
  BY CheckedInput DEF ThresholdsAgree
<1> DEFINE vs == in.atHeight
           P  == SignerIndices(in.signature.signers, Len(vs.vals))
<1>1. /\ in.signature # Nil /\ vs # Nil
      /\ VerifyIn(vs, in.signature.msg, in.signature.signers, in.signature.sig).valid
  BY CheckedInput, SignatureSays
<1>2. PICK S : Reply(S) /\ Fits(S) /\ vs \in FromValidatorInfos(in.pchainHeight, S)
  BY <1>1, SetAtHeight
<1>3. Ordered(vs)
  BY <1>1, <1>2, CanonicalIsOrdered
<1>4. Genuine(vs, P, in.signature.msg, in.signature.sig) /\ Met(vs, P)
  BY <1>1, <1>3, VerifyOutcome
<1>5. P \in SUBSET (0 .. Len(vs.vals) - 1)
  BY DEF SignerIndices
<1>6. PICK i \in P : i \in 0 .. Len(vs.vals) - 1
  BY <1>4, <1>5 DEF Genuine
<1> HIDE DEF P, vs
<1>7. Stake(vs) # 0
  BY <1>1, <1>2, <1>6, SomeStake
<1>8. /\ StakeAt(vs, P) * QuorumDen >= Stake(vs) * QuorumNum
      /\ StakeAt(vs, P) * QuorumDen <= Stake(vs) * QuorumDen
      /\ StakeAt(vs, P) * QuorumDen \in Nat
  BY <1>1, <1>2, <1>4, <1>5, QuorumIsExact
<1>9. Stake(vs) * QuorumDen \in Nat /\ Stake(vs) * QuorumNum \in Nat
  BY <1>1, <1>2, WholeStake
<1>10. Stake(vs) * QuorumDen >= Stake(vs) * QuorumNum
  BY <1>8, <1>9
<1>11. in.atHeight = vs
  BY DEF vs
<1> QED
  BY <1>1, <1>2, <1>7, <1>10, <1>11, WholeStake

LEMMA SameColumnsSameVerdict ==
  ASSUME NEW a, NEW b, Len(a.vals) = Len(b.vals), Pubkeys(a) = Pubkeys(b),
         WeightsOf(a) = WeightsOf(b)
  PROVE  \A msg, signers, sig : VerifyIn(a, msg, signers, sig) = VerifyIn(b, msg, signers, sig)
<1>1. TotalWeight(a) = TotalWeight(b)
  BY DEF TotalWeight
<1> QED
  BY <1>1 DEF VerifyIn
(* diff.go 33-79: with an empty difference, only keys can have changed.    *)
LEMMA SameValidators ==
  ASSUME NEW h, NEW S, Reply(S), NEW a \in FromValidatorInfos(h, S), a # Nil,
         NEW k, NEW T, Reply(T), NEW b \in FromValidatorInfos(k, T), b # Nil,
         IsEmpty(Diff(a, b)),
         \A i \in DOMAIN a.vals, j \in DOMAIN b.vals :
           a.vals[i].node = b.vals[j].node => a.vals[i].key = b.vals[j].key
  PROVE  Keyed(S) \subseteq Keyed(T) /\ Keyed(T) \subseteq Keyed(S)
<1>1. IsFiniteSet(S) /\ S \subseteq Infos /\ IsFiniteSet(T) /\ T \subseteq Infos
  BY DEF Reply
<1>2. Stakes(S) = Stakes(T)
  <2>1. /\ \A v, w \in S : v.node = w.node => v = w
        /\ \A v, w \in T : v.node = w.node => v = w
    BY DEF Reply
  <2> QED
    BY <1>1, <2>1, EmptyDiffMeansSameStakes
<1>3. \A v : v \in Keyed(S) <=> v \in S /\ IsKey(v.key)
  BY DEF Keyed
<1>4. \A v : v \in Keyed(T) <=> v \in T /\ IsKey(v.key)
  BY DEF Keyed
<1>5. \A v \in Keyed(S) : \E i \in DOMAIN a.vals : a.vals[i] = v
  BY <1>1, <1>3, CanonicalSet
<1>6. \A v \in Keyed(T) : \E j \in DOMAIN b.vals : b.vals[j] = v
  BY <1>1, <1>4, CanonicalSet
<1>7. ASSUME NEW v \in Keyed(S), NEW w \in Keyed(T), v.node = w.node, v.weight = w.weight
      PROVE  v = w
  <2>1. v.key = w.key
    BY <1>5, <1>6, <1>7
  <2>2. v \in Infos /\ w \in Infos
    BY <1>1, <1>3, <1>4
  <2>3. \A x, y \in Infos : x.node = y.node /\ x.weight = y.weight /\ x.key = y.key => x = y
    BY DEF Infos
  <2> QED
    BY <1>7, <2>1, <2>2, <2>3
<1>8. ASSUME NEW v \in Keyed(S)
      PROVE  \E w \in Keyed(T) : v.node = w.node /\ v.weight = w.weight
  <2>1. <<v.node, v.weight>> \in Stakes(T)
    BY <1>2 DEF Stakes
  <2>2. PICK w \in Keyed(T) : <<v.node, v.weight>> = <<w.node, w.weight>>
    BY <2>1 DEF Stakes
  <2> QED
    BY <2>2
<1>9. ASSUME NEW w \in Keyed(T)
      PROVE  \E v \in Keyed(S) : v.node = w.node /\ v.weight = w.weight
  <2>1. <<w.node, w.weight>> \in Stakes(S)
    BY <1>2 DEF Stakes
  <2>2. PICK v \in Keyed(S) : <<w.node, w.weight>> = <<v.node, v.weight>>
    BY <2>1 DEF Stakes
  <2> QED
    BY <2>2
<1>10. \A v \in Keyed(S) : v \in Keyed(T)
  BY <1>7, <1>8
<1>11. \A w \in Keyed(T) : w \in Keyed(S)
  BY <1>7, <1>9
<1> QED
  BY <1>10, <1>11
LEMMA SetsUnchanged ==
  ASSUME SigningTypeOK, SignatureTraced, in.atHeight # Nil, in.current # Nil,
         IsEmpty(Diff(in.atHeight, in.current)), NoKeyRotated
  PROVE  /\ Len(in.atHeight.vals) = Len(in.current.vals)
         /\ Pubkeys(in.atHeight) = Pubkeys(in.current)
         /\ EvenKeys(in.atHeight) => WeightsOf(in.atHeight) = WeightsOf(in.current)
<1>1. CASE ~ChainIsElsewhere
  <2>1. in.current = in.atHeight
    BY <1>1 DEF SignatureTraced, SetsSeen, CurrentSetSeen
  <2> QED
    BY <2>1
<1>2. CASE ChainIsElsewhere
  <2> DEFINE a == in.atHeight
             b == in.current
  <2>1. PICK S : Reply(S) /\ a \in FromValidatorInfos(in.pchainHeight, S)
    BY SetAtHeight
  <2>2. PICK h \in HeightsSinceRead :
          b \in FromValidatorInfos(in.currentHeight, CurrentInfos(pchain[h]))
    BY <1>2 DEF SignatureTraced, SetsSeen, CurrentSetSeen
  <2>3. h \in DOMAIN pchain
    <3>1. /\ in.currentHeight \in Nat /\ in.currentHeight > 0
          /\ Len(pchain) \in Nat /\ DOMAIN pchain = 1 .. Len(pchain)
      BY <1>2, InputType, WordAssumption
      DEF Inputs, UInt64, ChainIsElsewhere, TypeOK, ChainTypeOK
    <3> QED
      BY <2>2, <3>1 DEF HeightsSinceRead
  <2>4. PICK T : Reply(T) /\ b \in FromValidatorInfos(in.currentHeight, T)
    BY <2>2, <2>3, InputType, SnapshotType
  <2>5. \A i \in DOMAIN a.vals, j \in DOMAIN b.vals :
          a.vals[i].node = b.vals[j].node => a.vals[i].key = b.vals[j].key
    BY DEF NoKeyRotated
  <2>6. a # Nil /\ b # Nil /\ IsEmpty(Diff(a, b))
    OBVIOUS
  <2> HIDE DEF a, b
  <2>7. Keyed(S) \subseteq Keyed(T) /\ Keyed(T) \subseteq Keyed(S)
    BY <2>1, <2>4, <2>5, <2>6, SameValidators
  <2>8. /\ Len(a.vals) = Len(b.vals) /\ Pubkeys(a) = Pubkeys(b)
        /\ EvenKeys(a) => WeightsOf(a) = WeightsOf(b)
    BY <2>1, <2>4, <2>6, <2>7, SameOrder
  <2> QED
    BY <2>8 DEF a, b
<1> QED
  BY <1>1, <1>2

LEMMA KeptIfUnchanged ==
  ASSUME SigningTypeOK, SignatureTraced
  PROVE  UnchangedKeepsVerdict
<1> SUFFICES ASSUME Checked, NoKeyRotated, EvenKeys(in.atHeight),
                    CheckValidatorSetChanged(in).says
                      = "set unchanged between the two heights"
             PROVE  CheckBLSSignature([in EXCEPT !.atHeight = in.current])
                      = CheckBLSSignature(in)
  BY CheckedInput DEF UnchangedKeepsVerdict
<1> DEFINE a == in.atHeight
           b == in.current
           later == [in EXCEPT !.atHeight = b]
           verdict(x) == VerifyIn(x, in.signature.msg, in.signature.signers, in.signature.sig).valid
           said(v) == Critical("BLS_VERIFICATION_FAILED", v, IF v THEN "valid" ELSE "invalid")
<1>1. /\ a # Nil /\ b # Nil /\ Len(a.vals) = Len(b.vals)
      /\ Pubkeys(a) = Pubkeys(b) /\ WeightsOf(a) = WeightsOf(b)
  <2>1. a # Nil /\ b # Nil /\ IsEmpty(Diff(a, b))
    BY DEF CheckValidatorSetChanged, Warning
  <2> QED
    BY <2>1, SetsUnchanged
<1>2. verdict(a) = verdict(b)
  <2> HIDE DEF a, b
  <2>1. \A msg, signers, sig : VerifyIn(a, msg, signers, sig) = VerifyIn(b, msg, signers, sig)
    BY <1>1, SameColumnsSameVerdict
  <2> QED
    BY <2>1
<1>3. later.signature = in.signature /\ later.atHeight = b
  BY InputType DEF Inputs
<1>4. ASSUME NEW i, i.signature # Nil, i.atHeight # Nil
      PROVE  CheckBLSSignature(i) =
               said(VerifyIn(i.atHeight, i.signature.msg, i.signature.signers,
                             i.signature.sig).valid)
  <2> DEFINE v == VerifyIn(i.atHeight, i.signature.msg, i.signature.signers, i.signature.sig).valid
             skipped == i.signature = Nil \/ i.atHeight = Nil
  <2>1. v \in BOOLEAN
    BY VerifyType DEF VerifyIn
  <2>2. CheckBLSSignature(i)
          = Critical("BLS_VERIFICATION_FAILED", skipped \/ v,
                     IF skipped THEN "skipped" ELSE IF skipped \/ v THEN "valid" ELSE "invalid")
    BY DEF CheckBLSSignature, VerifyIn
  <2> HIDE DEF v
  <2>3. ~skipped
    BY <1>4
  <2>4. (skipped \/ v) = v
    BY <2>1, <2>3
  <2> HIDE DEF skipped
  <2> QED
    BY <2>2, <2>3, <2>4 DEF v
<1>5. ASSUME NEW i, i.signature = Nil
      PROVE  CheckBLSSignature(i) = Critical("BLS_VERIFICATION_FAILED", TRUE, "skipped")
  <2> DEFINE skipped == i.signature = Nil \/ i.atHeight = Nil
             v == VerifyIn(i.atHeight, i.signature.msg, i.signature.signers, i.signature.sig).valid
  <2>1. CheckBLSSignature(i)
          = Critical("BLS_VERIFICATION_FAILED", skipped \/ v,
                     IF skipped THEN "skipped" ELSE IF skipped \/ v THEN "valid" ELSE "invalid")
    BY DEF CheckBLSSignature, VerifyIn
  <2> HIDE DEF v
  <2>2. skipped /\ (skipped \/ v) = TRUE
    BY <1>5
  <2> HIDE DEF skipped
  <2> QED
    BY <2>1, <2>2
<1> HIDE DEF a, b, said
<1>6. CASE in.signature = Nil
  <2> HIDE DEF later
  <2> QED
    BY <1>3, <1>5, <1>6 DEF later, b
<1>7. CASE in.signature # Nil
  <2>1. CheckBLSSignature(in) = said(verdict(a))
    BY <1>1, <1>4, <1>7 DEF a
  <2>2. CheckBLSSignature(later) = said(verdict(b))
    <3> HIDE DEF later
    <3> QED
      BY <1>1, <1>3, <1>4, <1>7
  <2> QED
    BY <1>2, <2>1, <2>2 DEF b
<1> QED
  BY <1>6, <1>7

-----------------------------------------------------------------------------
(* The verdict on a signature, in every reachable state.                   *)

(* verifier.go 44-133: a signature passes only for the message that was    *)
(* signed and only if the keys that signed it hold the quorum of the set   *)
(* it is checked against, for every set, height and bitset and whoever     *)
(* shares a key, as long as the products do not overflow.                  *)
THEOREM ValidIsAlwaysSigned ==
  ASSUME ProductsFit
  PROVE  SigningSpec => []ValidMeansSigned
<1>1. SigningTypeOK /\ SignatureTraced => ValidMeansSigned
  BY SignedIfValid
<1> QED
  BY <1>1, SigningTypeCorrect, SignatureAlwaysTraced, PTL

(* set.go 36-38: where nobody shares a key and the bitset is one byte, an  *)
(* untouched signature of a quorum passes at the height it was made at,    *)
(* with whatever bits behind the last validator; SharedKeys.cfg and        *)
(* MisreadBitset.cfg show that neither premise can go.                     *)
THEOREM QuorumAlwaysRecognised ==
  ASSUME ProductsFit
  PROVE  SigningSpec => []QuorumIsRecognised
<1>1. SigningTypeOK /\ SignatureTraced => QuorumIsRecognised
  BY RecognisedIfQuorum
<1> QED
  BY <1>1, SigningTypeCorrect, SignatureAlwaysTraced, PTL

(* verifier.go 118-132: whatever is refused without an error is a genuine  *)
(* signature of too little stake.                                          *)
THEOREM OnlyQuorumAlwaysUnexplained ==
  ASSUME ProductsFit
  PROVE  SigningSpec => []OnlyQuorumGoesUnexplained
<1>1. SigningTypeOK /\ SignatureTraced => OnlyQuorumGoesUnexplained
  BY UnexplainedIfNoQuorum
<1> QED
  BY <1>1, SigningTypeCorrect, SignatureAlwaysTraced, PTL

(* verifier.go 102: where a signature passes, the stake check says that    *)
(* the quorum can be reached, although only the latter refuses a zero      *)
(* total: a signer has stake.                                              *)
THEOREM ThresholdsAlwaysAgree ==
  ASSUME ProductsFit, 0 \notin Weights
  PROVE  SigningSpec => []ThresholdsAgree
<1>1. SigningTypeOK /\ SignatureTraced => ThresholdsAgree
  BY ReachableIfValid
<1> QED
  BY <1>1, SigningTypeCorrect, SignatureAlwaysTraced, PTL

(* diff.go 62: an empty difference between two heights means the verdict   *)
(* of one is the verdict of the other, unless a key was rotated.           *)
THEOREM UnchangedAlwaysKeepsVerdict == SigningSpec => []UnchangedKeepsVerdict
<1>1. SigningTypeOK /\ SignatureTraced => UnchangedKeepsVerdict
  BY KeptIfUnchanged
<1> QED
  BY <1>1, SigningTypeCorrect, SignatureAlwaysTraced, PTL
==============================================================================
