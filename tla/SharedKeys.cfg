SPECIFICATION SigningSpec
CONSTANTS
  Nil = Nil
  Word = 4096
  ByteBits = 2
  NoKey = NoKey
  BadKey = BadKey
  m1 = m1
  m2 = m2
  n1 = n1
  n2 = n2
  n3 = n3
  Nodes = {n1, n2, n3}
  Weights = {1, 2}
  Keys = {1, 2, 3, NoKey}
  EpochDuration = 1
  EpochGracePeriod = 1
  Msgs = {m1, m2}
  Networks = {"fuji", "mainnet"}
  Garbled = Garbled
  Receipts <- OneReceipt
  Snapshots <- SigningSnapshots
  MaxHeight = 2
  MaxHead = 0
  QuorumNum = 67
  QuorumDen = 100
  Configs <- SigningConfigs
  Window = 1
INVARIANTS
  OrderingMatches
