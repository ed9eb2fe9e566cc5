SPECIFICATION Spec
CONSTANTS
  Nil = Nil
  Word = 256
  ByteBits = 8
  NoKey = NoKey
  BadKey = BadKey
  m1 = m1
  m2 = m2
  n1 = n1
  n2 = n2
  n3 = n3
  Nodes = {n1}
  Weights = {1}
  Keys = {1, NoKey}
  EpochDuration = 1
  EpochGracePeriod = 1
  Msgs = {m1, m2}
  Networks = {"fuji", "mainnet"}
  Garbled = Garbled
  Receipts <- MCReceipts
  Snapshots <- OneSnapshot
  MaxHeight = 2
  MaxHead = 3
  QuorumNum = 67
  QuorumDen = 100
  Configs <- DeliveryConfigs
  Window = 1
INVARIANTS
  NeverPickedUpMeansAbsent
