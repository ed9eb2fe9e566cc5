SPECIFICATION Spec
CONSTANTS
  Nil = Nil
  Word = 256
  ByteBits = 8
  NoKey = NoKey
  BadKey = BadKey
  m1 = m1
  m2 = m2
  n1 = n1
  n2 = n2
  n3 = n3
  Nodes = {n1, n2, n3}
  Weights = {1, 2}
  Keys = {1, 2, NoKey, BadKey}
  EpochDuration = 2
  EpochGracePeriod = 1
  Msgs = {m1, m2}
  Networks = {"fuji", "mainnet"}
  Garbled = Garbled
  Receipts <- OneReceipt
  Snapshots <- ChurnSnapshots
  MaxHeight = 4
  MaxHead = 0
  QuorumNum = 67
  QuorumDen = 100
  Configs <- ChurnConfigs
  Window = 1
INVARIANTS
  UnchangedIsSeenAtTwoHeights
