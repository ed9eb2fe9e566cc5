SPECIFICATION FairCommandSpec
CONSTANTS
  Nil = Nil
  Word = 16
  ByteBits = 8
  NoKey = NoKey
  BadKey = BadKey
  m1 = m1
  m2 = m2
  n1 = n1
  l1 = l1
  Nodes = {n1}
  Weights = {1}
  Keys = {1, NoKey}
  EpochDuration = 1
  EpochGracePeriod = 1
  Msgs = {m1, m2}
  Networks = {"fuji", "mainnet"}
  Garbled = Garbled
  Receipts <- CommandReceipts
  Snapshots <- OneSnapshot
  MaxHeight = 3
  MaxHead = 1
  QuorumNum = 2
  QuorumDen = 3
  Configs <- CommandConfigs
  Window = 1
  Options <- CommandLines
  Unknown = Unknown
  Primary = Primary
  Subnets = {Primary, l1}
  Unparsable = Unparsable
  SubnetOf <- MCSubnetOf
  BlockSecs = 2
  Skew = 2
  MaxClock = 4
INVARIANTS
  CommandTypeOK
  FallbackAccusesNobody
  SubnetOfDiagnosedMessage
  OptionsGrounded
  ExitZeroMeansDelivered
PROPERTIES
  EstimateIsClose
  CommandReturns
