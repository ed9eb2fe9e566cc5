---------------------------- MODULE CommandProofs ----------------------------
(***************************************************************************)
(* What holds of Command for every value of its constants.                 *)
(***************************************************************************)
EXTENDS Command, VerdictProofs

-----------------------------------------------------------------------------
(* Whole blocks in a time.                                                 *)

LEMMA WholeBlocks ==
  ASSUME NEW b \in Nat \ {0}, NEW x \in Nat
  PROVE  /\ x \div b \in Nat
         /\ (x \div b) * b <= x
         /\ x < (x \div b + 1) * b
OBVIOUS

LEMMA MoreBlocks ==
  ASSUME NEW b \in Nat \ {0}, NEW p \in Int, NEW q \in Int, p < q
  PROVE  (p + 1) * b <= q * b
<1>1. q - (p + 1) \in Nat
  OBVIOUS
<1>2. (q - (p + 1)) * b >= 0
  BY <1>1
<1>3. q * b = (q - (p + 1)) * b + (p + 1) * b
  OBVIOUS
<1> QED
  BY <1>2, <1>3

(* x holds fewer than q blocks if it is shorter than q blocks, and at      *)
(* least q blocks if it is not.                                            *)
LEMMA BlocksOf ==
  ASSUME NEW b \in Nat \ {0}, NEW x \in Nat, NEW q \in Int
  PROVE  /\ x < q * b <=> x \div b < q
         /\ q * b <= x <=> q <= x \div b
<1> DEFINE d == x \div b
<1>1. d \in Nat /\ d * b <= x /\ x < (d + 1) * b
  BY WholeBlocks
<1> HIDE DEF d
<1>2. ASSUME d < q PROVE x < q * b
  <2>1. (d + 1) * b <= q * b
    BY <1>1, <1>2, MoreBlocks
  <2>2. (d + 1) * b \in Int /\ q * b \in Int
    BY <1>1
  <2> QED
    BY <1>1, <2>1, <2>2
<1>3. ASSUME q <= d PROVE q * b <= x
  <2>1. CASE q = d
    BY <1>1, <2>1
  <2>2. CASE q < d
    <3>1. (q + 1) * b <= d * b
      BY <1>1, <2>2, MoreBlocks
    <3>2. (q + 1) * b = q * b + b
      OBVIOUS
    <3>3. q * b \in Int /\ d * b \in Int
      BY <1>1
    <3> QED
      BY <1>1, <3>1, <3>2, <3>3
  <2> QED
    BY <1>1, <1>3, <2>1, <2>2
<1>4. q * b \in Int
  OBVIOUS
<1> QED
  BY <1>1, <1>2, <1>3, <1>4 DEF d

LEMMA ExactBlocks ==
  ASSUME NEW b \in Nat \ {0}, NEW n \in Nat
  PROVE  n * b \in Nat /\ (n * b) \div b = n
<1>1. n * b \in Nat /\ n * b < (n + 1) * b
  OBVIOUS
<1>2. n <= (n * b) \div b /\ (n * b) \div b < n + 1
  BY <1>1, BlocksOf
<1>3. (n * b) \div b \in Nat
  BY <1>1, WholeBlocks
<1> QED
  BY <1>1, <1>2, <1>3

(* smart.go 51-71: whenever the time taken for the P-Chain's lies within   *)
(* its last block, the estimate is close.                                  *)
LEMMA EstimateBounds ==
  ASSUME NEW length \in UInt64, NEW height \in 1 .. length, NEW time \in Nat, NEW now \in Nat,
         now \div BlockSecs = length - 1
  PROVE  /\ Estimate(height, now, time) \in 1 .. length
         /\ Estimate(height, now, time) <= HeightAt(time) + 1
         /\ \/ Estimate(height, now, time) >= HeightAt(time) - (length - height)
            \/ Estimate(height, now, time) = height
<1> DEFINE b == BlockSecs
           p == time \div b
           d == (now - time) \div b
<1>0. b \in Nat \ {0} /\ length \in Nat /\ height \in Nat
  BY CommandAssumption, WordAssumption DEF UInt64
<1>1. p \in Nat /\ HeightAt(time) = 1 + p
  BY <1>0, WholeBlocks DEF HeightAt
<1>2. now < length * b /\ (length - 1) * b <= now
  BY <1>0, BlocksOf
<1>3. CASE time >= now
  <2>1. Estimate(height, now, time) = height
    BY <1>3 DEF Estimate
  <2>2. (length - 1) * b <= time
    <3>1. (length - 1) * b \in Int
      BY <1>0
    <3> QED
      BY <1>2, <1>3, <3>1
  <2>3. length - 1 <= p
    BY <1>0, <2>2, BlocksOf
  <2> QED
    BY <1>0, <1>1, <2>1, <2>3
<1>4. CASE time < now
  <2>1. now - time \in Nat
    BY <1>4
  <2>2. d \in Nat /\ d * b <= now - time /\ now - time < (d + 1) * b
    BY <1>0, <2>1, WholeBlocks
  <2> HIDE DEF d, p, b
  <2>3. d + p <= length - 1
    <3>1. time < (length - d) * b
      <4>1. (length - d) * b = length * b - d * b
        BY <1>0, <2>2
      <4>2. length * b \in Int /\ d * b \in Int
        BY <1>0, <2>2
      <4> QED
        BY <1>2, <2>2, <4>1, <4>2
    <3>2. p < length - d
      <4>1. length - d \in Int
        BY <1>0, <2>2
      <4> QED
        BY <1>0, <3>1, <4>1, BlocksOf DEF p
    <3> QED
      BY <1>0, <1>1, <2>2, <3>2
  <2>4. length - 2 - d <= p
    <3>1. (length - 2 - d) * b <= time
      <4>1. (length - 2 - d) * b = (length - 1) * b - (d + 1) * b
        BY <1>0, <2>2
      <4>2. (length - 1) * b \in Int /\ (d + 1) * b \in Int
        BY <1>0, <2>2
      <4> QED
        BY <1>2, <2>2, <4>1, <4>2
    <3>2. length - 2 - d \in Int
      BY <1>0, <2>2
    <3> QED
      BY <1>0, <3>1, <3>2, BlocksOf DEF p
  <2>5. CASE d >= height
    <3>1. Estimate(height, now, time) = 1
      BY <1>4, <2>5 DEF Estimate, d, b
    <3> QED
      BY <1>0, <1>1, <2>2, <2>3, <2>5, <3>1
  <2>6. CASE d < height
    <3>1. Estimate(height, now, time) = Minus(height, d)
      BY <1>0, <1>4, <2>2, <2>6 DEF Estimate, d, b
    <3>2. Minus(height, d) = height - d
      BY <1>0, <2>2, <2>6, MinusInRange, WordAssumption DEF UInt64
    <3> QED
      BY <1>0, <1>1, <2>2, <2>3, <2>4, <2>6, <3>1, <3>2
  <2> QED
    BY <1>0, <2>2, <2>5, <2>6
<1> QED
  BY <1>3, <1>4

-----------------------------------------------------------------------------
(* Type correctness.                                                       *)

(* Smart mode may change URLs, subnet and height, nothing else.            *)
LEMMA OptionsType ==
  ASSUME CommandTypeOK
  PROVE  /\ PrimaryIfNone(opts) \in OptionRecords
         /\ WithNetworkDefaults(opts) \in OptionRecords
         /\ \A s \in Subnets : [opts EXCEPT !.subnet = s] \in OptionRecords
         /\ \A h \in UInt64 : [opts EXCEPT !.height = h] \in OptionRecords
         /\ \A o \in {PrimaryIfNone(opts), WithNetworkDefaults(opts)}
                    \cup {[opts EXCEPT !.subnet = s] : s \in Subnets}
                    \cup {[opts EXCEPT !.height = h] : h \in UInt64} :
              /\ o.hash = opts.hash /\ o.destRPC = opts.destRPC /\ o.network = opts.network
              /\ o.from = opts.from /\ o.to = opts.to /\ o.json = opts.json
<1>1. opts \in OptionRecords /\ Primary \in Subnets
  BY CommandAssumption DEF CommandTypeOK
<1> QED
  BY <1>1 DEF PrimaryIfNone, WithNetworkDefaults, OptionRecords

(* What a step of smart mode or of runDiagnose has to show.                *)
LEMMA OptionsStep ==
  ASSUME CommandTypeOK, TypeOK', UNCHANGED asked,
         \/ UNCHANGED opts
         \/ opts' \in {PrimaryIfNone(opts), WithNetworkDefaults(opts)}
         \/ opts' \in {[opts EXCEPT !.subnet = s] : s \in Subnets}
         \/ opts' \in {[opts EXCEPT !.height = h] : h \in UInt64},
         stage' \in Stages, stage' = "dialClients" => opts.network # Unknown,
         late' \in BOOLEAN, txTime' \in Nat \cup {Nil}, seen' \in UInt64 \cup {Nil},
         missed' \subseteq SmartCalls, exit' \in {Nil, 0, 1},
         clock' \in 0 .. MaxClock, mined' \in Nat \cup {Nil},
         stage' \in {"header", "validatedBy"} => receipt' # Nil,
         stage' = "validatedBy" => SourceMessage' # Nil
  PROVE  CommandTypeOK'
<1>1. asked' \in Options
  BY DEF CommandTypeOK
<1>2. /\ opts' \in OptionRecords
      /\ opts'.hash = opts.hash /\ opts'.destRPC = opts.destRPC
      /\ opts'.network = opts.network
      /\ opts'.from = opts.from /\ opts'.to = opts.to /\ opts'.json = opts.json
  BY OptionsType DEF CommandTypeOK
<1>3. \A field \in {"hash", "destRPC", "network", "from", "to", "json"} :
        opts'[field] = asked'[field]
  BY <1>2 DEF CommandTypeOK
<1> QED
  BY <1>1, <1>2, <1>3 DEF CommandTypeOK

LEMMA CommandInitType == CommandInit => CommandTypeOK
<1> SUFFICES ASSUME CommandInit PROVE CommandTypeOK
  OBVIOUS
<1>1. cfg \in Configs
  BY CommandAssumption DEF CommandInit
<1>2. TypeOK
  BY <1>1, InitType DEF CommandInit, Init
<1>3. mined \in Nat \cup {Nil}
  BY CommandAssumption DEF CommandInit
<1>4. 0 \in 0 .. MaxClock
  BY CommandAssumption
<1> QED
  BY <1>2, <1>3, <1>4, CommandAssumption DEF CommandInit, CommandTypeOK, Stages, SmartCalls

(* diagnose.go 278-298: the message found is one of the receipt's.         *)
LEMMA SourceMessageType ==
  ASSUME receipt \in Receipts, receipt # Nil, SourceMessage # Nil
  PROVE  SourceMessage \in Msgs
<1> DEFINE sends == {i \in DOMAIN receipt : receipt[i].warp /\ receipt[i].network # Garbled}
<1>1. receipt \in Seq(SendLogs)
  BY ChainAssumption
<1>2. sends # {} /\ SourceMessage = receipt[Min(sends)].msg
  BY DEF SourceMessage
<1>3. Min(sends) \in 1 .. Len(receipt)
  <2>1. sends \subseteq Nat
    BY <1>1
  <2>2. Min(sends) \in sends
    BY <1>2, <2>1, LeastNatural
  <2> QED
    BY <1>1, <2>2
<1>4. receipt[Min(sends)] \in SendLogs
  BY <1>1, <1>3, ElementOfSeq
<1> HIDE DEF sends
<1> QED
  BY <1>2, <1>4 DEF SendLogs

(* A step that leaves engine and chains alone keeps their types.           *)
LEMMA QuietType == CommandTypeOK /\ UNCHANGED vars => TypeOK'
  BY StepType DEF CommandTypeOK

LEMMA BeginType == CommandTypeOK /\ Begin => CommandTypeOK'
<1> SUFFICES ASSUME CommandTypeOK, Begin PROVE CommandTypeOK'
  OBVIOUS
<1>1. TypeOK'
  BY QuietType DEF Begin
<1>2. stage' \in {"exit", "dial", "validate"} /\ exit' \in {exit, 1}
  BY DEF Begin
<1>3. opts' = opts \/ opts' = WithNetworkDefaults(opts)
  BY DEF Begin
<1> QED
  BY <1>1, <1>2, <1>3, OptionsStep DEF Begin, CommandTypeOK, Stages, SmartCalls, timeVars

(* smart.go 37-72: the estimate is close, whichever clock was read.        *)
LEMMA EstimateTaken ==
  ASSUME CommandTypeOK, KeepsPace, EstimateGetTimestamp
  PROVE  /\ opts' \in {[opts EXCEPT !.height = h] : h \in UInt64}
         /\ opts'.height \in 1 .. Len(pchain)
         /\ opts'.height <= HeightAt(txTime) + 1
         /\ opts'.height >= HeightAt(txTime) - (Len(pchain) - seen) \/ opts'.height = seen
<1>1. PICK now \in {Timestamp, clock} :
        opts' = [opts EXCEPT !.height = Estimate(seen, now, txTime)]
  BY DEF EstimateGetTimestamp
<1>2. Len(pchain) \in UInt64 /\ Len(pchain) \in Nat \ {0}
  BY ChainAssumption, WordAssumption DEF CommandTypeOK, TypeOK, ChainTypeOK, UInt64
<1>3. seen \in 1 .. Len(pchain) /\ txTime \in Nat /\ Len(pchain) = HeightAt(clock)
  BY DEF EstimateGetTimestamp, KeepsPace, TimeMatters, SmartCalls
<1>4. now \in Nat /\ now \div BlockSecs = Len(pchain) - 1
  <2>1. CASE now = clock
    BY <1>2, <1>3, <2>1, CommandAssumption, WholeBlocks DEF CommandTypeOK, HeightAt
  <2>2. CASE now = Timestamp
    <3>1. now = (Len(pchain) - 1) * BlockSecs /\ Len(pchain) - 1 \in Nat
      BY <1>2, <2>2 DEF Timestamp
    <3> QED
      BY <3>1, CommandAssumption, ExactBlocks
  <2> QED
    BY <1>1, <2>1, <2>2
<1> DEFINE height == Estimate(seen, now, txTime)
<1>5. /\ height \in 1 .. Len(pchain)
      /\ height <= HeightAt(txTime) + 1
      /\ height >= HeightAt(txTime) - (Len(pchain) - seen) \/ height = seen
  BY <1>2, <1>3, <1>4, EstimateBounds
<1> HIDE DEF height
<1>6. opts'.height = height
  BY <1>1 DEF CommandTypeOK, OptionRecords, height
<1>7. height \in UInt64
  BY <1>2, <1>5, WordAssumption DEF UInt64
<1> QED
  BY <1>1, <1>5, <1>6, <1>7 DEF height

LEMMA SmartCallType == CommandTypeOK /\ KeepsPace /\ SmartCall => CommandTypeOK'
<1> SUFFICES ASSUME CommandTypeOK, KeepsPace, SmartCall PROVE CommandTypeOK'
  OBVIOUS
<1>1. /\ TypeOK' /\ UNCHANGED <<asked, exit, clock, mined, receipt>>
      /\ SourceMessage' = SourceMessage
  BY QuietType
  DEF SmartCall, Dial, GetReceipt, GetHeader, ValidatedBy, EstimateGetHeight,
      EstimateGetTimestamp, timeVars, vars, chainVars, SourceMessage
<1>2. stage \in SmartCalls /\ missed' \subseteq SmartCalls
  <2>1. stage \in SmartCalls
    BY DEF SmartCall, Dial, GetReceipt, GetHeader, ValidatedBy, EstimateGetHeight,
           EstimateGetTimestamp, SmartCalls
  <2>2. missed' = missed \/ missed' = missed \cup {stage}
    BY DEF SmartCall, Dial, GetReceipt, GetHeader, ValidatedBy, EstimateGetHeight,
           EstimateGetTimestamp, Heard, Missed
  <2> QED
    BY <2>1, <2>2 DEF CommandTypeOK
<1>3. CASE Dial \/ GetReceipt
  BY <1>1, <1>2, <1>3, OptionsStep
  DEF Dial, GetReceipt, FallBack, CommandTypeOK, Stages, SmartCalls
<1>4. CASE GetHeader
  <2>1. PICK time \in Nat \cup {Nil} : ToSubnetPass(time)
    BY <1>4 DEF GetHeader, CommandTypeOK
  <2> QED
    BY <1>1, <1>2, <1>4, <2>1, OptionsStep
    DEF GetHeader, ToSubnetPass, ToHeightPass, CommandTypeOK, Stages, SmartCalls
<1>5. CASE ValidatedBy
  <2>1. SourceMessage \in Msgs
    BY <1>5, SourceMessageType DEF ValidatedBy, CommandTypeOK, TypeOK, ChainTypeOK
  <2>2. SubnetOf[SourceMessage] \in Subnets
    BY <2>1, CommandAssumption
  <2>3. \/ opts' = PrimaryIfNone(opts)
        \/ opts' \in {[opts EXCEPT !.subnet = s] : s \in Subnets}
    BY <1>5, <2>2 DEF ValidatedBy
  <2> QED
    BY <1>1, <1>2, <1>5, <2>3, OptionsStep
    DEF ValidatedBy, ToHeightPass, CommandTypeOK, Stages, SmartCalls
<1>6. CASE EstimateGetHeight
  <2>1. Len(pchain) \in UInt64
    BY ChainAssumption, WordAssumption DEF CommandTypeOK, TypeOK, ChainTypeOK, UInt64
  <2> QED
    BY <1>1, <1>2, <1>6, <2>1, OptionsStep
    DEF EstimateGetHeight, CommandTypeOK, Stages, SmartCalls
<1>7. CASE EstimateGetTimestamp
  BY <1>1, <1>2, <1>7, EstimateTaken, OptionsStep
  DEF EstimateGetTimestamp, CommandTypeOK, Stages, SmartCalls
<1> QED
  BY <1>3, <1>4, <1>5, <1>6, <1>7 DEF SmartCall

(* runDiagnose 334-363: the Engine made of usable options is one of those  *)
(* Diagnosis knows.                                                        *)
LEMMA EngineForType ==
  ASSUME CommandTypeOK, opts.network # Unknown
  PROVE  EngineFor(opts) \in Configs /\ opts.network \in Networks
<1>1. opts.height \in UInt64 /\ opts.network \in Networks /\ asked \in OptionRecords
  BY CommandAssumption DEF CommandTypeOK, OptionRecords
<1>2. /\ opts.destRPC = asked.destRPC /\ opts.network = asked.network
      /\ opts.from = asked.from /\ opts.to = asked.to
  BY DEF CommandTypeOK
<1> DEFINE filled == [asked EXCEPT !.height = opts.height]
<1>3. EngineFor(filled) \in Configs
  BY <1>1, <1>2, CommandAssumption DEF CommandTypeOK
<1>4. EngineFor(filled) = EngineFor(opts)
  <2>1. /\ filled.height = opts.height /\ filled.destRPC = opts.destRPC
        /\ filled.network = opts.network /\ filled.from = opts.from /\ filled.to = opts.to
    BY <1>1, <1>2 DEF OptionRecords
  <2> HIDE DEF filled
  <2> QED
    BY <2>1 DEF EngineFor
<1> QED
  BY <1>1, <1>3, <1>4

LEMMA RunnerType ==
  CommandTypeOK /\ (SmartDeadline \/ Validate \/ DialClients \/ Finish) => CommandTypeOK'
<1> SUFFICES ASSUME CommandTypeOK, SmartDeadline \/ Validate \/ DialClients \/ Finish
             PROVE  CommandTypeOK'
  OBVIOUS
<1>1. CASE SmartDeadline
  <2>1. TypeOK'
    BY <1>1, QuietType DEF SmartDeadline
  <2>2. SourceMessage' = SourceMessage /\ UNCHANGED receipt
    BY <1>1 DEF SmartDeadline, SourceMessage, vars, chainVars
  <2> QED
    BY <1>1, <2>1, <2>2, OptionsStep DEF SmartDeadline, CommandTypeOK, timeVars
<1>2. CASE Validate
  <2>1. TypeOK'
    BY <1>2, QuietType DEF Validate
  <2>2. 0 \in 0 .. MaxClock
    BY CommandAssumption
  <2>3. stage' \in {"dialClients", "exit"} /\ (stage' = "dialClients" => opts.network # Unknown)
        /\ exit' \in {exit, 1}
    BY <1>2 DEF Validate, Usable
  <2> QED
    BY <1>2, <2>1, <2>2, <2>3, OptionsStep DEF Validate, CommandTypeOK, Stages
<1>3. CASE DialClients
  <2>1. stage' \in {"engine", "exit"} /\ exit' \in {exit, 1}
        /\ UNCHANGED <<asked, opts, late, txTime, seen, missed, clock, mined>>
    BY <1>3 DEF DialClients, smartVars, timeVars
  <2>2. cfg' \in Configs /\ in' \in Inputs
    <3>1. EngineFor(opts) \in Configs /\ opts.network \in Networks
      BY <1>3, EngineForType DEF DialClients, CommandTypeOK
    <3> QED
      BY <1>3, <3>1 DEF DialClients, CommandTypeOK, TypeOK, Inputs
  <2>3. TypeOK'
    BY <1>3, <2>2 DEF DialClients, CommandTypeOK, TypeOK, ChainTypeOK, chainVars
  <2> QED
    BY <2>1, <2>3, OptionsStep DEF CommandTypeOK, Stages
<1>4. CASE Finish
  <2>1. TypeOK'
    BY <1>4, QuietType DEF Finish
  <2>2. exit' \in {0, 1} /\ stage' = "exit"
        /\ UNCHANGED <<asked, opts, late, txTime, seen, missed, clock, mined>>
    BY <1>4 DEF Finish, ExitCodes, smartVars, timeVars
  <2> QED
    BY <2>1, <2>2, OptionsStep DEF CommandTypeOK, Stages
<1> QED
  BY <1>1, <1>2, <1>3, <1>4

(* What goes on around runDiagnose: the engine, the time and the chains.   *)
LEMMA SurroundingsType ==
  ASSUME CommandTypeOK,
         \/ EngineCall \/ EngineDeadline \/ ChainsMove \/ Tick \/ Mine
  PROVE  CommandTypeOK'
<1>1. CASE EngineCall \/ EngineDeadline \/ ChainsMove
  <2>1. Next
    BY <1>1 DEF EngineCall, EngineDeadline, ChainsMove, Next
  <2>2. TypeOK'
    BY <2>1, StepType DEF CommandTypeOK
  <2>3. /\ UNCHANGED <<stage, asked, opts, late, txTime, seen, missed, exit, clock, mined>>
        /\ stage \in {"dialClients", "engine"}
    BY <1>1 DEF EngineCall, EngineDeadline, ChainsMove, smartVars, timeVars
  <2> QED
    BY <2>2, <2>3, OptionsStep DEF CommandTypeOK
<1>2. CASE Tick
  <2>1. /\ UNCHANGED <<engineVars, stage, asked, opts, late, txTime, seen, missed, exit, mined>>
        /\ clock' = clock + 1 /\ clock < MaxClock
        /\ NewPChainBlock \/ UNCHANGED chainVars
    BY <1>2 DEF Tick, smartVars
  <2>2. ChainTypeOK'
    BY <2>1, NewBlockType DEF CommandTypeOK, TypeOK, ChainTypeOK, chainVars
  <2>3. TypeOK'
    BY <2>1, <2>2 DEF CommandTypeOK, TypeOK, engineVars
  <2>4. SourceMessage' = SourceMessage /\ UNCHANGED receipt
    BY <2>1 DEF SourceMessage, NewPChainBlock, chainVars
  <2>5. clock' \in 0 .. MaxClock
    BY <2>1, CommandAssumption DEF CommandTypeOK
  <2> QED
    BY <2>1, <2>3, <2>4, <2>5, OptionsStep DEF CommandTypeOK
<1>3. CASE Mine
  <2>1. /\ UNCHANGED <<pchain, head, logs, engineVars, stage, asked, opts, late, txTime, seen,
                       missed, exit, clock>>
        /\ receipt = Nil /\ receipt' \in Receipts
    BY <1>3 DEF Mine, smartVars
  <2>2. TypeOK'
    BY <2>1 DEF CommandTypeOK, TypeOK, ChainTypeOK, engineVars
  <2>3. mined' \in Nat \cup {Nil}
    BY <1>3, CommandAssumption DEF Mine, CommandTypeOK
  <2>4. stage \notin {"header", "validatedBy"}
    BY <2>1 DEF CommandTypeOK
  <2> QED
    BY <2>1, <2>2, <2>3, <2>4, OptionsStep DEF CommandTypeOK
<1> QED
  BY <1>1, <1>2, <1>3

-----------------------------------------------------------------------------
(* The height estimate.                                                    *)

LEMMA PaceInit == CommandInit => KeepsPace
<1> SUFFICES ASSUME CommandInit PROVE KeepsPace
  OBVIOUS
<1>1. Len(pchain) = 1 /\ clock = 0 /\ stage = "begin"
  <2>1. PICK s \in Snapshots : pchain = <<s>>
    BY DEF CommandInit, ChainInit
  <2> QED
    BY <2>1 DEF CommandInit
<1>2. 0 \div BlockSecs = 0
  BY CommandAssumption, ExactBlocks
<1> QED
  BY <1>1, <1>2 DEF KeepsPace, HeightAt

(* A tick completes a block or does not.                                   *)
LEMMA TickHeight ==
  ASSUME NEW time \in Nat
  PROVE  HeightAt(time + 1) = IF (time + 1) % BlockSecs = 0 THEN HeightAt(time) + 1
                              ELSE HeightAt(time)
<1> DEFINE b == BlockSecs
           p == time \div b
           q == (time + 1) \div b
<1>1. b \in Nat \ {0}
  BY CommandAssumption
<1>2. p \in Nat /\ p * b <= time /\ time < (p + 1) * b
  BY <1>1, WholeBlocks
<1>3. q \in Nat /\ q * b <= time + 1 /\ time + 1 < (q + 1) * b
  BY <1>1, WholeBlocks
<1>4. ((time + 1) % b) = time + 1 - q * b
  <2>1. time + 1 = b * q + ((time + 1) % b)
    BY <1>1
  <2>2. ((time + 1) % b) \in Int /\ b * q = q * b /\ q * b \in Int
    BY <1>1, <1>3
  <2> HIDE DEF b, q
  <2> QED
    BY <2>1, <2>2
<1>5. HeightAt(time) = 1 + p /\ HeightAt(time + 1) = 1 + q
  BY DEF HeightAt
<1> HIDE DEF b, p, q
<1>6. p * b \in Nat /\ q * b \in Nat /\ (p + 1) * b = p * b + b /\ (q + 1) * b = q * b + b
  BY <1>1, <1>2, <1>3
<1>7. p <= q
  <2> SUFFICES ASSUME q < p PROVE FALSE
    BY <1>2, <1>3
  <2>1. (q + 1) * b <= p * b
    BY <1>1, <1>2, <1>3, MoreBlocks
  <2> QED
    BY <1>1, <1>2, <1>3, <1>6, <2>1
<1>8. q <= p + 1
  <2> SUFFICES ASSUME p + 1 < q PROVE FALSE
    BY <1>2, <1>3
  <2>1. (p + 1 + 1) * b <= q * b
    BY <1>1, <1>2, <1>3, MoreBlocks
  <2>2. (p + 1 + 1) * b = p * b + b + b
    BY <1>1, <1>2
  <2> QED
    BY <1>1, <1>2, <1>3, <1>6, <2>1, <2>2
<1>9. ((time + 1) % b) = 0 <=> q = p + 1
  <2>1. CASE q = p
    BY <1>1, <1>2, <1>4, <1>6, <2>1
  <2>2. CASE q = p + 1
    BY <1>1, <1>2, <1>3, <1>4, <1>6, <2>2
  <2> QED
    BY <1>2, <1>3, <1>7, <1>8, <2>1, <2>2
<1> QED
  BY <1>2, <1>3, <1>5, <1>7, <1>8, <1>9 DEF b

LEMMA PaceStep ==
  CommandTypeOK /\ KeepsPace /\ [CommandNext]_commandVars => KeepsPace'
<1> SUFFICES ASSUME CommandTypeOK, KeepsPace, [CommandNext]_commandVars PROVE KeepsPace'
  OBVIOUS
<1>0. Len(pchain) \in Nat /\ Len(pchain) >= 1
  BY DEF CommandTypeOK, TypeOK, ChainTypeOK
<1>1. CASE Begin \/ SmartDeadline \/ UNCHANGED commandVars \/ Exited
  <2>1. /\ UNCHANGED <<pchain, clock, txTime, seen>>
        /\ stage' \in {stage, "exit", "dial", "validate"}
        /\ stage' # stage => stage = "begin"
    BY <1>1 DEF Begin, SmartDeadline, Exited, commandVars, vars, chainVars, smartVars, timeVars
  <2> QED
    BY <2>1 DEF KeepsPace, TimeMatters, HeightAt, SmartCalls
<1>2. CASE SmartCall
  <2>1. /\ UNCHANGED <<pchain, clock>> /\ TimeMatters
        /\ stage' = "getTimestamp" => seen' = Len(pchain) /\ stage = "getHeight"
                                       /\ txTime' = txTime
        /\ stage' = "getHeight" => txTime' # Nil /\ txTime' \in Nat \cup {Nil}
    BY <1>2 DEF SmartCall, Dial, GetReceipt, GetHeader, ValidatedBy, EstimateGetHeight,
                EstimateGetTimestamp, FallBack, ToSubnetPass, ToHeightPass, CommandTypeOK,
                TimeMatters, SmartCalls, vars, chainVars, timeVars
  <2> QED
    BY <1>0, <2>1 DEF KeepsPace, TimeMatters, HeightAt, SmartCalls
<1>3. CASE Validate \/ DialClients \/ EngineCall \/ EngineDeadline \/ Finish \/ ChainsMove
  <2>1. stage' \in {"dialClients", "engine", "exit"}
    BY <1>3 DEF Validate, DialClients, EngineCall, EngineDeadline, Finish, ChainsMove
  <2> QED
    BY <2>1 DEF KeepsPace, TimeMatters, SmartCalls
<1>4. CASE Tick
  <2>1. /\ UNCHANGED <<stage, txTime, seen>> /\ TimeMatters /\ clock' = clock + 1
        /\ clock \in Nat
    BY <1>4 DEF Tick, smartVars, CommandTypeOK
  <2>2. Len(pchain') = IF (clock + 1) % BlockSecs = 0 THEN Len(pchain) + 1 ELSE Len(pchain)
    <3>1. CASE (clock + 1) % BlockSecs = 0
      <4>1. NewPChainBlock
        BY <1>4, <2>1, <3>1 DEF Tick
      <4>2. PICK s \in Snapshots : pchain' = Append(pchain, s)
        BY <4>1 DEF NewPChainBlock
      <4> QED
        BY <3>1, <4>2 DEF CommandTypeOK, TypeOK, ChainTypeOK
    <3>2. CASE (clock + 1) % BlockSecs # 0
      BY <1>4, <2>1, <3>2 DEF Tick, chainVars
    <3> QED
      BY <3>1, <3>2
  <2>3. Len(pchain') = HeightAt(clock + 1)
    BY <2>1, <2>2, TickHeight DEF KeepsPace
  <2> QED
    BY <1>0, <2>1, <2>2, <2>3 DEF KeepsPace, TimeMatters
<1>5. CASE Mine
  BY <1>5 DEF Mine, smartVars, KeepsPace, TimeMatters, HeightAt
<1> QED
  BY <1>1, <1>2, <1>3, <1>4, <1>5 DEF CommandNext

LEMMA CommandStepType ==
  CommandTypeOK /\ KeepsPace /\ [CommandNext]_commandVars => CommandTypeOK'
<1> SUFFICES ASSUME CommandTypeOK, KeepsPace, [CommandNext]_commandVars PROVE CommandTypeOK'
  OBVIOUS
<1>1. CASE UNCHANGED commandVars
  BY <1>1, QuietType DEF commandVars, CommandTypeOK, SourceMessage, vars, chainVars,
                         smartVars, timeVars
<1> QED
  BY <1>1, BeginType, SmartCallType, RunnerType, SurroundingsType DEF CommandNext, Exited

(* diagnose.go 157-380: for every command line, every way the calls fail   *)
(* and every timing, smart mode hands the engine options of the right kind *)
(* and asks it nothing for options that cannot be used.                    *)
THEOREM CommandTypeCorrect == CommandSpec => [](CommandTypeOK /\ KeepsPace)
  BY CommandInitType, PaceInit, CommandStepType, PaceStep, PTL DEF CommandSpec

(* smart.go 37-72: the estimated height exists and is close to the height  *)
(* at the transaction's time, for every block time, skew of the source     *)
(* chain's clock and length of the P-Chain.                                *)
THEOREM EstimateAlwaysClose == CommandSpec => EstimateIsClose
<1> DEFINE Close ==
      stage = "getTimestamp" /\ stage' = "validate" =>
        LET height == opts'.height
            grown  == Len(pchain) - seen
        IN  /\ height \in DOMAIN pchain
            /\ height <= HeightAt(txTime) + 1
            /\ height >= HeightAt(txTime) - grown \/ height = seen
<1>1. CommandTypeOK /\ KeepsPace /\ [CommandNext]_commandVars => [Close]_commandVars
  <2> SUFFICES ASSUME CommandTypeOK, KeepsPace, [CommandNext]_commandVars,
                      stage = "getTimestamp", stage' = "validate"
               PROVE  Close
    OBVIOUS
  <2>1. EstimateGetTimestamp
    BY DEF CommandNext, commandVars, Begin, SmartCall, Dial, GetReceipt, GetHeader, ValidatedBy,
           EstimateGetHeight, SmartDeadline, Validate, DialClients, EngineCall, EngineDeadline,
           ChainsMove, Finish, Tick, Mine, Exited
  <2>2. DOMAIN pchain = 1 .. Len(pchain)
    BY DEF CommandTypeOK, TypeOK, ChainTypeOK
  <2> QED
    BY <2>1, <2>2, EstimateTaken
<1> QED
  BY <1>1, CommandTypeCorrect, PTL DEF CommandSpec, EstimateIsClose

-----------------------------------------------------------------------------
(* The exit code.                                                          *)

LEMMA CommandInitEvidence == CommandInit => EvidenceHolds /\ ExitFromReport
<1> SUFFICES ASSUME CommandInit PROVE EvidenceHolds /\ ExitFromReport
  OBVIOUS
<1>1. \A m : Received(m) = {} /\ Failed(m) = {}
  BY DEF CommandInit, ChainInit, Received, Failed, LogOf
<1>2. pc = "GetSendWarpEvent" /\ stage = "begin" /\ in.receive = Nil /\ in.execFailed = Nil
  BY DEF CommandInit
<1> QED
  BY <1>1, <1>2 DEF EvidenceHolds, DeliveredOnce, GatheredSoFar, ReceiveSeen, RevertSeen,
                    HealthyFromEvidence, ExitFromReport, Steps

(* DialClients sets the network the engine expects; smart mode, the clock  *)
(* and the source chain leave what the engine knows alone.                 *)
LEMMA CommandStepEvidence ==
  ASSUME CommandTypeOK, EvidenceHolds, [CommandNext]_commandVars
  PROVE  EvidenceHolds'
<1>0. TypeOK
  BY DEF CommandTypeOK
<1>1. CASE EngineCall \/ EngineDeadline \/ ChainsMove
  <2>1. Next
    BY <1>1 DEF EngineCall, EngineDeadline, ChainsMove, Next
  <2> QED
    BY <1>0, <2>1, StepEvidence
<1>2. CASE DialClients
  <2>1. /\ UNCHANGED <<logs, range, pc, lost, report>>
        /\ in' = in \/ in' = [in EXCEPT !.expected = opts.network]
    BY <1>2 DEF DialClients, chainVars
  <2>2. /\ in'.sendEvent = in.sendEvent
        /\ in'.receive = in.receive
        /\ in'.execFailed = in.execFailed
    BY <1>0, <2>1 DEF TypeOK, Inputs
  <2> QED
    BY <2>1, <2>2 DEF EvidenceHolds, DeliveredOnce, GatheredSoFar, ReceiveSeen, RevertSeen,
                      HealthyFromEvidence, InRange, InBlocks, Received, Failed, LogOf, Target
<1>3. CASE \/ Begin \/ SmartCall \/ SmartDeadline \/ Validate \/ Finish \/ Tick \/ Mine
           \/ Exited \/ UNCHANGED commandVars
  <2>1. UNCHANGED <<head, logs, pc, in, range, lost, report>>
    BY <1>3 DEF Begin, SmartCall, Dial, GetReceipt, GetHeader, ValidatedBy, EstimateGetHeight,
                EstimateGetTimestamp, SmartDeadline, Validate, Finish, Tick, NewPChainBlock, Mine,
                Exited, commandVars, vars, chainVars, engineVars
  <2> QED
    BY <2>1, QuietEvidence
<1> QED
  BY <1>1, <1>2, <1>3 DEF CommandNext

(* Every other way out of the command sets the exit code to 1.             *)
LEMMA CommandStepExit ==
  ASSUME CommandTypeOK, ExitFromReport, [CommandNext]_commandVars
  PROVE  ExitFromReport'
<1>1. CASE Finish
  <2>1. /\ pc' = "done" /\ opts' = opts /\ report' = report /\ exit' \in ExitCodes
    BY <1>1 DEF Finish, vars, engineVars, smartVars
  <2>2. exit' = 0 /\ ~opts.json => report.isHealthy
    BY <2>1 DEF ExitCodes
  <2> QED
    BY <2>1, <2>2 DEF ExitFromReport
<1>2. CASE Begin \/ Validate \/ DialClients
  <2>1. stage' = "exit" => exit' = 1
    BY <1>2 DEF Begin, Validate, DialClients
  <2> QED
    BY <2>1 DEF ExitFromReport
<1>3. CASE SmartCall \/ SmartDeadline \/ EngineCall \/ EngineDeadline \/ ChainsMove \/ Tick \/ Mine
  <2>1. stage' # "exit"
    BY <1>3 DEF SmartCall, Dial, GetReceipt, GetHeader, ValidatedBy, EstimateGetHeight,
                EstimateGetTimestamp, FallBack, ToSubnetPass, ToHeightPass, SmartDeadline,
                EngineCall, EngineDeadline, ChainsMove, Tick, TimeMatters, Mine, SmartCalls
  <2> QED
    BY <2>1 DEF ExitFromReport
<1>4. CASE Exited \/ UNCHANGED commandVars
  BY <1>4 DEF Exited, commandVars, vars, engineVars, smartVars, ExitFromReport
<1> QED
  BY <1>1, <1>2, <1>3, <1>4 DEF CommandNext

(* diagnose.go 365-379: for every command line, a table with exit code 0   *)
(* means that the message was received and, unless the search for a revert *)
(* was lost, did not revert, however many calls failed before.             *)
THEOREM ExitZeroIsDelivered == CommandSpec => []ExitZeroMeansDelivered
<1>1. CommandTypeOK /\ EvidenceHolds /\ ExitFromReport => ExitZeroMeansDelivered
  <2> SUFFICES ASSUME CommandTypeOK, EvidenceHolds, ExitFromReport,
                      stage = "exit", exit = 0, ~opts.json
               PROVE  /\ report # Nil
                      /\ InRange(Received(Target)) # {}
                      /\ Failed(Target) # {} => "FindExecutionFailedEvent" \in lost
    BY DEF ExitZeroMeansDelivered
  <2>1. pc = "done" /\ report.isHealthy
    BY DEF ExitFromReport
  <2>2. report # Nil
    BY <2>1 DEF CommandTypeOK, TypeOK
  <2> QED
    BY <2>1, <2>2, HealthyFollows DEF HealthyMeansDelivered
<1>2. CommandTypeOK /\ EvidenceHolds /\ [CommandNext]_commandVars => EvidenceHolds'
  BY CommandStepEvidence
<1>3. CommandTypeOK /\ ExitFromReport /\ [CommandNext]_commandVars => ExitFromReport'
  BY CommandStepExit
<1> QED
  BY <1>1, <1>2, <1>3, CommandInitEvidence, CommandTypeCorrect, PTL DEF CommandSpec
-----------------------------------------------------------------------------
(* What the engine asks about follows from the options, and these from the *)
(* source message.                                                         *)

LEMMA CommandInitGrounded == CommandInit => OptionsGrounded
<1> SUFFICES ASSUME CommandInit PROVE OptionsGrounded
  OBVIOUS
<1>1. EngineIdle /\ stage = "begin" /\ missed = {} /\ opts = asked
  BY DEF CommandInit, EngineIdle
<1> QED
  BY <1>1 DEF OptionsGrounded, EngineFollowsOptions, InputFollowsChains, SubnetFollowsMessage,
              HeightStaysUnknown, EngineIdle

(* The steps of smart mode and of runDiagnose but for the dials, and those *)
(* of the time, leave the engine and the receipt alone.                    *)
LEMMA QuietSteps ==
  ASSUME \/ Begin \/ SmartCall \/ SmartDeadline \/ Validate \/ Finish \/ Tick \/ Exited
         \/ UNCHANGED commandVars
  PROVE  UNCHANGED <<engineVars, receipt>>
BY DEF Begin, SmartCall, Dial, GetReceipt, GetHeader, ValidatedBy, EstimateGetHeight,
       EstimateGetTimestamp, SmartDeadline, Validate, Finish, Tick, NewPChainBlock, chainVars,
       Exited, commandVars, vars

(* The engine's steps and the chains' leave smart mode alone.              *)
LEMMA EngineSteps ==
  ASSUME EngineCall \/ EngineDeadline \/ ChainsMove
  PROVE  /\ Next
         /\ UNCHANGED <<stage, asked, opts, late, txTime, seen, missed, exit, clock, mined>>
         /\ stage = "engine" \/ (stage = "dialClients" /\ UNCHANGED <<pc, in, report>>)
BY DEF EngineCall, EngineDeadline, ChainsMove, Next, Deadline, smartVars, timeVars

LEMMA EngineFollowsOptionsStep ==
  ASSUME CommandTypeOK, EngineFollowsOptions, [CommandNext]_commandVars
  PROVE  EngineFollowsOptions'
<1> USE DEF EngineFollowsOptions
<1>1. CASE Begin \/ SmartCall \/ SmartDeadline \/ Validate \/ Tick
  <2>1. UNCHANGED <<pc, in, report>>
    BY <1>1, QuietSteps DEF engineVars
  <2>2. stage \notin {"engine", "exit"} /\ stage' # "engine"
    BY <1>1 DEF Begin, SmartCall, Dial, GetReceipt, GetHeader, ValidatedBy, EstimateGetHeight,
                EstimateGetTimestamp, FallBack, ToSubnetPass, ToHeightPass, SmartDeadline,
                Validate, Tick, TimeMatters, SmartCalls
  <2> QED
    BY <2>1, <2>2 DEF EngineIdle
<1>2. CASE Finish \/ Exited \/ UNCHANGED commandVars
  <2>1. UNCHANGED <<pc, in, report, cfg, opts>>
    BY <1>2 DEF Finish, Exited, commandVars, vars, engineVars, smartVars
  <2>2. stage' = stage \/ (stage = "engine" /\ stage' = "exit")
    BY <1>2 DEF Finish, Exited, commandVars
  <2> QED
    BY <2>1, <2>2 DEF EngineIdle, EngineFor
<1>3. CASE DialClients
  BY <1>3 DEF DialClients, EngineIdle, EngineFor, smartVars
<1>4. CASE EngineCall \/ EngineDeadline \/ ChainsMove
  <2>1. cfg' = cfg
    BY <1>4, EngineSteps, StepFrame DEF CommandTypeOK
  <2> QED
    BY <1>4, <2>1, EngineSteps DEF EngineIdle, EngineFor
<1>5. CASE Mine
  BY <1>5 DEF Mine, engineVars, smartVars, EngineIdle, EngineFor
<1> QED
  BY <1>1, <1>2, <1>3, <1>4, <1>5 DEF CommandNext

(* engine.go 95-126, 181: the engine's own steps, with a client that       *)
(* refuses what does not parse.                                            *)
LEMMA EngineInput ==
  ASSUME TypeOK, InputFollowsChains, cfg.decodes, Next
  PROVE  InputFollowsChains'
<1>1. /\ UNCHANGED <<cfg, receipt>> /\ in \in Inputs
      /\ FirstSend' = FirstSend
  BY StepFrame DEF TypeOK, FirstSend
<1>2. ASSUME in'.sendEvent # Nil
      PROVE  /\ receipt # Nil /\ FirstSend # Nil /\ FirstSend.network # Garbled
             /\ in'.sendEvent.msg = FirstSend.msg
  <2>1. CASE in'.sendEvent = in.sendEvent
    BY <1>2, <2>1 DEF InputFollowsChains
  <2>2. CASE pc = "GetSendWarpEvent" /\ pc' = "GetHeight" /\ in'.sendEvent = EventOf(FirstSend)
    <3>1. FirstSend # Nil /\ ~SendEventUnreadable(cfg.decodes)
      BY <2>2 DEF Next, EngineStep, GetSendWarpEvent, GetHeight, GetValidatorsAt,
         GetCurrentValidators, ResolveDestBlocks, FindReceive, FindExecutionFailed, RunAllChecks,
         Deadline, Environment, Returned, vars, engineVars, Return
    <3> QED
      BY <2>2, <3>1 DEF SendEventUnreadable, EventOf
  <2> QED
    BY <2>1, <2>2, StepFrame
<1>3. ASSUME cfg.pchainHeight = 0 PROVE in'.pchainHeight = in'.currentHeight
  <2>1. CASE GetHeight
    <3>1. PICK h : in' = [in EXCEPT !.currentHeight = h, !.pchainHeight = h]
      BY <1>3, <2>1 DEF GetHeight, GotHeight
    <3> QED
      BY <1>1, <3>1 DEF Inputs
  <2>2. CASE ~GetHeight
    <3>1. in'.pchainHeight = in.pchainHeight /\ in'.currentHeight = in.currentHeight
      BY <1>1, <2>2 DEF Next, EngineStep, GetSendWarpEvent, GetValidatorsAt, GotSigningSet,
         GetCurrentValidators, GotCurrentSet, ResolveDestBlocks, FindReceive, GotReceive,
         FindExecutionFailed, RunAllChecks, Deadline, Environment, Returned, vars, engineVars, Inputs
    <3> QED
      BY <1>3, <3>1 DEF InputFollowsChains
  <2> QED
    BY <2>1, <2>2
<1>4. ASSUME report' # Nil, report'.checks # <<>> PROVE report' = Report(RunChecks(in'))
  <2>1. CASE GetSendWarpEvent
    <3>1. report' \in {report, ErrorReport, NoSendReport} /\ pc = "GetSendWarpEvent"
      BY <2>1 DEF GetSendWarpEvent, Return
    <3>2. report = Nil
      BY <3>1 DEF TypeOK
    <3>3. ErrorReport.checks = <<>> /\ NoSendReport.checks = <<>>
      BY DEF ErrorReport, NoSendReport
    <3> QED
      BY <1>4, <3>1, <3>2, <3>3
  <2>2. CASE RunAllChecks
    BY <2>2 DEF RunAllChecks, Return
  <2>3. CASE ~GetSendWarpEvent /\ ~RunAllChecks
    <3>1. report' = report
      BY <2>3 DEF Next, EngineStep, GetHeight, GetValidatorsAt, GetCurrentValidators,
         ResolveDestBlocks, FindReceive, FindExecutionFailed, Deadline, Environment, Returned, vars,
         engineVars
    <3>2. pc = "done"
      BY <1>4, <3>1 DEF TypeOK
    <3>3. in' = in
      BY <2>3, <3>2 DEF Next, EngineStep, GetHeight, GetValidatorsAt, GetCurrentValidators,
         ResolveDestBlocks, FindReceive, FindExecutionFailed, Deadline, Environment, Returned, vars,
         engineVars
    <3> QED
      BY <1>4, <3>1, <3>3 DEF InputFollowsChains
  <2> QED
    BY <2>1, <2>2, <2>3
<1> QED
  BY <1>1, <1>2, <1>3, <1>4 DEF InputFollowsChains

LEMMA InputFollowsChainsStep ==
  ASSUME CommandTypeOK, EngineFollowsOptions, InputFollowsChains, [CommandNext]_commandVars
  PROVE  InputFollowsChains'
<1>1. CASE Begin \/ SmartCall \/ SmartDeadline \/ Validate \/ Finish \/ Tick \/ Exited
           \/ UNCHANGED commandVars
  BY <1>1, QuietSteps DEF engineVars, InputFollowsChains, FirstSend
<1>2. CASE DialClients
  <2>1. EngineIdle
    BY <1>2 DEF DialClients, EngineFollowsOptions
  <2>2. in' = in \/ in' = [in EXCEPT !.expected = opts.network]
    BY <1>2 DEF DialClients
  <2>3. in'.sendEvent = Nil /\ in'.pchainHeight = 0 /\ in'.currentHeight = 0
    BY <2>1, <2>2 DEF EngineIdle, CommandTypeOK, TypeOK, Inputs
  <2>4. report' = Nil
    BY <1>2, <2>1 DEF DialClients, EngineIdle
  <2> QED
    BY <2>3, <2>4 DEF InputFollowsChains
<1>3. CASE EngineCall \/ EngineDeadline \/ ChainsMove
  <2>1. CASE stage = "engine"
    <3>1. cfg.decodes
      BY <2>1 DEF EngineFollowsOptions, EngineFor
    <3> QED
      BY <1>3, <3>1, EngineSteps, EngineInput DEF CommandTypeOK
  <2>2. CASE stage = "dialClients"
    <3>1. EngineIdle /\ UNCHANGED <<pc, in, report>>
      BY <1>3, <2>2, EngineSteps DEF EngineFollowsOptions
    <3> QED
      BY <3>1 DEF EngineIdle, InputFollowsChains
  <2> QED
    BY <1>3, <2>1, <2>2, EngineSteps
<1>4. CASE Mine
  <2>1. UNCHANGED <<in, cfg, report>> /\ receipt = Nil
    BY <1>4 DEF Mine, engineVars
  <2> QED
    BY <2>1 DEF InputFollowsChains
<1> QED
  BY <1>1, <1>2, <1>3, <1>4 DEF CommandNext

(* evm.go 52-72: the message the client takes and the one smart mode takes *)
(* are the same, if the first parses.                                      *)
LEMMA MessagesAgree ==
  ASSUME receipt \in Receipts, receipt # Nil, FirstSend # Nil, FirstSend.network # Garbled
  PROVE  SourceMessage = FirstSend.msg /\ SourceMessage \in Msgs
<1> DEFINE sends  == {i \in DOMAIN receipt : receipt[i].warp}
           parsed == {i \in DOMAIN receipt : receipt[i].warp /\ receipt[i].network # Garbled}
<1>1. receipt \in Seq(SendLogs) /\ sends # {} /\ FirstSend = receipt[Min(sends)]
  BY ChainAssumption DEF FirstSend
<1>2. sends \subseteq Nat /\ parsed \subseteq sends
  BY <1>1
<1>3. Min(sends) \in sends /\ \A j \in sends : Min(sends) <= j
  BY <1>1, <1>2, LeastNatural
<1>4. Min(sends) \in parsed
  BY <1>1, <1>3
<1>5. Min(parsed) \in parsed /\ \A j \in parsed : Min(parsed) <= j
  <2> HIDE DEF parsed, sends
  <2>1. parsed # {} /\ parsed \subseteq Nat
    BY <1>2, <1>4
  <2> QED
    BY <2>1, LeastNatural
<1>6. Min(parsed) = Min(sends)
  <2>1. Min(parsed) \in Nat /\ Min(sends) \in Nat
    BY <1>2, <1>3, <1>5
  <2>2. Min(parsed) <= Min(sends) /\ Min(sends) <= Min(parsed)
    BY <1>2, <1>3, <1>4, <1>5
  <2> QED
    BY <2>1, <2>2
<1>7. SourceMessage = receipt[Min(parsed)].msg
  BY <1>4 DEF SourceMessage
<1>8. receipt[Min(sends)] \in SendLogs
  BY <1>1, <1>3, ElementOfSeq
<1> HIDE DEF sends, parsed
<1> QED
  BY <1>1, <1>6, <1>7, <1>8 DEF SendLogs

(* diagnose.go 201-222: what pass 2 settles on.                            *)
LEMMA SubnetFollowsMessageStep ==
  ASSUME CommandTypeOK, EngineFollowsOptions, SubnetFollowsMessage, [CommandNext]_commandVars
  PROVE  SubnetFollowsMessage'
<1> DEFINE early == {"begin", "dial", "receipt", "header", "validatedBy"}
<1> USE DEF SubnetFollowsMessage
<1>0. opts \in OptionRecords /\ Nil \notin Subnets
  BY CommandAssumption DEF CommandTypeOK
<1>1. CASE Begin
  <2> SUFFICES ASSUME asked.subnet = Nil, missed = missed',
                      missed \cap {"dial", "receipt", "validatedBy"} = {}
               PROVE  SubnetFollowsMessage'
    BY <1>1 DEF Begin
  <2>1. opts.subnet = Nil /\ stage = "begin" /\ EngineIdle
    BY <1>1 DEF Begin, EngineFollowsOptions
  <2>2. CASE stage' = "exit"
    BY <1>1, <2>1, <2>2 DEF Begin, EngineIdle, vars, engineVars
  <2>3. CASE stage' # "exit"
    <3>1. /\ opts' = WithNetworkDefaults(opts)
          /\ stage' = IF /\ opts'.sourceRPC
                         /\ opts'.pchainRPC
                         /\ opts'.subnet = Nil \/ opts'.height = 0
                        THEN "dial" ELSE "validate"
      BY <1>1, <2>3 DEF Begin
    <3>2. opts'.subnet = Nil
      BY <1>0, <2>1, <3>1 DEF WithNetworkDefaults, OptionRecords
    <3> QED
      BY <3>1, <3>2
  <2> QED
    BY <2>2, <2>3
<1>2. CASE SmartCall
  <2> SUFFICES ASSUME asked'.subnet = Nil, missed' \cap {"dial", "receipt", "validatedBy"} = {}
               PROVE  SubnetFollowsMessage'
    OBVIOUS
  <2>1. /\ UNCHANGED <<asked, receipt>> /\ SourceMessage' = SourceMessage
        /\ missed \subseteq missed'
    BY <1>2 DEF SmartCall, Dial, GetReceipt, GetHeader, ValidatedBy, EstimateGetHeight,
       EstimateGetTimestamp, vars, chainVars, SourceMessage, Heard, Missed
  <2>2. CASE Dial \/ GetReceipt
    <3>1. /\ UNCHANGED opts /\ stage \in early
          /\ stage' \in {"receipt", "header"}
      BY <2>2 DEF Dial, GetReceipt, Missed
    <3> QED
      BY <2>1, <3>1
  <2>3. CASE GetHeader
    <3>1. PICK time : ToSubnetPass(time)
      BY <2>3 DEF GetHeader
    <3>2. opts.subnet = Nil /\ receipt # Nil
      BY <2>1, <2>3 DEF GetHeader, CommandTypeOK
    <3>3. CASE SourceMessage # Nil
      BY <3>1, <3>2, <3>3 DEF ToSubnetPass
    <3>4. CASE SourceMessage = Nil
      <4>1. opts' = PrimaryIfNone(opts) /\ stage' \in {"getHeight", "validate"}
        BY <3>1, <3>4 DEF ToSubnetPass, ToHeightPass
      <4>2. opts'.subnet = Primary
        BY <1>0, <3>2, <4>1 DEF PrimaryIfNone, OptionRecords
      <4> QED
        BY <2>1, <3>2, <3>4, <4>1, <4>2 DEF SubnetSettled
    <3> QED
      BY <3>3, <3>4
  <2>4. CASE ValidatedBy
    <3>1. /\ opts' = [opts EXCEPT !.subnet = SubnetOf[SourceMessage]]
          /\ stage' \in {"getHeight", "validate"} /\ receipt # Nil /\ SourceMessage # Nil
      BY <2>4 DEF ValidatedBy, Missed, ToHeightPass, CommandTypeOK
    <3>2. opts'.subnet = SubnetOf[SourceMessage]
      BY <1>0, <3>1 DEF OptionRecords
    <3> QED
      BY <2>1, <3>1, <3>2 DEF SubnetSettled
  <2>5. CASE EstimateGetHeight \/ EstimateGetTimestamp
    <3>1. opts'.subnet = opts.subnet
      BY <1>0, <2>5 DEF EstimateGetHeight, EstimateGetTimestamp, OptionRecords
    <3>2. stage \in {"getHeight", "getTimestamp"} /\ stage' \in {"getTimestamp", "validate"}
      BY <2>5 DEF EstimateGetHeight, EstimateGetTimestamp
    <3>3. SubnetSettled
      BY <2>1, <3>2
    <3> QED
      BY <2>1, <3>1, <3>2, <3>3 DEF SubnetSettled
  <2> QED
    BY <1>2, <2>2, <2>3, <2>4, <2>5 DEF SmartCall
<1>3. CASE Validate
  <2>1. /\ UNCHANGED <<asked, missed, receipt>> /\ SourceMessage' = SourceMessage
        /\ stage = "validate" /\ opts' = PrimaryIfNone(opts) /\ EngineIdle' = EngineIdle
    BY <1>3 DEF Validate, vars, chainVars, engineVars, SourceMessage, EngineIdle
  <2>2. stage' \in {"dialClients", "exit"}
    BY <1>3 DEF Validate
  <2>3. CASE SubnetSettled
    <3>1. opts.subnet # Nil
      BY <1>0, <2>3, SourceMessageType, CommandAssumption
      DEF SubnetSettled, CommandTypeOK, TypeOK, ChainTypeOK
    <3>2. SubnetSettled'
      BY <2>1, <2>3, <3>1 DEF SubnetSettled, PrimaryIfNone
    <3> QED
      BY <2>2, <3>2
  <2>4. CASE ~(opts.sourceRPC /\ opts.pchainRPC)
    BY <1>3, <2>1, <2>4 DEF Validate, Usable, EngineFollowsOptions
  <2> QED
    BY <2>1, <2>3, <2>4
<1>4. CASE DialClients
  <2>1. /\ stage = "dialClients" /\ EngineIdle
        /\ UNCHANGED <<asked, opts, missed, receipt>> /\ SourceMessage' = SourceMessage
        /\ stage' = "engine" \/ (stage' = "exit" /\ UNCHANGED <<pc, in, report>>)
    BY <1>4 DEF DialClients, chainVars, smartVars, EngineFollowsOptions, SourceMessage
  <2> QED
    BY <2>1 DEF SubnetSettled, EngineIdle
<1>5. CASE EngineCall \/ EngineDeadline \/ ChainsMove
  <2>1. UNCHANGED receipt /\ stage \in {"dialClients", "engine"}
    BY <1>5, EngineSteps, StepFrame DEF CommandTypeOK
  <2>2. SourceMessage' = SourceMessage
    BY <2>1 DEF SourceMessage
  <2> QED
    BY <1>5, <2>1, <2>2, EngineSteps DEF SubnetSettled
<1>6. CASE Finish
  <2>1. /\ UNCHANGED <<asked, opts, missed, receipt>> /\ SourceMessage' = SourceMessage
        /\ stage = "engine" /\ stage' = "exit"
    BY <1>6 DEF Finish, vars, chainVars, smartVars, SourceMessage
  <2> QED
    BY <2>1 DEF SubnetSettled
<1>7. CASE SmartDeadline \/ Tick \/ Exited \/ UNCHANGED commandVars
  <2>1. UNCHANGED <<asked, opts, missed, receipt, stage, pc, in, report>>
    BY <1>7, QuietSteps DEF SmartDeadline, Tick, Exited, commandVars, engineVars, smartVars
  <2>2. SourceMessage' = SourceMessage
    BY <2>1 DEF SourceMessage
  <2> QED
    BY <2>1, <2>2 DEF SubnetSettled, EngineIdle
<1>8. CASE Mine
  <2>1. UNCHANGED <<asked, opts, missed, stage, pc, in, report>> /\ receipt = Nil
    BY <1>8 DEF Mine, engineVars, smartVars
  <2> QED
    BY <2>1 DEF SubnetSettled, EngineIdle
<1> QED
  BY <1>1, <1>2, <1>3, <1>4, <1>5, <1>6, <1>7, <1>8 DEF CommandNext

(* diagnose.go 224-241: without a time or a height, no height is estimated. *)
LEMMA HeightStaysUnknownStep ==
  ASSUME CommandTypeOK, HeightStaysUnknown, [CommandNext]_commandVars
  PROVE  HeightStaysUnknown'
<1> USE DEF HeightStaysUnknown
<1> DEFINE needed == {"dial", "receipt", "header", "getHeight"}
<1>0. opts \in OptionRecords
  BY DEF CommandTypeOK
<1>1. CASE Begin
  <2>1. /\ UNCHANGED <<asked, missed>> /\ stage = "begin"
        /\ opts' = opts \/ opts' = WithNetworkDefaults(opts)
    BY <1>1 DEF Begin
  <2>2. opts'.height = opts.height
    BY <1>0, <2>1 DEF WithNetworkDefaults, OptionRecords
  <2>3. missed \cap needed = {}
    BY <2>1
  <2> QED
    BY <2>1, <2>2, <2>3 DEF TimeMatters
<1>2. CASE Dial \/ GetReceipt
  <2>1. /\ UNCHANGED asked /\ stage \in {"dial", "receipt"} /\ stage \in SmartCalls
        /\ \/ missed' = missed /\ opts' = opts
           \/ stage' = "validate" /\ opts' = PrimaryIfNone(opts)
    BY <1>2 DEF Dial, GetReceipt, Heard, FallBack, SmartCalls
  <2>2. opts'.height = opts.height
    BY <1>0, <2>1 DEF PrimaryIfNone, OptionRecords
  <2>3. asked.height = 0 => opts'.height = 0
    BY <2>1, <2>2 DEF TimeMatters
  <2>4. missed \cap needed = {}
    BY <2>1
  <2> QED
    BY <2>1, <2>3, <2>4
<1>3. CASE GetHeader
  <2>1. PICK time : ToSubnetPass(time) /\ (time # Nil => missed' = missed)
    BY <1>3 DEF GetHeader, Heard
  <2>2. /\ UNCHANGED asked /\ stage = "header"
        /\ opts' = opts \/ opts' = PrimaryIfNone(opts)
    BY <1>3, <2>1 DEF GetHeader, ToSubnetPass
  <2>3. asked.height = 0 => opts'.height = 0
    <3>1. opts'.height = opts.height
      BY <1>0, <2>2 DEF PrimaryIfNone, OptionRecords
    <3> QED
      BY <2>2, <3>1 DEF TimeMatters, SmartCalls
  <2>4. missed \cap needed = {}
    BY <2>2
  <2>5. time = Nil => \/ stage' = "validatedBy" /\ txTime' = Nil
                      \/ stage' = "validate"
    BY <2>1 DEF ToSubnetPass, ToHeightPass
  <2> QED
    BY <2>1, <2>2, <2>3, <2>4, <2>5
<1>4. CASE ValidatedBy
  <2>1. /\ UNCHANGED asked /\ stage = "validatedBy" /\ missed' \cap needed = missed \cap needed
        /\ \/ opts' = [opts EXCEPT !.subnet = SubnetOf[SourceMessage]]
           \/ opts' = PrimaryIfNone(opts)
        /\ stage' = IF opts.height = 0 /\ txTime # Nil THEN "getHeight" ELSE "validate"
    BY <1>4 DEF ValidatedBy, Heard, Missed, ToHeightPass
  <2>2. opts'.height = opts.height
    BY <1>0, <2>1 DEF PrimaryIfNone, OptionRecords
  <2> QED
    BY <2>1, <2>2 DEF TimeMatters, SmartCalls
<1>5. CASE EstimateGetHeight
  <2>1. /\ UNCHANGED <<asked, opts>> /\ stage = "getHeight"
        /\ missed' = missed \/ stage' = "validate"
    BY <1>5 DEF EstimateGetHeight, Heard
  <2>2. missed \cap needed = {}
    BY <2>1
  <2> QED
    BY <2>1, <2>2 DEF TimeMatters, SmartCalls
<1>6. CASE EstimateGetTimestamp
  <2>1. /\ stage = "getTimestamp" /\ stage' = "validate"
        /\ missed' \cap needed = missed \cap needed
    BY <1>6 DEF EstimateGetTimestamp, Heard, Missed
  <2>2. missed \cap needed = {}
    BY <2>1
  <2> QED
    BY <2>1, <2>2 DEF TimeMatters, SmartCalls
<1>7. CASE Validate
  <2>1. /\ UNCHANGED <<asked, missed>> /\ stage = "validate" /\ opts' = PrimaryIfNone(opts)
        /\ stage' \in {"dialClients", "exit"}
    BY <1>7 DEF Validate
  <2>2. opts'.height = opts.height
    BY <1>0, <2>1 DEF PrimaryIfNone, OptionRecords
  <2> QED
    BY <2>1, <2>2 DEF TimeMatters, SmartCalls
<1>8. CASE DialClients \/ EngineCall \/ EngineDeadline \/ ChainsMove \/ Finish
  <2>1. /\ UNCHANGED <<asked, opts, missed>> /\ stage \in {"dialClients", "engine"}
        /\ stage' \in {"dialClients", "engine", "exit"}
    BY <1>8, EngineSteps DEF DialClients, Finish, smartVars
  <2> QED
    BY <2>1 DEF TimeMatters, SmartCalls
<1>9. CASE SmartDeadline \/ Tick \/ Mine \/ Exited \/ UNCHANGED commandVars
  <2>1. UNCHANGED <<asked, opts, missed, stage, txTime>>
    BY <1>9 DEF SmartDeadline, Tick, Mine, Exited, commandVars, smartVars
  <2> QED
    BY <2>1 DEF TimeMatters
<1> QED
  BY <1>1, <1>2, <1>3, <1>4, <1>5, <1>6, <1>7, <1>8, <1>9 DEF CommandNext, SmartCall

(* diagnose.go 157-345, engine.go 71-193: what the engine was asked with   *)
(* and what it found in the receipt go together at every point of the      *)
(* command, for all command lines, lost calls and timings.                 *)
THEOREM OptionsAlwaysGrounded == CommandSpec => []OptionsGrounded
<1>1. CommandTypeOK /\ OptionsGrounded /\ [CommandNext]_commandVars => OptionsGrounded'
  BY EngineFollowsOptionsStep, InputFollowsChainsStep, SubnetFollowsMessageStep,
     HeightStaysUnknownStep DEF OptionsGrounded
<1> QED
  BY <1>1, CommandInitGrounded, CommandTypeCorrect, PTL DEF CommandSpec

LEMMA SubnetFollows == CommandTypeOK /\ OptionsGrounded => SubnetOfDiagnosedMessage
<1> SUFFICES ASSUME CommandTypeOK, OptionsGrounded, stage = "exit", in.sendEvent # Nil,
                    asked.subnet = Nil, missed \cap {"dial", "receipt", "validatedBy"} = {}
             PROVE  opts.subnet = SubnetOf[in.sendEvent.msg]
  BY DEF SubnetOfDiagnosedMessage
<1>1. SubnetSettled
  BY DEF OptionsGrounded, SubnetFollowsMessage, EngineIdle
<1>2. SourceMessage = in.sendEvent.msg /\ SourceMessage \in Msgs
  BY MessagesAgree DEF OptionsGrounded, InputFollowsChains, CommandTypeOK, TypeOK, ChainTypeOK
<1>3. SourceMessage # Nil
  BY <1>2, NilAssumption
<1> QED
  BY <1>1, <1>2, <1>3 DEF SubnetSettled

(* diagnose.go 271-300 and evm.go 38-72: whichever logs the receipt holds  *)
(* and whenever it is read, the validators asked about are those of the    *)
(* message that is diagnosed.                                              *)
THEOREM SubnetAlwaysOfMessage == CommandSpec => []SubnetOfDiagnosedMessage
  BY SubnetFollows, OptionsAlwaysGrounded, CommandTypeCorrect, PTL

(* checks.go 178-313: nothing is said against validators of one height.    *)
LEMMA SameHeightsPass ==
  ASSUME NEW i \in Inputs, i.pchainHeight = i.currentHeight
  PROVE  CheckValidatorSetChanged(i).passed /\ CheckEpochBoundary(i).passed
<1>1. CheckValidatorSetChanged(i).passed
  BY DEF CheckValidatorSetChanged, Warning
<1>2. Minus(i.currentHeight, i.pchainHeight) = 0
  BY MinusInRange DEF Inputs, UInt64
<1>3. 0 \div EpochDuration = 0
  BY ValidatorAssumption
<1>4. CheckEpochBoundary(i).passed
  BY <1>2, <1>3 DEF CheckEpochBoundary, Warning
<1> QED
  BY <1>1, <1>4

LEMMA FallbackFollows == CommandTypeOK /\ OptionsGrounded => FallbackAccusesNobody
<1> SUFFICES ASSUME CommandTypeOK, OptionsGrounded, stage = "exit", report # Nil,
                    report.checks # <<>>, asked.height = 0,
                    missed \cap {"dial", "receipt", "header", "getHeight"} # {}
             PROVE  /\ CheckOf("VALIDATOR_SET_CHANGED").passed
                    /\ CheckOf("EPOCH_BOUNDARY_RACE").passed
  BY DEF FallbackAccusesNobody
<1>1. cfg.pchainHeight = 0
  BY DEF OptionsGrounded, HeightStaysUnknown, EngineFollowsOptions, EngineIdle, EngineFor
<1>2. in \in Inputs /\ in.pchainHeight = in.currentHeight /\ report = Report(RunChecks(in))
  BY <1>1 DEF OptionsGrounded, InputFollowsChains, CommandTypeOK, TypeOK
<1> QED
  BY <1>2, SameHeightsPass, CheckFound DEF CheckOf

(* diagnose.go 156: for every command line and every order of failures, a   *)
(* height that could not be estimated leads to no warning about the        *)
(* validators.                                                             *)
THEOREM FallbackNeverAccuses == CommandSpec => []FallbackAccusesNobody
  BY FallbackFollows, OptionsAlwaysGrounded, CommandTypeCorrect, PTL
==============================================================================
