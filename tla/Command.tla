------------------------------- MODULE Command -------------------------------
(***************************************************************************)
(* internal/cli/diagnose.go and internal/chain/smart.go: one run of        *)
(* "warpscope diagnose".  Smart mode fills in the options that were not    *)
(* given, from calls that may fail or run out of time; the engine is       *)
(* configured with what came of it; the exit code says how it went.        *)
(*                                                                         *)
(* pchain is the history of the subnet the engine asks about.  While smart *)
(* mode works, a clock ticks and the P-Chain accepts a block every         *)
(* BlockSecs ticks: the premise of the height estimate.  A block's         *)
(* timestamp is the time it was accepted at.                               *)
(***************************************************************************)
EXTENDS Diagnosis

CONSTANTS
  Options,     \* command lines
  Unknown,     \* a network name networkIDFromName does not know
  Subnets,     \* subnet ids
  Primary,     \* the Primary Network's
  Unparsable,  \* a --subnet-id that does not parse
  SubnetOf,    \* the subnet that validates a message's source chain
  BlockSecs,   \* avgPChainBlockSecs: 3 in the program
  Skew,        \* how far ahead a source block's timestamp may be
  MaxClock     \* bound on the clock, up to the engine's start

(* diagnoseOptions: whether each RPC URL is there, 0 or Nil for what was   *)
(* not given; hash is whether the argument is a hash.                      *)
OptionRecords ==
  [hash : BOOLEAN, sourceRPC : BOOLEAN, pchainRPC : BOOLEAN, destRPC : BOOLEAN,
   network : Networks \cup {Unknown}, subnet : Subnets \cup {Nil, Unparsable},
   height : UInt64, from : UInt64, to : UInt64, json : BOOLEAN]

EngineFor(o) ==
  [pchainHeight |-> o.height, hasDest |-> o.destRPC, from |-> o.from, to |-> o.to,
   expected |-> o.network, decodes |-> TRUE]

ASSUME CommandAssumption ==
  /\ Options \subseteq OptionRecords
  /\ \A o \in Options, h \in UInt64 :
       o.network # Unknown => EngineFor([o EXCEPT !.height = h]) \in Configs
  /\ Configs # {}
  /\ Unknown \notin Networks
  /\ Nil \notin Subnets
  /\ Primary \in Subnets
  /\ SubnetOf \in [Msgs -> Subnets]
  /\ BlockSecs \in Nat \ {0}
  /\ Skew \in Nat
  /\ MaxClock \in Nat
  /\ MaxClock \div BlockSecs < MaxHeight

VARIABLES
  stage,   \* where runDiagnose is
  asked,   \* the options of the command line, kept for the properties
  opts,    \* the options as smart mode has filled them in
  late,    \* the context of the smart call being made has expired
  txTime,  \* txBlockTime, Nil for the zero time
  seen,    \* currentHeight of EstimatePChainHeight, Nil before it is read
  missed,  \* the smart calls that returned an error, kept for the properties
  exit,    \* the exit code, Nil while the command runs
  clock,   \* the time, until smart mode has ended
  mined    \* timestamp of the source transaction's block, Nil before it or
           \* when nothing will look at it

smartVars   == <<asked, opts, late, txTime, seen, missed>>
timeVars    == <<clock, mined>>
commandVars == <<vars, stage, smartVars, exit, timeVars>>

SmartCalls == {"dial", "receipt", "header", "validatedBy", "getHeight", "getTimestamp"}

Stages == SmartCalls \cup {"begin", "validate", "dialClients", "engine", "exit"}

(* Slip: the last message of the receipt is taken.                         *)
LastSourceMessage ==
  LET sends == {i \in DOMAIN receipt : receipt[i].warp /\ receipt[i].network # Garbled}
  IN  IF sends = {} THEN Nil ELSE receipt[CHOOSE i \in sends : \A j \in sends : j <= i].msg

(* extractSourceChainID: the first message of the receipt that parses.     *)
SourceMessage ==
  LET sends == {i \in DOMAIN receipt : receipt[i].warp /\ receipt[i].network # Garbled}
  IN  IF sends = {} THEN Nil ELSE receipt[Min(sends)].msg

(* Every variable has its type, smart mode changes nothing but URLs, subnet *)
(* and height, reads a receipt only when it has one, and no client is      *)
(* dialled for options that cannot be used.                                *)
CommandTypeOK ==
  /\ TypeOK
  /\ stage \in Stages
  /\ asked \in Options
  /\ opts \in OptionRecords
  /\ late \in BOOLEAN
  /\ txTime \in Nat \cup {Nil}
  /\ seen \in UInt64 \cup {Nil}
  /\ missed \subseteq SmartCalls
  /\ exit \in {Nil, 0, 1}
  /\ clock \in 0 .. MaxClock
  /\ mined \in Nat \cup {Nil}
  /\ \A field \in {"hash", "destRPC", "network", "from", "to", "json"} :
       opts[field] = asked[field]
  /\ stage \in {"header", "validatedBy"} => receipt # Nil
  /\ stage = "validatedBy" => SourceMessage # Nil
  /\ stage = "dialClients" => opts.network # Unknown

CommandInit ==
  /\ ChainInit
  /\ pc = "GetSendWarpEvent"
  /\ expired = FALSE
  /\ cfg = CHOOSE c \in Configs : TRUE
  /\ in = [sendEvent |-> Nil, expected |-> cfg.expected, signature |-> Nil,
           atHeight |-> Nil, current |-> Nil, pchainHeight |-> 0, currentHeight |-> 0,
           receive |-> Nil, execFailed |-> Nil]
  /\ range = Nil
  /\ lost = {}
  /\ report = Nil
  /\ stage = "begin"
  /\ asked \in Options
  /\ opts = asked
  /\ late = FALSE
  /\ txTime = Nil
  /\ seen = Nil
  /\ missed = {}
  /\ exit = Nil
  /\ clock = 0
  /\ mined \in IF receipt = Nil THEN {Nil} ELSE 0 .. Skew

-----------------------------------------------------------------------------
(* Smart mode.                                                             *)

(* Slip: the Primary Network stands in for a subnet before it is asked for. *)
WithNetworkAndSubnetDefaults(o) ==
  IF o.network = Unknown THEN o
  ELSE [o EXCEPT !.sourceRPC = TRUE, !.pchainRPC = TRUE,
                 !.subnet = IF @ = Nil THEN Primary ELSE @]

(* Pass 1: the URLs of a known network.                                    *)
WithNetworkDefaults(o) ==
  IF o.network = Unknown THEN o
  ELSE [o EXCEPT !.sourceRPC = TRUE, !.pchainRPC = TRUE]

Begin ==
  /\ stage = "begin"
  /\ \/ /\ ~opts.hash
        /\ stage' = "exit"
        /\ exit' = 1
        /\ UNCHANGED opts
     \/ /\ opts.hash
        /\ opts' = WithNetworkDefaults(opts)
        /\ stage' = IF /\ opts'.sourceRPC
                       /\ opts'.pchainRPC
                       /\ opts'.subnet = Nil \/ opts'.height = 0
                      THEN "dial" ELSE "validate"
        /\ UNCHANGED exit
  /\ UNCHANGED <<vars, asked, late, txTime, seen, missed, timeVars>>

(* The call being made is answered, or returns an error.                   *)
Heard == ~late /\ UNCHANGED missed
Missed == missed' = missed \cup {stage}

PrimaryIfNone(o) == IF o.subnet = Nil THEN [o EXCEPT !.subnet = Primary] ELSE o

(* Slip: the first height is taken for an unknown one.                     *)
FallBackToFirstHeight ==
  /\ opts' = [PrimaryIfNone(opts) EXCEPT !.height = IF @ = 0 THEN 1 ELSE @]
  /\ stage' = "validate"
  /\ UNCHANGED <<late, txTime>>

(* fallbackSubnetAndHeight                                                 *)
FallBack ==
  /\ opts' = PrimaryIfNone(opts)
  /\ stage' = "validate"
  /\ UNCHANGED <<late, txTime>>

Dial ==
  /\ stage = "dial"
  /\ \/ Heard /\ stage' = "receipt" /\ UNCHANGED <<opts, late, txTime>>
     \/ Missed /\ FallBack
  /\ UNCHANGED <<vars, asked, seen, exit, timeVars>>

(* A transaction without a receipt is an error of the client.              *)
GetReceipt ==
  /\ stage = "receipt"
  /\ \/ Heard /\ receipt # Nil /\ stage' = "header" /\ UNCHANGED <<opts, late, txTime>>
     \/ Missed /\ FallBack
  /\ UNCHANGED <<vars, asked, seen, exit, timeVars>>

(* Pass 3 needs a time; each pass has a context of its own.                *)
ToHeightPass(time) ==
  /\ stage' = IF opts.height = 0 /\ time # Nil THEN "getHeight" ELSE "validate"
  /\ late' = FALSE

ToSubnetPass(time) ==
  /\ txTime' = time
  /\ \/ /\ opts.subnet = Nil
        /\ SourceMessage # Nil
        /\ stage' = "validatedBy"
        /\ late' = FALSE
        /\ UNCHANGED opts
     \/ /\ opts.subnet # Nil \/ SourceMessage = Nil
        /\ opts' = PrimaryIfNone(opts)
        /\ ToHeightPass(time)

GetHeader ==
  /\ stage = "header"
  /\ \/ Heard /\ ToSubnetPass(mined)
     \/ Missed /\ ToSubnetPass(Nil)
  /\ UNCHANGED <<vars, asked, seen, exit, timeVars>>

(* Slip: the call does not get the context of its pass.                    *)
ValidatedByWithoutContext ==
  /\ stage = "validatedBy"
  /\ Heard
  /\ opts' = [opts EXCEPT !.subnet = SubnetOf[SourceMessage]]
  /\ ToHeightPass(txTime)
  /\ UNCHANGED <<vars, asked, txTime, seen, exit, timeVars>>

ValidatedBy ==
  /\ stage = "validatedBy"
  /\ \/ Heard /\ opts' = [opts EXCEPT !.subnet = SubnetOf[SourceMessage]]
     \/ Missed /\ opts' = PrimaryIfNone(opts)
  /\ ToHeightPass(txTime)
  /\ UNCHANGED <<vars, asked, txTime, seen, exit, timeVars>>

-----------------------------------------------------------------------------
(* EstimatePChainHeight.                                                   *)

(* The P-Chain's own time is that of its last block.                       *)
Timestamp == (Len(pchain) - 1) * BlockSecs

(* Slip: a transaction from the future is not told from an old one; its    *)
(* negative age becomes a huge unsigned number of blocks.                  *)
EstimateUnguarded(height, now, time) ==
  LET blockDelta == IF time > now THEN Word - 1 ELSE (now - time) \div BlockSecs
  IN  IF blockDelta >= height THEN 1 ELSE Minus(height, blockDelta)

Estimate(height, now, time) ==
  LET blockDelta == (now - time) \div BlockSecs
  IN  IF time >= now THEN height
      ELSE IF blockDelta >= height THEN 1
      ELSE Minus(height, blockDelta)

EstimateGetHeight ==
  /\ stage = "getHeight"
  /\ \/ Heard /\ seen' = Len(pchain) /\ stage' = "getTimestamp"
     \/ Missed /\ stage' = "validate" /\ UNCHANGED seen
  /\ UNCHANGED <<vars, asked, opts, late, txTime, exit, timeVars>>

(* Without an answer, the wall clock is taken.                             *)
EstimateGetTimestamp ==
  /\ stage = "getTimestamp"
  /\ \/ Heard /\ opts' = [opts EXCEPT !.height = Estimate(seen, Timestamp, txTime)]
     \/ Missed /\ opts' = [opts EXCEPT !.height = Estimate(seen, clock, txTime)]
  /\ stage' = "validate"
  /\ UNCHANGED <<vars, asked, late, txTime, seen, exit, timeVars>>

SmartCall ==
  \/ Dial
  \/ GetReceipt
  \/ GetHeader
  \/ ValidatedBy
  \/ EstimateGetHeight
  \/ EstimateGetTimestamp

(* 30 seconds for the source chain, 15 for each of passes 2 and 3.         *)
SmartDeadline ==
  /\ stage \in SmartCalls
  /\ ~late
  /\ late' = TRUE
  /\ UNCHANGED <<vars, stage, asked, opts, txTime, seen, missed, exit, timeVars>>

-----------------------------------------------------------------------------
(* runDiagnose.                                                            *)

Usable(o) ==
  /\ o.sourceRPC
  /\ o.pchainRPC
  /\ o.subnet # Unparsable
  /\ o.network # Unknown

(* Smart mode's locals are gone, and nothing looks at the time any more.   *)
Validate ==
  /\ stage = "validate"
  /\ opts' = PrimaryIfNone(opts)
  /\ \/ Usable(opts) /\ stage' = "dialClients" /\ UNCHANGED exit
     \/ ~Usable(opts) /\ stage' = "exit" /\ exit' = 1
  /\ late' = FALSE
  /\ txTime' = Nil
  /\ seen' = Nil
  /\ clock' = 0
  /\ mined' = Nil
  /\ UNCHANGED <<vars, asked, missed>>

(* Both dials, and the Engine made of the options.                         *)
DialClients ==
  /\ stage = "dialClients"
  /\ \/ /\ ~expired
        /\ stage' = "engine"
        /\ cfg' = EngineFor(opts)
        /\ in' = [in EXCEPT !.expected = opts.network]
        /\ UNCHANGED exit
     \/ /\ stage' = "exit"
        /\ exit' = 1
        /\ UNCHANGED <<cfg, in>>
  /\ UNCHANGED <<chainVars, pc, expired, range, lost, report, smartVars, timeVars>>

(* Slip: os.Exit is missing.                                               *)
ExitCodesWithoutHealth ==
  CASE report.rootCause = "ERROR" -> {1}
    [] report.rootCause # "ERROR" -> IF opts.json THEN {0, 1} ELSE {0}

(* An error of Diagnose is returned, and so is one of WriteJSON, whose      *)
(* standard output may be closed; only the table looks at isHealthy.       *)
ExitCodes ==
  CASE report.rootCause = "ERROR"                -> {1}
    [] report.rootCause # "ERROR" /\ opts.json  -> {0, 1}
    [] report.rootCause # "ERROR" /\ ~opts.json -> IF report.isHealthy THEN {0} ELSE {1}

Finish ==
  /\ stage = "engine"
  /\ pc = "done"
  /\ exit' \in ExitCodes
  /\ stage' = "exit"
  /\ UNCHANGED <<vars, smartVars, timeVars>>

-----------------------------------------------------------------------------
(* Time, and the chains.                                                   *)

TimeMatters == stage \in SmartCalls \cup {"begin"}

Tick ==
  /\ TimeMatters
  /\ clock < MaxClock
  /\ clock' = clock + 1
  /\ IF clock' % BlockSecs = 0
       THEN NewPChainBlock
       ELSE UNCHANGED chainVars
  /\ UNCHANGED <<engineVars, stage, smartVars, exit, mined>>

(* The source transaction is accepted.                                     *)
Mine ==
  /\ stage # "exit"
  /\ receipt = Nil
  /\ receipt' \in Receipts \ {Nil}
  /\ mined' \in IF TimeMatters THEN clock .. clock + Skew ELSE {Nil}
  /\ UNCHANGED <<pchain, head, logs, engineVars, stage, smartVars, exit, clock>>

EngineCall ==
  /\ stage = "engine"
  /\ EngineStep
  /\ UNCHANGED <<stage, smartVars, exit, timeVars>>

ChainsMove ==
  /\ stage = "engine"
  /\ Environment
  /\ UNCHANGED <<stage, smartVars, exit, timeVars>>

EngineDeadline ==
  /\ stage \in {"dialClients", "engine"}
  /\ Deadline
  /\ UNCHANGED <<stage, smartVars, exit, timeVars>>

Exited == stage = "exit" /\ UNCHANGED commandVars

CommandNext ==
  \/ Begin
  \/ SmartCall
  \/ SmartDeadline
  \/ Validate
  \/ DialClients
  \/ EngineCall
  \/ EngineDeadline
  \/ Finish
  \/ ChainsMove
  \/ Tick
  \/ Mine
  \/ Exited

CommandSpec == CommandInit /\ [][CommandNext]_commandVars

(* A context expires, after that every call returns; what runs on the      *)
(* machine itself goes on.                                                 *)
FairCommandSpec ==
  /\ CommandSpec
  /\ WF_commandVars(Begin \/ Validate \/ Finish)
  /\ WF_commandVars(SmartDeadline)
  /\ WF_commandVars(late /\ SmartCall)
  /\ WF_commandVars(EngineDeadline)
  /\ WF_commandVars(expired /\ (DialClients \/ EngineCall))

-----------------------------------------------------------------------------
(* The height of the P-Chain at a time.                                    *)
HeightAt(time) == 1 + time \div BlockSecs

(* While the time matters, the P-Chain keeps pace with it; what the        *)
(* estimate has read is one of the P-Chain's heights.                      *)
KeepsPace ==
  /\ TimeMatters => Len(pchain) = HeightAt(clock)
  /\ stage = "getTimestamp" => seen \in 1 .. Len(pchain)
  /\ stage \in {"getHeight", "getTimestamp"} => txTime \in Nat

(* Exit code 0 after a table comes from a healthy report.                  *)
ExitFromReport ==
  stage = "exit" /\ exit = 0 /\ ~opts.json =>
    pc = "done" /\ report.isHealthy

(* smart.go 37-72: the height and the time are read by separate calls, the *)
(* source chain's clock may be ahead and the P-Chain's own time may be     *)
(* replaced by the wall clock; still the estimate is a height the P-Chain  *)
(* has, is never more than a block above the height at the transaction's   *)
(* time, and is below it by no more than the blocks accepted between the   *)
(* two calls.                                                              *)
EstimateIsClose ==
  [][stage = "getTimestamp" /\ stage' = "validate" =>
       LET height == opts'.height
           grown  == Len(pchain) - seen
       IN  /\ height \in DOMAIN pchain
           /\ height <= HeightAt(txTime) + 1
           /\ height >= HeightAt(txTime) - grown \/ height = seen]_commandVars

(* diagnose.go 156: "All failures are non-fatal: a warning is printed and  *)
(* a safe fallback is used."  Safe is that, when the height could not be   *)
(* estimated, nothing is said against the validators on the strength of it. *)
FallbackAccusesNobody ==
  /\ stage = "exit"
  /\ report # Nil
  /\ report.checks # <<>>
  /\ asked.height = 0
  /\ missed \cap {"dial", "receipt", "header", "getHeight"} # {}
  => /\ CheckOf("VALIDATOR_SET_CHANGED").passed
     /\ CheckOf("EPOCH_BOUNDARY_RACE").passed

(* diagnose.go 271-300 and evm.go 38-72: smart mode and the client look    *)
(* for the Warp message in separate loops, over receipts read at different *)
(* times, and only one of them skips what does not parse; the validators   *)
(* asked about are those of the very message that is diagnosed.            *)
SubnetOfDiagnosedMessage ==
  /\ stage = "exit"
  /\ in.sendEvent # Nil
  /\ asked.subnet = Nil
  /\ missed \cap {"dial", "receipt", "validatedBy"} = {}
  => opts.subnet = SubnetOf[in.sendEvent.msg]

(* Why these hold.  The engine starts from nothing, with what has become    *)
(* of the options.                                                         *)
EngineIdle ==
  /\ pc = "GetSendWarpEvent"
  /\ in.sendEvent = Nil
  /\ in.pchainHeight = 0
  /\ in.currentHeight = 0
  /\ report = Nil

EngineFollowsOptions ==
  /\ stage \notin {"engine", "exit"} => EngineIdle
  /\ stage = "engine" => cfg = EngineFor(opts)
  /\ stage = "exit" => EngineIdle \/ cfg = EngineFor(opts)

(* The event is that of the receipt's first message, which parses; the     *)
(* checks are those of the input; without a configured height the signing  *)
(* height is the current one.                                              *)
InputFollowsChains ==
  /\ in.sendEvent # Nil =>
       /\ receipt # Nil
       /\ FirstSend # Nil
       /\ FirstSend.network # Garbled
       /\ in.sendEvent.msg = FirstSend.msg
  /\ cfg.pchainHeight = 0 => in.pchainHeight = in.currentHeight
  /\ report # Nil /\ report.checks # <<>> => report = Report(RunChecks(in))

(* Once pass 2 is over, a subnet nobody gave is that of the source message, *)
(* unless it could not be asked for or the engine will never run.          *)
SubnetSettled ==
  /\ receipt # Nil
  /\ opts.subnet = IF SourceMessage = Nil THEN Primary ELSE SubnetOf[SourceMessage]

SubnetFollowsMessage ==
  asked.subnet = Nil /\ missed \cap {"dial", "receipt", "validatedBy"} = {} =>
    \/ /\ stage \in {"begin", "dial", "receipt", "header", "validatedBy"}
       /\ opts.subnet = Nil
    \/ /\ stage \notin {"begin", "dial", "receipt", "header", "validatedBy"}
       /\ SubnetSettled
    \/ stage = "validate" /\ ~(opts.sourceRPC /\ opts.pchainRPC)
    \/ stage = "exit" /\ EngineIdle

(* After the failure of a call the estimate needs, none is made.           *)
HeightStaysUnknown ==
  /\ asked.height = 0 /\ TimeMatters => opts.height = 0
  /\ missed \cap {"dial", "receipt", "header", "getHeight"} # {} =>
       /\ stage \in {"validatedBy", "validate", "dialClients", "engine", "exit"}
       /\ stage = "validatedBy" => txTime = Nil
       /\ asked.height = 0 => opts.height = 0

OptionsGrounded ==
  /\ EngineFollowsOptions
  /\ InputFollowsChains
  /\ SubnetFollowsMessage
  /\ HeightStaysUnknown

(* diagnose.go 365-379: as a table, exit code 0 stands for a message that  *)
(* was received in the searched blocks and, unless the search for a revert *)
(* was lost, did not revert.                                               *)
ExitZeroMeansDelivered ==
  stage = "exit" /\ exit = 0 /\ ~opts.json =>
    /\ report # Nil
    /\ InRange(Received(Target)) # {}
    /\ Failed(Target) # {} => "FindExecutionFailedEvent" \in lost

(* diagnose.go 180-241, 334: smart mode's contexts and the engine's bound  *)
(* every call, so that the command ends however calls hang.                *)
CommandReturns == <>(stage = "exit")
==============================================================================
