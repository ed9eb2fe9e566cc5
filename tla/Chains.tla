------------------------------- MODULE Chains -------------------------------
(***************************************************************************)
(* The three chains WarpScope reads, and what internal/chain's clients     *)
(* answer when a call succeeds.                                            *)
(*                                                                         *)
(* The chains are outside the program: the P-Chain grows by blocks that    *)
(* may change the validators, the destination chain by blocks that may     *)
(* deliver a Warp message to Teleporter.  A delivered message whose target *)
(* contract reverts leaves a MessageExecutionFailed log beside its         *)
(* ReceiveCrossChainMessage log in the same block, and Teleporter delivers *)
(* a message at most once.  What reverted may be retried until it works,   *)
(* which leaves a MessageExecuted log; the clients never look for one.     *)
(***************************************************************************)
EXTENDS Validators

CONSTANTS
  Msgs,        \* message ids
  Networks,    \* network ids a message may carry
  Garbled,     \* unsigned message bytes that do not parse
  Receipts,    \* receipts of the source transaction: sequences of logs, or Nil
  Snapshots,   \* the subnet's validators a P-Chain block may leave
  MaxHeight,   \* bound on the P-Chain's length
  MaxHead      \* bound on the destination chain's length

SendLogs == [warp : BOOLEAN, msg : Msgs, network : Networks \cup {Garbled}]
DestEvents == {"ReceiveCrossChainMessage", "MessageExecutionFailed", "MessageExecuted"}

DestLogs == [event : DestEvents, msg : Msgs, block : UInt64]

(* A validator as the P-Chain keeps it: key is the registered key, signer  *)
(* the one in the reply of getCurrentValidators, NoKey when that reply has *)
(* no signer for it.                                                       *)
Members == [node : Nodes, weight : Weights, key : Keys, signer : Keys]

ASSUME ChainAssumption ==
  /\ Receipts \subseteq Seq(SendLogs) \cup {Nil}
  /\ \A s \in Snapshots : s \subseteq Members /\ IsFiniteSet(s)
  /\ \A s \in Snapshots : \A v, w \in s : v.node = w.node => v = w
  /\ \A s \in Snapshots : \A v \in s : IsKey(v.signer) => v.signer = v.key
  /\ MaxHeight \in UInt64 \ {0}
  /\ MaxHead \in UInt64
  /\ Nil \notin DestLogs

VARIABLES
  pchain,   \* pchain[h] is the validators after P-Chain block h
  head,     \* number of the destination chain's latest block
  logs,     \* Teleporter logs on the destination chain
  receipt   \* receipt of the source transaction, Nil when it does not exist

chainVars == <<pchain, head, logs, receipt>>

ChainTypeOK ==
  /\ pchain \in Seq(Snapshots)
  /\ Len(pchain) \in 1 .. MaxHeight
  /\ head \in 0 .. MaxHead
  /\ logs \in SUBSET DestLogs
  /\ receipt \in Receipts

-----------------------------------------------------------------------------
(* What the chains hold.                                                   *)

LogOf(event, m) == {l \in logs : l.event = event /\ l.msg = m}
Received(m)     == LogOf("ReceiveCrossChainMessage", m)
Failed(m)       == LogOf("MessageExecutionFailed", m)
Retried(m)      == LogOf("MessageExecuted", m)

-----------------------------------------------------------------------------
(* What the clients answer.                                                *)

(* GetValidatorsAt: the node's own state has every registered key.         *)
RegisteredInfos(members) ==
  {[node |-> v.node, weight |-> v.weight, key |-> v.key] : v \in members}

(* Bytes that are no key count as none.                                    *)
ExtractBLSKeyBytes(signer) == IF IsKey(signer) THEN signer ELSE NoKey

(* GetCurrentValidators: only a signer in the reply brings a key.          *)
CurrentInfos(members) ==
  {[node |-> v.node, weight |-> v.weight,
    key |-> ExtractBLSKeyBytes(v.signer)] : v \in members}

(* The first SendWarpMessage log of the receipt, Nil when there is none.   *)
FirstSend ==
  LET sends == {i \in DOMAIN receipt : receipt[i].warp}
  IN  IF receipt = Nil \/ sends = {} THEN Nil ELSE receipt[Min(sends)]

(* GetSendWarpEvent's error: no receipt, or a client that decodes the log  *)
(* (evmClient does, other EVMClients need not) meets garbled data.         *)
SendEventUnreadable(decodes) ==
  \/ receipt = Nil
  \/ decodes /\ FirstSend # Nil /\ FirstSend.network = Garbled

InBlocks(ls, from, to) == {l \in ls : from <= l.block /\ l.block <= to}

(* The first log FilterLogs returns, in block order; Nil for none.         *)
Earliest(ls) ==
  IF ls = {} THEN {Nil} ELSE {l \in ls : \A k \in ls : l.block <= k.block}

(* Slip: the filter on Topics[1], the message id, is missing.              *)
FindAnyReceiveEvent(m, from, to) ==
  Earliest(InBlocks({l \in logs : l.event = "ReceiveCrossChainMessage"}, from, to))

(* Slip: the first block of the range is not searched.                     *)
FindExecutionFailedEventAfter(m, from, to) == Earliest(InBlocks(Failed(m), from + 1, to))

FindReceiveEvent(m, from, to)         == Earliest(InBlocks(Received(m), from, to))
FindExecutionFailedEvent(m, from, to) == Earliest(InBlocks(Failed(m), from, to))

-----------------------------------------------------------------------------

ChainInit ==
  /\ pchain \in {<<s>> : s \in Snapshots}
  /\ head = 0
  /\ logs = {}
  /\ receipt \in Receipts

NewPChainBlock ==
  /\ Len(pchain) < MaxHeight
  /\ \E s \in Snapshots : pchain' = Append(pchain, s)
  /\ UNCHANGED <<head, logs, receipt>>

NewDestBlock(newLogs) ==
  /\ head < MaxHead
  /\ head' = head + 1
  /\ logs' = logs \cup newLogs
  /\ UNCHANGED <<pchain, receipt>>

DestLog(event, m) == [event |-> event, msg |-> m, block |-> head + 1]

IdleBlock == NewDestBlock({})

Deliver(m) ==
  /\ Received(m) = {}
  /\ NewDestBlock({DestLog("ReceiveCrossChainMessage", m)})

DeliverReverting(m) ==
  /\ Received(m) = {}
  /\ NewDestBlock({DestLog("ReceiveCrossChainMessage", m),
                   DestLog("MessageExecutionFailed", m)})

RetryExecution(m) ==
  /\ Failed(m) # {}
  /\ Retried(m) = {}
  /\ NewDestBlock({DestLog("MessageExecuted", m)})

-----------------------------------------------------------------------------
(* A message is received in one block, and fails there if it fails.        *)
DeliveredOnce ==
  \A m \in Msgs :
    /\ \A r, s \in Received(m) : r.block = s.block
    /\ \A f \in Failed(m) : \E r \in Received(m) : r.block = f.block
==============================================================================
