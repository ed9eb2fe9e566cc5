----------------------------- MODULE Refinement -----------------------------
(***************************************************************************)
(* Diagnosis implements Attribution.                                       *)
(*                                                                         *)
(* The message in question is the one the engine diagnoses, the first of   *)
(* the receipt; its status is read off the destination chain's logs, the   *)
(* verdict off the report.                                                 *)
(***************************************************************************)
EXTENDS Diagnosis

Status ==
  IF FirstSend = Nil \/ Received(FirstSend.msg) = {} THEN "undelivered"
  ELSE IF Failed(FirstSend.msg) = {} THEN "executed"
  ELSE IF Retried(FirstSend.msg) = {} THEN "reverted"
  ELSE "retried"

(* Bytes that do not parse carry no network the engine could object to.    *)
ForNetworkElsewhere ==
  FirstSend # Nil /\ FirstSend.network \notin {Garbled, cfg.expected}

(* There is no destination client, the user chose the blocks, a call of    *)
(* the search was lost, or the message is outside of the searched blocks.  *)
Overlooked ==
  \/ ~cfg.hasDest
  \/ cfg.to > 0
  \/ lost \cap SearchCalls # {}
  \/ /\ range # Nil
     /\ Status # "undelivered"
     /\ InRange(Received(FirstSend.msg)) = {}

Promise == INSTANCE Attribution WITH
  status     <- Status,
  foreign    <- ForNetworkElsewhere,
  overlooked <- Overlooked,
  lostSight  <- "FindExecutionFailedEvent" \in lost,
  verdict    <- IF pc = "done" THEN report.rootCause ELSE Nil

(* engine.go 71-193: Diagnose gives one verdict, in the end, and it is     *)
(* true of the message and the destination chain, but for what the search  *)
(* was not asked, or failed, to look at.                                   *)
KeepsPromise == Promise!Spec

(* Its part without liveness.                                              *)
KeepsPromiseSafely == Promise!SafeSpec
==============================================================================
