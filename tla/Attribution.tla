----------------------------- MODULE Attribution -----------------------------
(***************************************************************************)
(* What WarpScope promises, without a word of how it finds out: a message, *)
(* made for this network or for another, is on its way, may be received    *)
(* and may revert at the destination; one verdict about it is given,       *)
(* eventually, and it is right.  A revert may be made good by a retry, yet *)
(* a verdict of a failed execution remains right: it is about the          *)
(* delivery, not about the present.                                        *)
(*                                                                         *)
(* There are two excuses.  "Overlooked" is that the tool did not look for  *)
(* the message, or not where it arrived: only then may a message that was  *)
(* received pass for one that never was.  "Lost sight" is that it could    *)
(* not look for the failure of a received message: only then may a         *)
(* reverted message pass for healthy.                                      *)
(***************************************************************************)
EXTENDS Integers

CONSTANT Nil

VARIABLES
  status,      \* what happened to the message on the destination chain
  foreign,     \* the message was made for another network
  overlooked,  \* the tool did not look where the message is
  lostSight,   \* the tool failed to look for a revert
  verdict      \* the verdict, Nil until it is given

vars == <<status, foreign, overlooked, lostSight, verdict>>

Verdicts == {"HEALTHY", "RELAYER_NEVER_PICKED_UP", "INVALID_NETWORK_ID",
             "DESTINATION_EXECUTION_FAILED", "ERROR"}

Init ==
  /\ status = "undelivered"
  /\ foreign \in BOOLEAN
  /\ overlooked \in BOOLEAN
  /\ lostSight = FALSE
  /\ verdict = Nil

(* The chain moves while the tool looks, and may move beyond where it      *)
(* looks.                                                                  *)
Deliver ==
  /\ verdict = Nil
  /\ status = "undelivered"
  /\ status' \in {"executed", "reverted"}
  /\ overlooked' \in {overlooked, TRUE}
  /\ UNCHANGED <<foreign, lostSight, verdict>>

Retry ==
  /\ verdict = Nil
  /\ status = "reverted"
  /\ status' = "retried"
  /\ UNCHANGED <<foreign, overlooked, lostSight, verdict>>

Overlook ==
  /\ verdict = Nil
  /\ overlooked' = TRUE
  /\ UNCHANGED <<status, foreign, lostSight, verdict>>

LoseSight ==
  /\ verdict = Nil
  /\ lostSight' = TRUE
  /\ UNCHANGED <<status, foreign, overlooked, verdict>>

Justified(v) ==
  CASE v = "HEALTHY" ->
         ~foreign /\ (status = "executed" \/ (status # "undelivered" /\ lostSight))
    [] v = "DESTINATION_EXECUTION_FAILED" -> ~foreign /\ status \in {"reverted", "retried"}
    [] v = "RELAYER_NEVER_PICKED_UP" -> ~foreign /\ (status = "undelivered" \/ overlooked)
    [] v = "INVALID_NETWORK_ID" -> foreign
    [] v = "ERROR" -> TRUE

Conclude ==
  /\ verdict = Nil
  /\ \E v \in Verdicts : Justified(v) /\ verdict' = v
  /\ UNCHANGED <<status, foreign, overlooked, lostSight>>

Next == Deliver \/ Retry \/ Overlook \/ LoseSight \/ Conclude

SafeSpec == Init /\ [][Next]_vars

Spec == SafeSpec /\ WF_vars(Conclude)
==============================================================================
