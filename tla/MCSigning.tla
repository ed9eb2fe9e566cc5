------------------------------ MODULE MCSigning ------------------------------
(***************************************************************************)
(* A small instance of Signing for TLC.                                    *)
(***************************************************************************)
EXTENDS Signing

CONSTANTS m1, m2, n1, n2, n3

OneReceipt == {<<[warp |-> TRUE, msg |-> m1, network |-> "fuji"]>>}

V(n, w, k) == [node |-> n, weight |-> w, key |-> k, signer |-> k]

(* Three validators, two of whom are a quorum; they have the same stake;   *)
(* one is left; two have swapped their keys; two share a key, with equal   *)
(* stakes or not; one has none, or none the current reply shows; nobody    *)
(* has.                                                                    *)
SigningSnapshots ==
  { {V(n1, 2, 1), V(n2, 1, 2), V(n3, 1, 3)},
    {V(n1, 1, 1), V(n2, 1, 2), V(n3, 1, 3)},
    {V(n1, 2, 1)},
    {V(n1, 2, 1), V(n2, 1, 3), V(n3, 1, 2)},
    {V(n1, 1, 1), V(n2, 1, 1), V(n3, 1, 3)},
    {V(n1, 1, 1), V(n2, 2, 1), V(n3, 1, 3)},
    {V(n1, 2, 1), V(n2, 1, NoKey), [V(n3, 1, 3) EXCEPT !.signer = NoKey]},
    {V(n1, 1, NoKey)} }

(* The signing height is not known, or guessed right or wrong.             *)
SigningConfigs ==
  { [pchainHeight |-> h, hasDest |-> FALSE, from |-> 0, to |-> 0,
     expected |-> "fuji", decodes |-> TRUE] : h \in 0 .. 2 }

(* What the theorems of SigningProofs suppose of a network holds here.     *)
ASSUME SmallStakes == ProductsFit /\ 0 \notin Weights
==============================================================================
