----------------------------- MODULE MCDiagnosis -----------------------------
(***************************************************************************)
(* Small instances of Diagnosis for TLC.                                   *)
(***************************************************************************)
EXTENDS Refinement, Claims

CONSTANTS m1, m2, n1, n2, n3

-----------------------------------------------------------------------------
(* Source receipts: none; no Warp log; a message for this network, alone   *)
(* or behind a foreign log; one for another network; garbled bytes; two    *)
(* messages in one transaction.                                            *)

Sends(m, network) == [warp |-> TRUE, msg |-> m, network |-> network]
Foreign == [warp |-> FALSE, msg |-> m2, network |-> "fuji"]

MCReceipts ==
  { Nil,
    <<Foreign>>,
    <<Foreign, Sends(m1, "fuji")>>,
    <<Sends(m1, "mainnet")>>,
    <<Sends(m1, Garbled)>>,
    <<Sends(m1, "fuji"), Sends(m2, "fuji")>> }

OneReceipt == {<<Sends(m1, "fuji")>>}

-----------------------------------------------------------------------------
(* Validator sets.                                                         *)

V(n, w, k) == [node |-> n, weight |-> w, key |-> k, signer |-> k]

(* The reply of getCurrentValidators has no signer for it, or a bad one.   *)
Silent(n, w, k, signer) == [V(n, w, k) EXCEPT !.signer = signer]

OneSnapshot == {{V(n1, 1, 1)}}

(* A validator joins, leaves, changes its stake, shares a key, has none, or *)
(* has one that the current reply does not show.                           *)
ChurnSnapshots ==
  { {V(n1, 1, 1), V(n2, 1, 2)},
    {V(n1, 1, 1), V(n2, 2, 2)},
    {V(n1, 1, 1)},
    {V(n1, 1, 1), V(n2, 1, NoKey), V(n3, 1, 1)},
    {Silent(n1, 1, 1, BadKey), Silent(n2, 1, 2, NoKey)} }

-----------------------------------------------------------------------------
(* Engine configurations.                                                  *)

Config(pchainHeight, hasDest, from, to, decodes) ==
  [pchainHeight |-> pchainHeight, hasDest |-> hasDest, from |-> from, to |-> to,
   expected |-> "fuji", decodes |-> decodes]

(* The recent blocks; a client that does not decode; a first block alone,   *)
(* which is ignored; ranges given by the user, one beyond the chain's end; *)
(* no destination.                                                         *)
DeliveryConfigs ==
  { Config(1, TRUE, 0, 0, TRUE),
    Config(0, TRUE, 0, 0, FALSE),
    Config(1, TRUE, 2, 0, TRUE),
    Config(1, TRUE, 1, 2, TRUE),
    Config(1, TRUE, 2, 7, TRUE),
    Config(0, FALSE, 0, 0, TRUE) }

ChurnConfigs == {Config(h, FALSE, 0, 0, TRUE) : h \in 0 .. 4}
==============================================================================
