------------------------------ MODULE MCCommand ------------------------------
(***************************************************************************)
(* A small instance of Command for TLC.                                    *)
(***************************************************************************)
EXTENDS Command

CONSTANTS m1, m2, n1, l1

Sends(m, network) == [warp |-> TRUE, msg |-> m, network |-> network]
Foreign == [warp |-> FALSE, msg |-> m2, network |-> "fuji"]

(* None, or not yet; no Warp message; two messages of different subnets,   *)
(* behind a foreign log; the first of two garbled.                         *)
CommandReceipts ==
  { Nil,
    <<Foreign>>,
    <<Foreign, Sends(m1, "fuji"), Sends(m2, "fuji")>>,
    <<Sends(m1, Garbled), Sends(m2, "fuji")>> }

OneSnapshot == {{[node |-> n1, weight |-> 1, key |-> 1, signer |-> 1]}}

MCSubnetOf == [m \in {m1, m2} |-> IF m = m1 THEN l1 ELSE Primary]

-----------------------------------------------------------------------------
(* Command lines.                                                          *)

Minimal == [hash |-> TRUE, sourceRPC |-> FALSE, pchainRPC |-> FALSE, destRPC |-> FALSE,
            network |-> "fuji", subnet |-> Nil, height |-> 0, from |-> 0, to |-> 0,
            json |-> FALSE]

(* --network and --dest-rpc alone; as JSON; a subnet, or a height, or both *)
(* given; without a destination; no hash; a network that is not known,     *)
(* with and without URLs; a subnet that does not parse.                    *)
CommandLines ==
  { [Minimal EXCEPT !.destRPC = TRUE],
    [Minimal EXCEPT !.destRPC = TRUE, !.json = TRUE, !.subnet = l1],
    [Minimal EXCEPT !.destRPC = TRUE, !.height = 1],
    [Minimal EXCEPT !.destRPC = TRUE, !.subnet = l1, !.height = 2],
    Minimal,
    [Minimal EXCEPT !.hash = FALSE],
    [Minimal EXCEPT !.network = Unknown],
    [Minimal EXCEPT !.network = Unknown, !.sourceRPC = TRUE, !.pchainRPC = TRUE],
    [Minimal EXCEPT !.subnet = Unparsable] }

CommandConfigs ==
  {EngineFor([o EXCEPT !.height = h]) :
     o \in {c \in CommandLines : c.network # Unknown}, h \in UInt64}
==============================================================================
