------------------------------ MODULE MCNodeJoin ------------------------------
(***************************************************************************)
(* Instances of NodeJoin for TLC.                                          *)
(***************************************************************************)
EXTENDS NodeJoin, TLC

CONSTANTS n1, n2, n3

\* A color light and a light that only switches, without and with a dimmable
\* light; and a sensor, for which the saved type has no value.
MCLights == (n1 :> "color") @@ (n2 :> "onoff")
MCThreeLights == MCLights @@ (n3 :> "dimmable")
MCSensor == n1 :> "temp"

\* Each node keeps its short address; BridgeCommands has one that moves.
MCAddressesOf == [n \in Nodes |-> {<<n, 1>>}]
=============================================================================
