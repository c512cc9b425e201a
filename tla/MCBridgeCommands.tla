--------------------------- MODULE MCBridgeCommands ---------------------------
(***************************************************************************)
(* Instances of BridgeCommands for TLC: the sensor and the color light of  *)
(* the README, and a light that only switches.                             *)
(***************************************************************************)
EXTENDS BridgeCommands, TLC

CONSTANTS sensor, color, light

AllKinds == sensor :> "temp" @@ color :> "color" @@ light :> "onoff"
MCKindOf == [n \in Nodes |-> AllKinds[n]]

\* The color light may come back with another short address.
MCAddressesOf ==
  [n \in Nodes |-> {n} \X IF n = color THEN {1, 2} ELSE {1}]

\* One above the least value: the least stands for "invalid" in Zigbee.
MCLowest == -3

MCGarbage == {[cluster |-> "temp", value |-> 0]}
=============================================================================
