----------------------------- MODULE MCDeviceTable -----------------------------
(***************************************************************************)
(* Instances of DeviceTable for TLC: a light whose second endpoint is      *)
(* Green Power, as in the README's example, and a sensor.                  *)
(***************************************************************************)
EXTENDS DeviceTable

CONSTANTS light, sensor, n1, n2, n3

MCFixed == light :> {n1} @@ sensor :> {n2}
MCMoving == light :> {n1, n3} @@ sensor :> {n2}
MCShared == light :> {n1, n3} @@ sensor :> {n2, n3}

\* Announcements that let the light have an address the sensor had before, as a
\* CONSTRAINT that leads TLC to the case.
MCMoves == <<[d |-> sensor, n |-> n3], [d |-> sensor, n |-> n2], [d |-> light, n |-> n1],
             [d |-> light, n |-> n3], [d |-> light, n |-> n1]>>
MCPath ==
  /\ joins > 0 => net[MCMoves[joins].d] = MCMoves[joins].n
  /\ Len(queue) <= 1 /\ BagCardinality(air) <= 2 /\ epIndex < 5

MCEndpointsOf == light :> <<1, 242>> @@ sensor :> <<1>>
MCClustersOf  == light :> <<"basic", "groups", "onoff">> @@ sensor :> <<"basic", "temp">>
MCTypeOf      == light :> "other" @@ sensor :> "other"
=============================================================================
