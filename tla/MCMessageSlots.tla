---------------------------- MODULE MCMessageSlots ----------------------------
(***************************************************************************)
(* Instances of MessageSlots for TLC.  OnOff and MoveToLevel stand for the *)
(* commands that end with their status, ReadAttribute for those whose      *)
(* caller then waits for a response, and Erase for the one sent without a  *)
(* wait for its status.                                                    *)
(***************************************************************************)
EXTENDS MessageSlots, TLC

CONSTANTS OnOff, MoveToLevel, ReadAttribute, Erase,
          ReadAttrResponse, RestartFactoryNew

MCResponseOf ==
  [k \in Commands |-> CASE k = ReadAttribute -> ReadAttrResponse
                        [] k = Erase -> RestartFactoryNew
                        [] OTHER -> None]

\* The clients differ in nothing when all or none of them are in Below.
ClientSymmetry == Permutations(Clients)
=============================================================================
