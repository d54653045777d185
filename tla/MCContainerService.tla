------------------------- MODULE MCContainerService --------------------------
(***************************************************************************)
(* A service of three containers, two of them connected to the user's      *)
(* network: a container between two others, and one outside the network.   *)
(***************************************************************************)
EXTENDS ContainerService

CONSTANTS zookeeper, broker, registry

MCOrder == <<zookeeper, broker, registry>>
MCEndpoints == <<broker, registry>>
\* A number of attempts, a time limit, and both.
MCRetrySpecs ==
  {[interval |-> 1, attempts |-> 2, timeout |-> None],
   [interval |-> 1, attempts |-> None, timeout |-> 2],
   [interval |-> 2, attempts |-> 3, timeout |-> 1]}
================================================================================
