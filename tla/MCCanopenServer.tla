-------------------------- MODULE MCCanopenServer --------------------------
(* Small instances of CanopenServer.  In the supervision instance the       *)
(* timers of the producers stay off, in the producer instance those of the  *)
(* supervised peers.                                                        *)
EXTENDS CanopenServer

MCPeriods == [t \in Timers |-> IF t \in Supervised THEN {0, MaxPeriod} ELSE {0}]
MCProducerPeriods == [t \in Timers |-> IF t \in Supervised THEN {0} ELSE {0, MaxPeriod}]

\* The supervision instance needs the commands and the signs of life, the
\* producer instance the commands and the requests that get a response.
MCArrivals == {"start", "stop", "reset_node"} \cup Supervised
MCProducerArrivals == {"start", "stop", "sdo", "sdo_abort"}
============================================================================
