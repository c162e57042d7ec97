---------------------------- MODULE SessionPorts ----------------------------
(***************************************************************************)
(* What the port pool and the Docker daemon have in common: the sessions   *)
(* that hold ports and the configured range of host ports.                 *)
(***************************************************************************)
EXTENDS Naturals

CONSTANTS
  Sessions,   \* session identifiers
  Ports,      \* the configured range PortRangeStart..PortRangeEnd
  NoPort      \* "no port"

ASSUME PortsAssumption ==
  /\ Ports \subseteq Nat
  /\ NoPort \notin Ports
=============================================================================
