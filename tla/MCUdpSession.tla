----------------------------- MODULE MCUdpSession -----------------------------
(* Values of the constants of UdpSession for TLC. *)
EXTENDS UdpSession

CONSTANT Other   \* a prefix outside the mapped network

MCPrefixes == {Net, Other}

\* A mapped address and one outside the network that hits the same record;
\* while the record is empty both are plain.
MCIPs == {[prefix |-> Net, host |-> 0], [prefix |-> Other, host |-> 0]}
=============================================================================
