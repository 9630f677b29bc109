---------------------------- MODULE MCVpnEngine ----------------------------
(* Instances of VpnEngine for TLC. *)
EXTENDS VpnEngine

CONSTANTS fra, ist

MCEndpoints == {fra, ist}
MCFleet     == <<fra, ist>>
MCCdn       == {ist}

\* A fleet of one: the endpoint to pick is certain, whatever the scores.
MCFleetOfOne == <<fra>>
=============================================================================
