----------------------------- MODULE MCVorStore -----------------------------
(* Instances of VorStore for TLC. *)
EXTENDS VorStore

CONSTANTS fra, ist

\* A fleet with both kinds of endpoint; the CDN-routed one is not first.
MCEndpoints == {fra, ist}
MCFleet == <<fra, ist>>
MCCdn   == {ist}

\* The liveness run needs one endpoint only; without a CDN-routed one a blackout
\* leaves no candidate.
MCLone       == {fra}
MCLoneFleet  == <<fra>>
MCNoCdn      == {}

\* All delays of the code are multiples of 50 ms.
MCQuanta == {50}
=============================================================================
