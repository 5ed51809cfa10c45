----------------------------- MODULE MCLiveView -----------------------------
(* The dashboard with one client, two coins and queues of two messages.    *)
EXTENDS LiveView

CONSTANTS c1, btc, eth
=============================================================================
