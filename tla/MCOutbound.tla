----------------------------- MODULE MCOutbound ------------------------------
(***************************************************************************)
(* Values for TLC's run of the outbound calls: two calls for one DPS, one  *)
(* of them with a webhook.                                                 *)
(***************************************************************************)
EXTENDS OutboundCalls

CONSTANTS c1, c2

TwoCalls == {c1, c2}
SameDps(c) == 1
OneNotified == {c1}
===============================================================================
