---------------------------- MODULE MCProxySession ----------------------------
(***************************************************************************)
(* An instance of ProxySession for TLC: one program has enough calls for a *)
(* repeated send and a second order, the other one interferes.             *)
(***************************************************************************)
EXTENDS ProxySession, TLC

CONSTANTS p1, p2

MCMaxCalls == p1 :> 5 @@ p2 :> 2
=============================================================================
