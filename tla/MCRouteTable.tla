---------------------------- MODULE MCRouteTable ----------------------------
(* The instances of RouteTable that TLC checks. *)
EXTENDS RouteTable
=============================================================================
