------------------------------ MODULE MCDhcpd -------------------------------
(* A small instance of Dhcpd. *)
EXTENDS Dhcpd
=============================================================================
