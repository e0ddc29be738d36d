------------------------------- MODULE MCDhcp -------------------------------
(* Small instances of Dhcp. *)
EXTENDS Dhcp

CONSTANTS c1, c2

\* Two clients that share the address of one server, or one client that is
\* offered an address by two servers.
TwoSites ==
  {[clients |-> {c1, c2}, servers |-> {"s1"}, MaxTime |-> 2],
   [clients |-> {c1}, servers |-> {"s1", "s2"}, MaxTime |-> 1]}

OneServer == {[clients |-> {c1, c2}, servers |-> {"s1"}, MaxTime |-> 3]}
=============================================================================
