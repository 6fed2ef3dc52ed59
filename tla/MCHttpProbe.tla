------------------------------ MODULE MCHttpProbe ------------------------------
(* HttpProbe for TLC: one connection whose client and server sockets are   *)
(* both on this node (a pod calling a service on the same node), so that   *)
(* every probe fires on the exchange.                                      *)
EXTENDS HttpProbe

CONSTANTS c1

MCConns == {c1}
====
