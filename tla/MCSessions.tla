------------------------------ MODULE MCSessions ------------------------------
(* A small instance of Sessions for TLC. *)
EXTENDS Sessions

\* Two browsers behind one proxy, and none anywhere else.
CONSTANT proxy
MCAddressOf == [b \in Browsers |-> proxy]
=============================================================================
