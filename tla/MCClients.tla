----------------------------- MODULE MCClients -----------------------------
(* Instances of Clients for TLC: see the cfg files for the sizes.          *)
EXTENDS Clients
=============================================================================
