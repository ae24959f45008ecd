------------------------------- MODULE MCGame -------------------------------
(* Instances of Game for TLC: see the cfg files for the pools.             *)
EXTENDS Game
=============================================================================
