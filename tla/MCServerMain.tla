---------------------------- MODULE MCServerMain ----------------------------
(* Instances of ServerMain for TLC: see the cfg file for the sizes.        *)
EXTENDS ServerMain

(* The first server is told to stop, by any number of SIGINTs; the second  *)
(* takes over from it.                                                     *)
MCSignals == {<<1, "SIGINT">>}
=============================================================================
