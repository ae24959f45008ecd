----------------------------- MODULE MCSessions -----------------------------
(* Instances of Sessions for TLC: see the cfg files for the sizes.         *)
EXTENDS Sessions, BattleLog

(* However many lines have been pushed, the panel of the GUI shows the     *)
(* last six, oldest first, below the empty ones.                           *)
ASSUME PanelShowsLast ==
  \A n \in 0..9 : \A lines \in [1..n -> {"P", "AI"}] :
    LET all == [i \in 1..LOG_LINES |-> NoLine] \o lines
        st  == FoldLeft(push_log, NoLog, lines)
    IN Shown(st) = SubSeq(all, n + 1, n + LOG_LINES)
=============================================================================
