----------------------------- MODULE BattleLog -----------------------------
(***************************************************************************)
(* The battle log of a state_t: a ring of LOG_LINES lines that push_log of *)
(* src/src/server.c writes and that travels with every STATE; and the      *)
(* lines the GUI shows, src/src/client_gui.c, which knows the ring only by *)
(* log_head.  A line is an opaque value; NoLine is the empty string.       *)
(***************************************************************************)
EXTENDS Integers, Sequences

LOG_LINES == 6
NoLine    == ""

(* The ring of a zeroed state_t.                                           *)
NoLog == [log_head |-> 0, logs |-> [i \in 0..(LOG_LINES - 1) |-> NoLine]]

\* Rings that hold lines of the set Lines.
Rings(Lines) == [log_head : 0..(LOG_LINES - 1), logs : [0..(LOG_LINES - 1) -> Lines]]

push_log(st, line) ==
  [log_head |-> (st.log_head + 1) % LOG_LINES,
   logs     |-> [st.logs EXCEPT ![st.log_head % LOG_LINES] = line]]

(* The panel "Battle Log:" of the GUI, from top to bottom (an empty line   *)
(* is drawn as a dash).                                                    *)
Shown(st) == [i \in 1..LOG_LINES |-> st.logs[(st.log_head + (i - 1)) % 6]]

=============================================================================
