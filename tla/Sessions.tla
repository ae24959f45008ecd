------------------------------ MODULE Sessions ------------------------------
(***************************************************************************)
(* One player, the connections its GUI makes one after the other, the      *)
(* worker process behind each of them, and the shared session store they   *)
(* resume from: run_session of src/src/server.c composed with net_thread   *)
(* and the click handler of src/src/client_gui.c.                          *)
(*                                                                         *)
(* A game is what Duel.tla says of it, plus the commands it has executed.  *)
(* ipc_alloc_session is a single step here (SessionStore.tla has its       *)
(* races); a save or load of the store still copies st and hand apart.     *)
(* The other players are not here, but may have used up all the slots.     *)
(***************************************************************************)
EXTENDS Integers, Sequences, FiniteSets, SequencesExt

CONSTANTS
  MaxConns,      \* bound: connections the GUI makes
  MaxCmds,       \* bound: clicks of the player
  MaxRestarts,   \* bound: restarts of the server (each zeroes the store)
  Overlap,       \* connections that may arrive while an older worker still runs
  Killable       \* can a worker be killed between any two of its steps?

ASSUME SessionsAssumption ==
  /\ MaxConns \in Nat \ {0} /\ MaxCmds \in Nat /\ MaxRestarts \in Nat
  /\ Overlap \subseteq 1..MaxConns /\ Killable \in BOOLEAN

VARIABLES
  store,      \* session id -> [valid, st, hand]
  wk,         \* worker of each connection: [pc, then, sid, st, hand]
  c2s, s2c,   \* packets in flight on each connection
  up,         \* connections the client has not closed
  cl,         \* net_thread and g_sh of the GUI
  pipe,       \* clicks on their way from the UI thread to net_thread
  full,       \* is no slot of the store left?
  killed,     \* history: has a worker been killed?
  failed,     \* history: connections that were lost, or whose worker was
              \* killed or ended because the server is full
  nconn, ncmd, nrestart

srvVars == <<store, wk>>
netVars == <<c2s, s2c, up>>
bounds  == <<killed, nconn, ncmd, nrestart>>
fate    == <<full, failed>>
vars    == <<store, wk, c2s, s2c, up, cl, pipe, killed, nconn, ncmd, nrestart, fate>>

Conns == 1..MaxConns
Kinds == {"PLAY_CARD", "END_TURN"}

(* A session is named after the connection that logged in; 0 is no session.*)
(* deal identifies a dealt hand: who dealt it, and its number in the game. *)
NoGame   == [sid |-> 0, log |-> <<>>, turn |-> 0, over |-> 0, deal |-> <<0, 0>>]
NoHand   == <<0, 0>>
Deal(w, st) == [st EXCEPT !.deal = <<w, st.deal[2] + 1>>]

(* enter_turn(&st, &hand, 0) on a zeroed state_t.                          *)
NewGame(w) == Deal(w, [NoGame EXCEPT !.sid = w])

(* The command m executed on the game st: which hand the player saw when   *)
(* clicking, and which hand it was applied to.                             *)
Executed(st, hand, m) ==
  [st EXCEPT !.log = Append(@, [op |-> m.op, id |-> m.id, aim |-> m.aim, onto |-> hand])]

\* mutant: playing a card draws a new hand
PlayOutcomesRedraw(w, st, hand, m) ==
  {st} \union {[Deal(w, Executed(st, hand, m)) EXCEPT !.over = o] : o \in {0, 1}}

(* handle_play_card: refused, executed, or executed and the game won.  The *)
(* card stays in the hand.                                                 *)
PlayOutcomes(w, st, hand, m) ==
  {st} \union {[Executed(st, hand, m) EXCEPT !.over = o] : o \in {0, 1}}

\* mutant: the turn counter is incremented instead of flipped
EndOutcomesNoFlip(w, st) == {[st EXCEPT !.over = 1], Deal(w, [st EXCEPT !.turn = @ + 1])}

(* phase_end: the poison ends the game, or the other side begins.          *)
EndOutcomes(w, st) == {[st EXCEPT !.over = 1], Deal(w, [st EXCEPT !.turn = 1 - @])}

(* process_ai_turn: the AI wins, or its own phase_end.                     *)
AiOutcomes(w, st) == {[st EXCEPT !.over = 1]} \union EndOutcomes(w, st)

Board(st, hand, ack) ==
  << [op |-> "STATE", st |-> st, ack |-> ack], [op |-> "HAND", hand |-> hand] >>
-----------------------------------------------------------------------------
Init ==
  /\ store = [s \in Conns |-> [valid |-> FALSE, st |-> NoGame, hand |-> NoHand]]
  /\ wk    = [w \in Conns |-> [pc |-> "none", then |-> "none", sid |-> 0,
                               st |-> NoGame, hand |-> NoHand]]
  /\ c2s   = [w \in Conns |-> <<>>]
  /\ s2c   = [w \in Conns |-> <<>>]
  /\ up    = {}
  /\ cl    = [cur |-> 0, sid |-> 0, st |-> NoGame, hand |-> NoHand, has_state |-> FALSE,
              has_hand |-> FALSE, connected |-> FALSE, selected |-> FALSE,
              running |-> TRUE, waiting |-> 0]
  /\ pipe  = <<>>
  /\ killed = FALSE /\ nconn = 0 /\ ncmd = 0 /\ nrestart = 0
  /\ full = FALSE /\ failed = {}

(* Where the main loop goes: the AI first if it is its turn, then recv.    *)
LoopPc(st) == IF st.turn = 1 /\ st.over = 0 THEN "ai_entry" ELSE "recv"

(* proto_send of a batch of packets.  To a peer that is gone it is lost,   *)
(* or kills the worker: SIGPIPE has its default action.                    *)
Send(w, msgs, state, next) ==
  IF w \in up
    THEN /\ s2c' = [s2c EXCEPT ![w] = @ \o msgs]
         /\ wk' = [wk EXCEPT ![w] = [state EXCEPT !.pc = next]]
    ELSE /\ \E p \in {next, "done"} : wk' = [wk EXCEPT ![w] = [state EXCEPT !.pc = p]]
         /\ UNCHANGED s2c

Pop(w) == c2s' = [c2s EXCEPT ![w] = Tail(@)]

Packet(w, pc, op) == wk[w].pc = pc /\ c2s[w] # <<>> /\ Head(c2s[w]).op = op

(* Handshake, LOGIN_REQ: a new game, a slot for it, and the first save.    *)
HsLogin(w) ==
  /\ Packet(w, "hs", "LOGIN_REQ")
  /\ ~full
  /\ Pop(w)
  /\ wk' = [wk EXCEPT ![w] = [pc |-> "save_st", then |-> "hello", sid |-> w,
                              st |-> NewGame(w), hand |-> NewGame(w).deal]]
  /\ store' = [store EXCEPT ![w].valid = TRUE]
  /\ UNCHANGED <<s2c, up, cl, pipe, bounds, fate>>

(* Handshake, LOGIN_REQ with every slot taken: the worker sends an ERROR,  *)
(* which the GUI skips, and ends.  No slot is ever released.               *)
HsFull(w) ==
  /\ Packet(w, "hs", "LOGIN_REQ")
  /\ Pop(w)
  /\ wk' = [wk EXCEPT ![w].pc = "done"]
  /\ full' = TRUE
  /\ failed' = failed \union {w}
  /\ UNCHANGED <<store, s2c, up, cl, pipe, bounds>>

\* mutant: the stored state is not copied into the worker's own
HsResumeFresh(w) ==
  /\ Packet(w, "hs", "RESUME_REQ")
  /\ Pop(w)
  /\ LET sid == Head(c2s[w]).sid IN
       IF store[sid].valid
         THEN /\ wk' = [wk EXCEPT ![w] = [@ EXCEPT !.pc = "load_hand", !.sid = sid,
                                                   !.st = [NewGame(w) EXCEPT !.sid = sid]]]
              /\ UNCHANGED s2c
         ELSE Send(w, << [op |-> "RESUME_RESP", ok |-> FALSE, sid |-> 0] >>, wk[w], "hs")
  /\ UNCHANGED <<store, up, cl, pipe, bounds, fate>>

(* Handshake, RESUME_REQ: ipc_load_session, or ok = 0 and the loop again.  *)
HsResume(w) ==
  /\ Packet(w, "hs", "RESUME_REQ")
  /\ Pop(w)
  /\ LET sid == Head(c2s[w]).sid IN
       IF store[sid].valid
         THEN /\ wk' = [wk EXCEPT ![w] = [@ EXCEPT !.pc = "load_hand", !.sid = sid,
                                                   !.st = store[sid].st]]
              /\ UNCHANGED s2c
         ELSE Send(w, << [op |-> "RESUME_RESP", ok |-> FALSE, sid |-> 0] >>, wk[w], "hs")
  /\ UNCHANGED <<store, up, cl, pipe, bounds, fate>>

LoadHand(w) ==
  /\ wk[w].pc = "load_hand"
  /\ wk' = [wk EXCEPT ![w] = [@ EXCEPT !.pc = "hello", !.hand = store[wk[w].sid].hand]]
  /\ UNCHANGED <<store, netVars, cl, pipe, bounds, fate>>

(* Handshake, anything else: ignored.                                      *)
HsOther(w) ==
  /\ \E op \in Kinds : Packet(w, "hs", op)
  /\ Pop(w)
  /\ UNCHANGED <<srvVars, s2c, up, cl, pipe, bounds, fate>>

(* The handshake's answer: the session id, then the board.                 *)
Hello(w) ==
  /\ wk[w].pc = "hello"
  /\ Send(w, << [op |-> "RESUME_RESP", ok |-> TRUE, sid |-> wk[w].sid] >>
               \o Board(wk[w].st, wk[w].hand, 0),
          wk[w], LoopPc(wk[w].st))
  /\ UNCHANGED <<store, c2s, up, cl, pipe, bounds, fate>>

(* ipc_save_session: st, then hand; a session that is gone is not saved.   *)
SaveSt(w) ==
  /\ wk[w].pc = "save_st"
  /\ IF store[wk[w].sid].valid
       THEN /\ store' = [store EXCEPT ![wk[w].sid].st = wk[w].st]
            /\ wk' = [wk EXCEPT ![w].pc = "save_hand"]
       ELSE /\ wk' = [wk EXCEPT ![w].pc = wk[w].then]
            /\ UNCHANGED store
  /\ UNCHANGED <<netVars, cl, pipe, bounds, fate>>

\* mutant: the hand is not saved
SaveHandNot(w) ==
  /\ wk[w].pc = "save_hand"
  /\ wk' = [wk EXCEPT ![w].pc = wk[w].then]
  /\ UNCHANGED <<store, netVars, cl, pipe, bounds, fate>>

SaveHand(w) ==
  /\ wk[w].pc = "save_hand"
  /\ store' = [store EXCEPT ![wk[w].sid].hand = wk[w].hand]
  /\ wk' = [wk EXCEPT ![w].pc = wk[w].then]
  /\ UNCHANGED <<netVars, cl, pipe, bounds, fate>>

(* The worker's new state, with the hand dealt for it if one was dealt, is *)
(* saved before the worker goes on.                                        *)
SaveThen(w, st, then) ==
  LET hand == IF st.deal = wk[w].st.deal THEN wk[w].hand ELSE st.deal IN
  wk' = [wk EXCEPT ![w] = [@ EXCEPT !.pc = "save_st", !.then = then, !.st = st, !.hand = hand]]

(* Main loop: process_ai_turn before proto_recv, saved but not sent.       *)
AiOnEntry(w) ==
  /\ wk[w].pc = "ai_entry"
  /\ \E st \in AiOutcomes(w, wk[w].st) : SaveThen(w, st, "recv")
  /\ UNCHANGED <<store, netVars, cl, pipe, bounds, fate>>

(* Any packet after the end of the game: the final board again.            *)
RecvOver(w) ==
  /\ \E op \in Kinds : Packet(w, "recv", op)
  /\ wk[w].st.over = 1
  /\ Pop(w)
  /\ Send(w, Board(wk[w].st, wk[w].hand, 1), wk[w], "recv")
  /\ UNCHANGED <<store, up, cl, pipe, bounds, fate>>

\* mutant: the board is sent without saving the session
RecvPlayUnsaved(w) ==
  /\ Packet(w, "recv", "PLAY_CARD")
  /\ wk[w].st.over = 0
  /\ Pop(w)
  /\ \E st \in PlayOutcomes(w, wk[w].st, wk[w].hand, Head(c2s[w])) :
       wk' = [wk EXCEPT ![w] = [@ EXCEPT !.pc = "reply", !.st = st]]
  /\ UNCHANGED <<store, s2c, up, cl, pipe, bounds, fate>>

\* mutant: the packet is handled again
RecvPlayAgain(w) ==
  /\ Packet(w, "recv", "PLAY_CARD")
  /\ wk[w].st.over = 0
  /\ \E st \in PlayOutcomes(w, wk[w].st, wk[w].hand, Head(c2s[w])) : SaveThen(w, st, "reply")
  /\ UNCHANGED <<store, c2s, s2c, up, cl, pipe, bounds, fate>>

\* mutant: a refused card is not answered with the board
RecvPlayQuiet(w) ==
  /\ Packet(w, "recv", "PLAY_CARD")
  /\ wk[w].st.over = 0
  /\ Pop(w)
  /\ \E st \in PlayOutcomes(w, wk[w].st, wk[w].hand, Head(c2s[w])) :
       SaveThen(w, st, IF st = wk[w].st THEN "recv" ELSE "reply")
  /\ UNCHANGED <<store, s2c, up, cl, pipe, bounds, fate>>

(* PLAY_CARD and END_TURN.  Their refusals for a wrong turn or phase are   *)
(* left out: with the player's turn in MAIN phase on every receive (the    *)
(* invariant ReadyToRecv of Game.tla) the worker never sends them.         *)
RecvPlay(w) ==
  /\ Packet(w, "recv", "PLAY_CARD")
  /\ wk[w].st.over = 0
  /\ Pop(w)
  /\ \E st \in PlayOutcomes(w, wk[w].st, wk[w].hand, Head(c2s[w])) : SaveThen(w, st, "reply")
  /\ UNCHANGED <<store, s2c, up, cl, pipe, bounds, fate>>

\* mutant: the AI's turn is left to the top of the loop, after the reply
RecvEndTurnNoAi(w) ==
  /\ Packet(w, "recv", "END_TURN")
  /\ wk[w].st.over = 0
  /\ Pop(w)
  /\ \E st \in EndOutcomes(w, Executed(wk[w].st, wk[w].hand, Head(c2s[w]))) :
       SaveThen(w, st, "reply")
  /\ UNCHANGED <<store, s2c, up, cl, pipe, bounds, fate>>

RecvEndTurn(w) ==
  /\ Packet(w, "recv", "END_TURN")
  /\ wk[w].st.over = 0
  /\ Pop(w)
  /\ \E st \in EndOutcomes(w, Executed(wk[w].st, wk[w].hand, Head(c2s[w]))) :
       SaveThen(w, st, IF LoopPc(st) = "recv" THEN "reply" ELSE "ai")
  /\ UNCHANGED <<store, s2c, up, cl, pipe, bounds, fate>>

AiTurn(w) ==
  /\ wk[w].pc = "ai"
  /\ \E st \in AiOutcomes(w, wk[w].st) : SaveThen(w, st, "reply")
  /\ UNCHANGED <<store, netVars, cl, pipe, bounds, fate>>

ReplyBoard(w) ==
  /\ wk[w].pc = "reply"
  /\ Send(w, Board(wk[w].st, wk[w].hand, 1), wk[w], LoopPc(wk[w].st))
  /\ UNCHANGED <<store, c2s, up, cl, pipe, bounds, fate>>

(* proto_recv fails once everything the client sent has been read.         *)
WorkerEof(w) ==
  /\ wk[w].pc \in {"hs", "recv"}
  /\ w \notin up /\ c2s[w] = <<>>
  /\ wk' = [wk EXCEPT ![w].pc = "done"]
  /\ UNCHANGED <<store, netVars, cl, pipe, bounds, fate>>

Kill(w) ==
  /\ Killable
  /\ wk[w].pc \notin {"none", "done"}
  /\ wk' = [wk EXCEPT ![w].pc = "done"]
  /\ killed' = TRUE
  /\ failed' = failed \union ({w} \cap up)
  /\ UNCHANGED <<store, netVars, cl, pipe, full, nconn, ncmd, nrestart>>

(* main of a new server process: ipc_store_init(1) zeroes the store.       *)
Restart ==
  /\ nrestart < MaxRestarts
  /\ store' = [s \in Conns |-> [valid |-> FALSE, st |-> NoGame, hand |-> NoHand]]
  /\ nrestart' = nrestart + 1
  /\ full' = FALSE
  /\ UNCHANGED <<wk, netVars, cl, pipe, killed, failed, nconn, ncmd>>
-----------------------------------------------------------------------------
(* main accepts a connection and forks a worker, which starts in the       *)
(* handshake of run_session.                                               *)
Fork(w) == wk' = [wk EXCEPT ![w].pc = "hs"]

(* net_thread connects and asks to resume the session it knows, or to log  *)
(* in.                                                                     *)
Connect ==
  LET w == nconn + 1 IN
  /\ cl.running /\ cl.cur = 0
  /\ nconn < MaxConns
  /\ w \in Overlap \/ \A v \in Conns : wk[v].pc \in {"none", "done"}
  /\ nconn' = w
  /\ up' = up \union {w}
  /\ Fork(w)
  /\ c2s' = [c2s EXCEPT ![w] = << IF cl.sid # 0 THEN [op |-> "RESUME_REQ", sid |-> cl.sid]
                                                ELSE [op |-> "LOGIN_REQ"] >>]
  /\ cl' = [cl EXCEPT !.cur = w]
  /\ UNCHANGED <<store, s2c, pipe, killed, ncmd, nrestart, fate>>

(* conn_close and back to the top of net_thread.  Of what is still on its  *)
(* way to the worker, a suffix can be lost with the connection.            *)
Close(c) ==
  /\ up' = up \ {cl.cur}
  /\ \E n \in 0..Len(c2s[cl.cur]) : c2s' = [c2s EXCEPT ![cl.cur] = SubSeq(@, 1, n)]
  /\ s2c' = [s2c EXCEPT ![cl.cur] = <<>>]
  /\ cl' = [c EXCEPT !.cur = 0, !.connected = FALSE, !.waiting = 0]

ConnLost ==
  /\ cl.cur # 0
  /\ Close(cl)
  /\ failed' = failed \union {cl.cur}
  /\ UNCHANGED <<srvVars, pipe, bounds, full>>

ClientEof ==
  /\ cl.cur # 0
  /\ wk[cl.cur].pc = "done" /\ s2c[cl.cur] = <<>>
  /\ Close(cl)
  /\ UNCHANGED <<srvVars, pipe, bounds, fate>>

Incoming(op) == cl.cur # 0 /\ s2c[cl.cur] # <<>> /\ Head(s2c[cl.cur]).op = op

Taken == s2c' = [s2c EXCEPT ![cl.cur] = Tail(@)]

\* mutant: after a failed resume the session is not forgotten
OnResumeRespAgain ==
  /\ Incoming("RESUME_RESP")
  /\ LET m == Head(s2c[cl.cur]) IN
       IF m.ok
         THEN Taken /\ cl' = [cl EXCEPT !.sid = m.sid] /\ UNCHANGED <<c2s, up>>
         ELSE Close(cl)
  /\ UNCHANGED <<srvVars, pipe, bounds, fate>>

OnResumeResp ==
  /\ Incoming("RESUME_RESP")
  /\ LET m == Head(s2c[cl.cur]) IN
       IF m.ok
         THEN Taken /\ cl' = [cl EXCEPT !.sid = m.sid] /\ UNCHANGED <<c2s, up>>
         ELSE Close([cl EXCEPT !.sid = 0])
  /\ UNCHANGED <<srvVars, pipe, bounds, fate>>

OnState ==
  /\ Incoming("STATE")
  /\ Taken
  /\ LET m == Head(s2c[cl.cur]) IN
       cl' = [cl EXCEPT !.st = m.st, !.has_state = TRUE, !.connected = TRUE,
                        !.waiting = @ - m.ack]
  /\ UNCHANGED <<srvVars, c2s, up, pipe, bounds, fate>>

OnHand ==
  /\ Incoming("HAND")
  /\ Taken
  /\ cl' = [cl EXCEPT !.hand = Head(s2c[cl.cur]).hand, !.has_hand = TRUE]
  /\ UNCHANGED <<srvVars, c2s, up, pipe, bounds, fate>>

(* What the UI thread draws: nothing yet, the end of the game, the overlay *)
(* "AI TURN", or a board to act on.                                        *)
Screen ==
  CASE ~cl.connected /\ ~cl.has_state -> "connecting"
    [] cl.has_state /\ cl.st.over = 1 -> "over"
    [] cl.has_state /\ cl.st.over = 0 /\ cl.st.turn # 0 -> "ai turn"
    [] OTHER -> "board"

(* A press of the mouse is looked at only on a board of a live connection. *)
CanClick ==
  cl.connected /\ cl.has_state /\ cl.has_hand /\ cl.st.over = 0 /\ cl.st.turn = 0

(* A command for net_thread.  It names a card by its place in the hand     *)
(* only: aim is the hand the player sees.                                  *)
Command(op) ==
  /\ ncmd < MaxCmds
  /\ ncmd' = ncmd + 1
  /\ pipe' = Append(pipe, [op |-> op, id |-> ncmd + 1, aim |-> cl.hand])
  /\ cl' = [cl EXCEPT !.selected = FALSE]
  /\ UNCHANGED <<srvVars, netVars, killed, nconn, nrestart, fate>>

PressEndTurn  == CanClick /\ Command("END_TURN")
PressSelected == CanClick /\ cl.selected /\ Command("PLAY_CARD")

(* Another card becomes the selected one; elsewhere, none is.              *)
PressOther(sel) ==
  /\ CanClick
  /\ cl' = [cl EXCEPT !.selected = sel]
  /\ UNCHANGED <<srvVars, netVars, pipe, bounds, fate>>

(* The GUI process ends: its window is closed, or it has written to a      *)
(* connection whose worker is gone (SIGPIPE has its default action).       *)
GuiEnds ==
  /\ cl.running
  /\ pipe' = <<>>
  /\ IF cl.cur # 0
       THEN Close([cl EXCEPT !.running = FALSE])
       ELSE cl' = [cl EXCEPT !.running = FALSE] /\ UNCHANGED netVars
  /\ UNCHANGED <<srvVars, bounds, fate>>

(* net_thread forwards a click, whatever the connection is doing; to a     *)
(* worker that is gone it is lost, and the result is not looked at.        *)
NetSend ==
  /\ cl.cur # 0 /\ pipe # <<>>
  /\ pipe' = Tail(pipe)
  /\ IF wk[cl.cur].pc = "done" THEN UNCHANGED c2s
                               ELSE c2s' = [c2s EXCEPT ![cl.cur] = Append(@, Head(pipe))]
  /\ cl' = [cl EXCEPT !.waiting = @ + 1]
  /\ UNCHANGED <<srvVars, s2c, up, bounds, fate>>
-----------------------------------------------------------------------------
WorkerStep(w) ==
  \/ HsLogin(w) \/ HsFull(w) \/ HsResume(w) \/ LoadHand(w) \/ HsOther(w) \/ Hello(w)
  \/ SaveSt(w) \/ SaveHand(w) \/ AiOnEntry(w) \/ AiTurn(w)
  \/ RecvOver(w) \/ RecvPlay(w) \/ RecvEndTurn(w) \/ ReplyBoard(w) \/ WorkerEof(w)

ClientStep == Connect \/ ClientEof \/ OnResumeResp \/ OnState \/ OnHand \/ NetSend

Next ==
  \/ \E w \in Conns : WorkerStep(w) \/ Kill(w)
  \/ ClientStep
  \/ ConnLost
  \/ PressEndTurn \/ PressSelected \/ \E sel \in BOOLEAN : PressOther(sel)
  \/ GuiEnds
  \/ Restart

(* Processes and threads are scheduled; nobody has to click, and nothing   *)
(* has to fail.                                                            *)
Fairness == WF_vars(ClientStep) /\ \A w \in Conns : WF_vars(WorkerStep(w))

Spec     == Init /\ [][Next]_vars
FairSpec == Spec /\ Fairness
-----------------------------------------------------------------------------
Deals == Conns \X Nat \union {NoHand}
Games == [sid : 0..MaxConns, turn : {0, 1}, over : {0, 1}, deal : Deals,
          log : Seq([op : Kinds, id : 1..MaxCmds, aim : Deals, onto : Deals])]

TypeOK ==
  /\ \A s \in Conns : store[s].valid \in BOOLEAN /\ store[s].st \in Games
  /\ \A w \in Conns : wk[w].st \in Games /\ wk[w].sid \in 0..MaxConns
  /\ up \subseteq Conns
  /\ cl.cur \in 0..MaxConns /\ cl.sid \in 0..MaxConns /\ cl.st \in Games /\ cl.waiting \in Nat

(* Of two boards of a session, b is a or comes after it.                   *)
NotBefore(a, b) ==
  IsPrefix(a.log, b.log) /\ a.deal[2] <= b.deal[2] /\ a.over <= b.over

(* What the player has seen happen, the AI's turns and the end of the game *)
(* included, is in the stored session: the saves of server.c come before   *)
(* the sends, so that no crash, lost connection or lost packet can take    *)
(* back what was on the screen.                                            *)
SeenIsDurable ==
  cl.has_state /\ store[cl.st.sid].valid => NotBefore(cl.st, store[cl.st.sid].st)

(* No click is executed twice, on whatever connection it travelled.        *)
AtMostOnce ==
  \A g \in {wk[w].st : w \in Conns} \union {store[s].st : s \in Conns} :
    \A i, j \in DOMAIN g.log : g.log[i].id = g.log[j].id => i = j

(* No worker was killed, and no other server has zeroed the store: both    *)
(* can come between the two struct assignments of a save or a load, or     *)
(* between the two saves of END_TURN.                                      *)
Undisturbed == ~killed /\ nrestart = 0

(* A click names a place in the hand only (play_req_t).  If undisturbed,   *)
(* the card it plays is of the hand the player was looking at; or an       *)
(* END_TURN of the player's was executed on that hand before; or the click *)
(* was made on another session's board (it was still in the pipe, or the   *)
(* new HAND had not arrived).                                              *)
AimedAtSeen ==
  Undisturbed =>
    \A w \in Conns : LET log == wk[w].st.log IN
      \A k \in DOMAIN log :
        log[k].op = "PLAY_CARD" /\ log[k].aim # log[k].onto =>
          \/ wk[log[k].aim[1]].sid # wk[w].sid
          \/ \E j \in 1..(k - 1) : log[j].op = "END_TURN" /\ log[j].onto = log[k].aim

(* The hand on the screen is the one dealt for the board next to it once   *)
(* everything sent has arrived (if undisturbed).                           *)
PairShown ==
  /\ Undisturbed
  /\ cl.connected /\ cl.cur # 0 /\ s2c[cl.cur] = <<>>
  => cl.hand = cl.st.deal

(* The player is never locked out, unless a worker was killed in mid       *)
(* END_TURN: when client and worker have nothing in flight and both wait,  *)
(* the screen shows a board that takes clicks, or the end of the game.     *)
NobodyStuck ==
  /\ ~killed
  /\ cl.connected /\ cl.cur # 0
  /\ s2c[cl.cur] = <<>> /\ c2s[cl.cur] = <<>> /\ pipe = <<>>
  /\ wk[cl.cur].pc = "recv"
  => Screen = "over" \/ (Screen = "board" /\ CanClick)

(* The board on the screen never goes back in the game it belongs to.      *)
NoRollback ==
  [][cl.has_state /\ cl'.st.sid = cl.st.sid => NotBefore(cl.st, cl'.st)]_vars

(* A click that was sent is answered with a board, unless the connection   *)
(* is given up.                                                            *)
ClicksAnswered == cl.waiting > 0 ~> cl.waiting = 0

(* After any loss of connection, worker or store the GUI gets a game again *)
(* while it runs.  A connection that fails (it is lost, its worker killed, *)
(* or the server full) may cost it another one, and each restart of the    *)
(* server a further one, whose resume is refused; only when these and no   *)
(* others have used up the connections of the instance may it be without.  *)
Recovers ==
  ~cl.connected ~>
    \/ cl.connected \/ ~cl.running
    \/ /\ nconn = MaxConns /\ cl.cur = 0
       /\ Cardinality(Conns \ failed) <= nrestart

=============================================================================
