--------------------------- MODULE Sessions_proofs ---------------------------
(***************************************************************************)
(* Proofs about Sessions, in layers that use the ones before.              *)
(*                                                                         *)
(* For all constants: TInv, the types; PendingInv and LogsInv, the clicks  *)
(* under way and the clicks executed (OnceTheorem); WaitInv, the clicks    *)
(* that wait for a board (TypeCorrect: the counter never goes below zero); *)
(* NamesInv, the sessions that are named.                                  *)
(*                                                                         *)
(* If no two workers are in the same session (OnePerSession): SeenInv, the *)
(* order of the boards on the screen, on their way, in the worker and in   *)
(* the store (SeenIfApart, OnlyTwinsRollBack); HandsInv and ShowInv, each  *)
(* board with its hand (PairIfApart); TurnInv and LatestInv, whose turn it *)
(* is (NotStuckIfApart); AimInv, the hand a click was made on              *)
(* (AimedIfApart).                                                         *)
(***************************************************************************)
EXTENDS Sessions, FiniteSetTheorems, SequenceTheorems, TLAPS

(* The packets of either direction, and the entries of a log.              *)
Cmds     == [op : Kinds, id : 1..MaxCmds, aim : Deals]
Logins   == [op : {"LOGIN_REQ"}]
Resumes  == [op : {"RESUME_REQ"}, sid : Conns]
Reqs     == Cmds \union Logins \union Resumes
Entries  == [op : Kinds, id : 1..MaxCmds, aim : Deals, onto : Deals]
Answers  == [op : {"RESUME_RESP"}, ok : BOOLEAN, sid : 0..MaxConns]
States   == [op : {"STATE"}, st : Games, ack : {0, 1}]
Hands    == [op : {"HAND"}, hand : Deals]
Msgs     == Answers \union States \union Hands

(* A worker that has a session, and every place a worker can be in.        *)
InSession == {"load_hand", "hello", "save_st", "save_hand", "recv", "ai_entry", "ai", "reply"}
Pcs       == {"none", "hs", "done"} \union InSession
WorkRec   == [pc : Pcs, then : {"none", "hello", "recv", "reply", "ai"}, sid : 0..MaxConns,
              st : Games, hand : Deals]
StoreRec  == [valid : BOOLEAN, st : Games, hand : Deals]
ClientRec == [cur : 0..MaxConns, sid : 0..MaxConns, st : Games, hand : Deals,
              has_state : BOOLEAN, has_hand : BOOLEAN, connected : BOOLEAN,
              selected : BOOLEAN, running : BOOLEAN, waiting : Int]

(* The variables have their types.                                         *)
Types ==
  /\ store \in [Conns -> StoreRec] /\ wk \in [Conns -> WorkRec]
  /\ c2s \in [Conns -> Seq(Reqs)] /\ s2c \in [Conns -> Seq(Msgs)]
  /\ up \subseteq Conns /\ cl \in ClientRec /\ pipe \in Seq(Cmds) /\ killed \in BOOLEAN
  /\ nconn \in 0..MaxConns /\ ncmd \in 0..MaxCmds /\ nrestart \in Nat

(* A worker in a session knows which, and goes on somewhere after a save.  *)
WorkerInv ==
  \A w \in Conns :
    /\ wk[w].pc \in InSession => wk[w].sid \in Conns
    /\ wk[w].pc \in {"save_st", "save_hand"} => wk[w].then # "none"

(* The client talks to the last connection it has made, if any.            *)
ConnInv ==
  /\ cl.cur \in {0, nconn} /\ up = {cl.cur} \ {0}
  /\ \A w \in Conns : /\ w > nconn => wk[w].pc = "none" /\ c2s[w] = <<>>
                      /\ w # cl.cur => s2c[w] = <<>>

TInv == Types /\ WorkerInv /\ ConnInv
-----------------------------------------------------------------------------
(* Clicks.                                                                 *)
CmdIds(q)   == {q[i].id : i \in {j \in DOMAIN q : q[j].op \in Kinds}}
Distinct(q) ==
  \A i, j \in DOMAIN q : q[i].op \in Kinds /\ q[j].op \in Kinds /\ q[i].id = q[j].id => i = j

LogIds(log) == {log[i].id : i \in DOMAIN log}
Once(log)   == \A i, j \in DOMAIN log : log[i].id = log[j].id => i = j

(* The clicks under way are different ones, and no game has them yet.      *)
Pending == CmdIds(pipe) \union UNION {CmdIds(c2s[w]) : w \in Conns}
PendingInv ==
  /\ Distinct(pipe) /\ \A w \in Conns : Distinct(c2s[w])
  /\ \A w \in Conns : CmdIds(pipe) \cap CmdIds(c2s[w]) = {}
  /\ \A v, w \in Conns : v # w => CmdIds(c2s[v]) \cap CmdIds(c2s[w]) = {}
  /\ \A id \in Pending : id <= ncmd
LogOk(log) == Once(log) /\ \A id \in LogIds(log) : id <= ncmd /\ id \notin Pending
LogsInv == \A w \in Conns : LogOk(wk[w].st.log) /\ LogOk(store[w].st.log)
-----------------------------------------------------------------------------
(* Facts about games.                                                      *)

(* Deals are numbered.                                                     *)
LEMMA DealFacts ==
  /\ NoHand \in Deals
  /\ \A d \in Deals : d[2] \in Nat
  /\ \A w \in Conns, n \in Nat : <<w, n>> \in Deals
<1>1. NoHand \in Deals BY DEF Deals
<1>2. ASSUME NEW d \in Deals PROVE d[2] \in Nat
  <2>1. CASE d \in Conns \X Nat BY <2>1
  <2>2. CASE d = <<0, 0>> BY <2>2
  <2> QED BY <2>1, <2>2 DEF Deals, NoHand
<1>3. \A w \in Conns, n \in Nat : <<w, n>> \in Deals BY DEF Deals
<1> QED BY <1>1, <1>2, <1>3

(* The fields of a game.                                                   *)
LEMMA GameFields ==
  ASSUME NEW g \in Games
  PROVE  /\ g.sid \in 0..MaxConns /\ g.turn \in {0, 1} /\ g.over \in {0, 1} /\ g.deal \in Deals
         /\ g.log \in Seq(Entries) /\ g.deal[2] \in Nat /\ 1 - g.turn \in {0, 1}
<1>1. /\ g.sid \in 0..MaxConns /\ g.turn \in {0, 1} /\ g.over \in {0, 1} /\ g.deal \in Deals
      /\ g.log \in Seq(Entries)
  BY DEF Games, Entries
<1> QED BY <1>1, DealFacts

(* What Deal does.                                                         *)
LEMMA DealGame ==
  ASSUME NEW w \in Conns, NEW g \in Games
  PROVE  /\ Deal(w, g) \in Games /\ Deal(w, g).sid = g.sid /\ Deal(w, g).log = g.log
         /\ Deal(w, g).turn = g.turn /\ Deal(w, g).over = g.over
         /\ Deal(w, g).deal = <<w, g.deal[2] + 1>> /\ Deal(w, g).deal[2] = g.deal[2] + 1
<1>1. <<w, g.deal[2] + 1>> \in Deals BY GameFields, DealFacts
<1> QED BY <1>1 DEF Deal, Games

(* A new game.                                                             *)
LEMMA NewGameFacts ==
  /\ NoGame \in Games /\ NoGame.log = <<>> /\ NoGame.sid = 0
  /\ \A w \in Conns : /\ NewGame(w) \in Games /\ NewGame(w).sid = w /\ NewGame(w).log = <<>>
                      /\ NewGame(w).turn = 0 /\ NewGame(w).over = 0
<1>1. NoGame \in Games
  <2>1. 0 \in 0..MaxConns BY SessionsAssumption
  <2>2. <<0, 0>> \in Deals BY DealFacts DEF NoHand
  <2>3. <<>> \in Seq([op : Kinds, id : 1..MaxCmds, aim : Deals, onto : Deals]) BY EmptySeq
  <2> QED BY <2>1, <2>2, <2>3 DEF NoGame, Games
<1>2. ASSUME NEW w \in Conns
      PROVE  /\ NewGame(w) \in Games /\ NewGame(w).sid = w /\ NewGame(w).log = <<>>
             /\ NewGame(w).turn = 0 /\ NewGame(w).over = 0
  <2> DEFINE g == [NoGame EXCEPT !.sid = w]
  <2>1. w \in 0..MaxConns BY SessionsAssumption DEF Conns
  <2>2. /\ g \in Games /\ g.sid = w /\ g.log = NoGame.log /\ g.turn = NoGame.turn
        /\ g.over = NoGame.over
    BY <1>1, <2>1 DEF Games
  <2>3. NoGame.log = <<>> /\ NoGame.turn = 0 /\ NoGame.over = 0 BY DEF NoGame
  <2> HIDE DEF g
  <2>4. /\ Deal(w, g) \in Games /\ Deal(w, g).sid = g.sid /\ Deal(w, g).log = g.log
        /\ Deal(w, g).turn = g.turn /\ Deal(w, g).over = g.over
    BY <2>2, DealGame
  <2>5. NewGame(w) = Deal(w, g) BY DEF NewGame, g
  <2> QED BY <2>2, <2>3, <2>4, <2>5
<1>3. NoGame.log = <<>> /\ NoGame.sid = 0 BY DEF NoGame
<1> QED BY <1>1, <1>2, <1>3

(* An executed command.                                                    *)
Entry(hand, m) == [op |-> m.op, id |-> m.id, aim |-> m.aim, onto |-> hand]

(* A click executed on a game: one more entry of the log, the rest as it   *)
(* was.                                                                    *)
LEMMA ExecutedGame ==
  ASSUME NEW g \in Games, NEW hand \in Deals, NEW m \in Cmds
  PROVE  /\ Entry(hand, m) \in Entries
         /\ Executed(g, hand, m) \in Games
         /\ Executed(g, hand, m).log = Append(g.log, Entry(hand, m))
         /\ Executed(g, hand, m).sid = g.sid /\ Executed(g, hand, m).turn = g.turn
         /\ Executed(g, hand, m).over = g.over /\ Executed(g, hand, m).deal = g.deal
<1>1. Entry(hand, m) \in Entries BY DEF Entry, Entries, Cmds
<1>2. Append(g.log, Entry(hand, m)) \in Seq(Entries) BY <1>1, GameFields, AppendProperties
<1>3. Executed(g, hand, m) = [g EXCEPT !.log = Append(g.log, Entry(hand, m))]
  BY DEF Executed, Entry
<1> QED BY <1>1, <1>2, <1>3 DEF Games, Entries

(* The ways a game goes on: b comes after a, with the entry of m at most.  *)
Grown(a, b) ==
  /\ b \in Games /\ b.sid = a.sid /\ a.deal[2] <= b.deal[2] /\ a.over <= b.over

(* A card is played.                                                       *)
LEMMA PlayFacts ==
  ASSUME NEW w \in Conns, NEW a \in Games, NEW hand \in Deals, NEW m \in Cmds, a.over = 0,
         NEW b \in PlayOutcomes(w, a, hand, m)
  PROVE  /\ Grown(a, b) /\ b.deal = a.deal /\ b.turn = a.turn
         /\ b.log = a.log \/ b.log = Append(a.log, Entry(hand, m))
<1> DEFINE e == Executed(a, hand, m)
<1>1. e \in Games /\ e.sid = a.sid /\ e.deal = a.deal /\ e.turn = a.turn
      /\ e.log = Append(a.log, Entry(hand, m))
  BY ExecutedGame
<1>2. b = a \/ \E o \in {0, 1} : b = [e EXCEPT !.over = o] BY DEF PlayOutcomes
<1> HIDE DEF e
<1>3. CASE b = a BY <1>3, GameFields DEF Grown
<1>4. ASSUME NEW o \in {0, 1}, b = [e EXCEPT !.over = o]
      PROVE  /\ Grown(a, b) /\ b.deal = a.deal /\ b.turn = a.turn
             /\ b.log = Append(a.log, Entry(hand, m))
  <2>1. /\ b \in Games /\ b.sid = e.sid /\ b.deal = e.deal /\ b.turn = e.turn /\ b.log = e.log
        /\ b.over = o
    BY <1>1, <1>4 DEF Games
  <2> QED BY <1>1, <2>1, GameFields DEF Grown
<1> QED BY <1>2, <1>3, <1>4

(* A turn ends.                                                            *)
LEMMA EndFacts ==
  ASSUME NEW w \in Conns, NEW a \in Games, NEW b \in EndOutcomes(w, a)
  PROVE  /\ Grown(a, b) /\ b.log = a.log
         /\ \/ b.over = 1 /\ b.turn = a.turn /\ b.deal = a.deal
            \/ b.over = a.over /\ b.turn = 1 - a.turn /\ b.deal = <<w, a.deal[2] + 1>>
<1>0. /\ a.over \in {0, 1} /\ a.deal[2] \in Nat /\ 1 - a.turn \in {0, 1} /\ a.turn \in {0, 1}
  BY GameFields
<1>1. CASE b = [a EXCEPT !.over = 1]
  <2>1. /\ b \in Games /\ b.sid = a.sid /\ b.deal = a.deal /\ b.turn = a.turn /\ b.log = a.log
        /\ b.over = 1
    BY <1>1 DEF Games
  <2> QED BY <1>0, <2>1 DEF Grown
<1>2. CASE b = Deal(w, [a EXCEPT !.turn = 1 - @])
  <2> DEFINE c == [a EXCEPT !.turn = 1 - a.turn]
  <2>1. /\ c \in Games /\ c.sid = a.sid /\ c.deal = a.deal /\ c.turn = 1 - a.turn /\ c.log = a.log
        /\ c.over = a.over
    BY <1>0 DEF Games
  <2> HIDE DEF c
  <2>2. /\ Deal(w, c) \in Games /\ Deal(w, c).sid = c.sid /\ Deal(w, c).log = c.log
        /\ Deal(w, c).turn = c.turn /\ Deal(w, c).over = c.over
        /\ Deal(w, c).deal = <<w, c.deal[2] + 1>> /\ Deal(w, c).deal[2] = c.deal[2] + 1
    BY <2>1, DealGame
  <2>3. b = Deal(w, c) BY <1>2 DEF c
  <2> QED BY <1>0, <2>1, <2>2, <2>3 DEF Grown
<1> QED BY <1>1, <1>2 DEF EndOutcomes

(* The AI's turn.                                                          *)
LEMMA AiFacts ==
  ASSUME NEW w \in Conns, NEW a \in Games, NEW b \in AiOutcomes(w, a)
  PROVE  /\ Grown(a, b) /\ b.log = a.log
         /\ \/ b.over = 1 /\ b.turn = a.turn /\ b.deal = a.deal
            \/ b.over = a.over /\ b.turn = 1 - a.turn /\ b.deal = <<w, a.deal[2] + 1>>
<1>1. b \in EndOutcomes(w, a) BY DEF AiOutcomes, EndOutcomes
<1> QED BY <1>1, EndFacts

(* The messages of a board.                                                *)
LEMMA BoardFacts ==
  ASSUME NEW g \in Games, NEW hand \in Deals, NEW ack \in {0, 1}
  PROVE  /\ Board(g, hand, ack) \in Seq(Msgs) /\ Len(Board(g, hand, ack)) = 2
         /\ Board(g, hand, ack)[1] = [op |-> "STATE", st |-> g, ack |-> ack]
         /\ Board(g, hand, ack)[2] = [op |-> "HAND", hand |-> hand]
<1> DEFINE a == [op |-> "STATE", st |-> g, ack |-> ack]
           b == [op |-> "HAND", hand |-> hand]
<1>1. a \in States /\ b \in Hands BY DEF States, Hands
<1>2. a \in Msgs /\ b \in Msgs BY <1>1 DEF Msgs
<1>3. Board(g, hand, ack) = <<a, b>> BY DEF Board
<1> HIDE DEF a, b
<1>4. <<a, b>> \in Seq(Msgs) /\ Len(<<a, b>>) = 2 /\ <<a, b>>[1] = a /\ <<a, b>>[2] = b BY <1>2
<1> QED BY <1>3, <1>4 DEF a, b
-----------------------------------------------------------------------------
(* The steps of a worker.                                                  *)

(* What kind of message it is.                                             *)
LEMMA MessageKinds ==
  /\ \A m \in Reqs : /\ m.op \in Kinds => m \in Cmds
                     /\ m.op = "RESUME_REQ" => m \in Resumes
  /\ \A m \in Msgs : /\ m.op = "RESUME_RESP" => m \in Answers
                     /\ m.op = "STATE" => m \in States
                     /\ m.op = "HAND" => m \in Hands
<1>1. ASSUME NEW m \in Reqs
      PROVE  (m.op \in Kinds => m \in Cmds) /\ (m.op = "RESUME_REQ" => m \in Resumes)
  BY DEF Reqs, Cmds, Logins, Resumes, Kinds
<1>2. ASSUME NEW m \in Msgs
      PROVE  /\ m.op = "RESUME_RESP" => m \in Answers
             /\ m.op = "STATE" => m \in States
             /\ m.op = "HAND" => m \in Hands
  BY DEF Msgs, Answers, States, Hands
<1> QED BY <1>1, <1>2

(* What TInv says of one connection.                                       *)
LEMMA Here ==
  ASSUME TInv, NEW w \in Conns
  PROVE  /\ wk[w] \in WorkRec /\ store[w] \in StoreRec
         /\ c2s[w] \in Seq(Reqs) /\ s2c[w] \in Seq(Msgs)
         /\ wk[w].pc \in Pcs /\ wk[w].st \in Games /\ wk[w].hand \in Deals
         /\ wk[w].sid \in 0..MaxConns
         /\ wk[w].pc \in InSession => wk[w].sid \in Conns
         /\ wk[w].pc \in {"save_st", "save_hand"} => wk[w].then # "none"
         /\ c2s[w] # <<>> => Head(c2s[w]) \in Reqs /\ Tail(c2s[w]) \in Seq(Reqs)
<1>1. wk[w] \in WorkRec /\ store[w] \in StoreRec BY DEF TInv, Types
<1>2. c2s[w] \in Seq(Reqs) /\ s2c[w] \in Seq(Msgs) BY DEF TInv, Types
<1>3. /\ wk[w].pc \in Pcs /\ wk[w].st \in Games /\ wk[w].hand \in Deals
      /\ wk[w].sid \in 0..MaxConns
  BY <1>1 DEF WorkRec
<1>4. c2s[w] # <<>> => Head(c2s[w]) \in Reqs /\ Tail(c2s[w]) \in Seq(Reqs)
  BY <1>2, HeadTailProperties
<1> QED BY <1>1, <1>2, <1>3, <1>4 DEF TInv, WorkerInv

(* A step that gives the worker w the record x.                            *)
Stays == UNCHANGED <<up, cl, pipe, nconn, ncmd, nrestart>>
Reads(w) == c2s' = c2s \/ (c2s[w] # <<>> /\ c2s' = [c2s EXCEPT ![w] = Tail(c2s[w])])
Writes(w) ==
  \/ s2c' = s2c
  \/ \E msgs \in Seq(Msgs) : w \in up /\ s2c' = [s2c EXCEPT ![w] = s2c[w] \o msgs]

(* A step of the worker w that leaves a well-typed record keeps the types. *)
LEMMA WorkerTypes ==
  ASSUME TInv, NEW w \in Conns, wk[w].pc # "none",
         NEW x \in WorkRec, wk' = [wk EXCEPT ![w] = x],
         x.pc \in InSession => x.sid \in Conns,
         x.pc \in {"save_st", "save_hand"} => x.then # "none",
         store' \in [Conns -> StoreRec], Stays, Reads(w), Writes(w), killed' \in BOOLEAN
  PROVE  TInv'
<1>1. w \in up => w = cl.cur BY DEF TInv, ConnInv
<1>2. w <= nconn
  <2>1. w \in Int /\ nconn \in Int BY DEF Conns, TInv, Types
  <2> QED BY <2>1 DEF TInv, ConnInv
<1>3. /\ c2s' \in [Conns -> Seq(Reqs)] /\ \A v \in Conns : v # w => c2s'[v] = c2s[v]
  <2>1. CASE c2s' = c2s BY <2>1 DEF TInv, Types
  <2>2. CASE c2s[w] # <<>> /\ c2s' = [c2s EXCEPT ![w] = Tail(c2s[w])]
    <3>1. Tail(c2s[w]) \in Seq(Reqs) BY <2>2, Here
    <3> QED BY <2>2, <3>1 DEF TInv, Types
  <2> QED BY <2>1, <2>2 DEF Reads
<1>4. s2c' \in [Conns -> Seq(Msgs)] /\ \A v \in Conns : v # cl.cur => s2c'[v] = s2c[v]
  <2>1. CASE s2c' = s2c BY <2>1 DEF TInv, Types
  <2>2. ASSUME NEW msgs \in Seq(Msgs), w \in up, s2c' = [s2c EXCEPT ![w] = s2c[w] \o msgs]
        PROVE  s2c' \in [Conns -> Seq(Msgs)] /\ \A v \in Conns : v # cl.cur => s2c'[v] = s2c[v]
    <3>1. s2c[w] \o msgs \in Seq(Msgs) BY Here, ConcatProperties
    <3> QED BY <1>1, <2>2, <3>1 DEF TInv, Types
  <2> QED BY <2>1, <2>2 DEF Writes
<1>5. wk' \in [Conns -> WorkRec] /\ wk'[w] = x /\ \A v \in Conns : v # w => wk'[v] = wk[v]
  BY DEF TInv, Types
<1>6. Types' BY <1>3, <1>4, <1>5 DEF TInv, Types, Stays
<1>7. WorkerInv'
  <2>1. ASSUME NEW v \in Conns
        PROVE  /\ wk'[v].pc \in InSession => wk'[v].sid \in Conns
               /\ wk'[v].pc \in {"save_st", "save_hand"} => wk'[v].then # "none"
    <3>1. CASE v = w BY <1>5, <3>1
    <3>2. CASE v # w BY <1>5, <3>2 DEF TInv, WorkerInv
    <3> QED BY <3>1, <3>2
  <2> QED BY <2>1 DEF WorkerInv
<1>8. ConnInv'
  <2>1. cl' = cl /\ up' = up /\ nconn' = nconn BY DEF Stays
  <2>2. ASSUME NEW v \in Conns
        PROVE  /\ v > nconn => wk'[v].pc = "none" /\ c2s'[v] = <<>>
               /\ v # cl.cur => s2c'[v] = <<>>
    <3>1. v > nconn => v # w
      <4>1. w \in Int /\ v \in Int /\ nconn \in Int BY DEF Conns, TInv, Types
      <4> QED BY <1>2, <4>1
    <3> QED BY <1>3, <1>4, <1>5, <3>1, ZenonT(60) DEF TInv, ConnInv
  <2> QED BY <2>1, <2>2 DEF TInv, ConnInv
<1> QED BY <1>6, <1>7, <1>8 DEF TInv

(* proto_send: the worker goes on, or it is dead.                          *)
LEMMA SendFacts ==
  ASSUME TInv, NEW w \in Conns, NEW msgs \in Seq(Msgs), NEW state \in WorkRec, NEW next \in Pcs,
         Send(w, msgs, state, next)
  PROVE  \E p \in {next, "done"} :
           /\ wk' = [wk EXCEPT ![w] = [state EXCEPT !.pc = p]]
           /\ [state EXCEPT !.pc = p] \in WorkRec
           /\ [state EXCEPT !.pc = p].pc = p /\ [state EXCEPT !.pc = p].sid = state.sid
           /\ [state EXCEPT !.pc = p].st = state.st /\ [state EXCEPT !.pc = p].hand = state.hand
           /\ [state EXCEPT !.pc = p].then = state.then
           /\ Writes(w)
           /\ \/ w \in up /\ p = next /\ s2c' = [s2c EXCEPT ![w] = s2c[w] \o msgs]
              \/ w \notin up /\ s2c' = s2c
<1>1. ASSUME NEW p \in {next, "done"}
      PROVE  /\ [state EXCEPT !.pc = p] \in WorkRec
             /\ [state EXCEPT !.pc = p].pc = p /\ [state EXCEPT !.pc = p].sid = state.sid
             /\ [state EXCEPT !.pc = p].st = state.st /\ [state EXCEPT !.pc = p].hand = state.hand
             /\ [state EXCEPT !.pc = p].then = state.then
  <2>1. p \in Pcs BY DEF Pcs
  <2> QED BY <2>1 DEF WorkRec
<1>2. CASE w \in up
  <2>1. /\ s2c' = [s2c EXCEPT ![w] = s2c[w] \o msgs]
        /\ wk' = [wk EXCEPT ![w] = [state EXCEPT !.pc = next]]
    BY <1>2 DEF Send
  <2>2. Writes(w) BY <1>2, <2>1 DEF Writes
  <2> QED BY <1>1, <1>2, <2>1, <2>2
<1>3. CASE w \notin up
  <2>1. PICK p \in {next, "done"} : wk' = [wk EXCEPT ![w] = [state EXCEPT !.pc = p]]
    BY <1>3 DEF Send
  <2>2. s2c' = s2c BY <1>3 DEF Send
  <2>3. Writes(w) BY <2>2 DEF Writes
  <2> QED BY <1>1, <1>3, <2>1, <2>2, <2>3
<1> QED BY <1>2, <1>3

(* A worker saves what it has become, then goes on.                        *)
LEMMA SaveThenFacts ==
  ASSUME TInv, NEW w \in Conns, NEW st \in Games, NEW then \in {"recv", "reply", "ai"},
         SaveThen(w, st, then)
  PROVE  \E x \in WorkRec :
           /\ wk' = [wk EXCEPT ![w] = x] /\ x.pc = "save_st" /\ x.then = then
           /\ x.sid = wk[w].sid /\ x.st = st
           /\ x.hand = IF st.deal = wk[w].st.deal THEN wk[w].hand ELSE st.deal
<1> DEFINE hand == IF st.deal = wk[w].st.deal THEN wk[w].hand ELSE st.deal
           x == [wk[w] EXCEPT !.pc = "save_st", !.then = then, !.st = st, !.hand = hand]
<1>1. hand \in Deals BY Here, GameFields
<1>2. wk' = [wk EXCEPT ![w] = x] BY DEF SaveThen
<1> HIDE DEF hand
<1>3. wk[w] \in WorkRec BY Here
<1>4. /\ x \in WorkRec /\ x.pc = "save_st" /\ x.then = then /\ x.sid = wk[w].sid /\ x.st = st
      /\ x.hand = hand
  BY <1>1, <1>3 DEF WorkRec, Pcs, InSession
<1> HIDE DEF x
<1> QED BY <1>2, <1>4 DEF hand

(* What any step of a worker does to the records and the logs: a log stays *)
(* the same, is emptied by a login, is loaded, or takes in the command     *)
(* that was read.                                                          *)
LogStep(w, x) ==
  \/ x.st.log = wk[w].st.log
  \/ x.st.log = <<>>
  \/ \E s \in Conns : x.st.log = store[s].st.log
  \/ /\ c2s[w] # <<>> /\ Head(c2s[w]) \in Cmds /\ c2s' = [c2s EXCEPT ![w] = Tail(c2s[w])]
     /\ x.st.log = Append(wk[w].st.log, Entry(wk[w].hand, Head(c2s[w])))
StoreStep(w) ==
  /\ store' \in [Conns -> StoreRec]
  /\ \A s \in Conns : store'[s].st.log = store[s].st.log \/ store'[s].st.log = wk[w].st.log
Becomes(w, x) ==
  /\ wk' = [wk EXCEPT ![w] = x]
  /\ x.pc \in InSession => x.sid \in Conns
  /\ x.pc \in {"save_st", "save_hand"} => x.then # "none"
  /\ LogStep(w, x)
Effect(w) ==
  /\ wk[w].pc # "none" /\ Stays /\ Reads(w) /\ Writes(w) /\ killed' \in BOOLEAN
  /\ StoreStep(w)
  /\ \E x \in WorkRec : Becomes(w, x)

(* A store that is not written to.                                         *)
LEMMA StoreKept ==
  ASSUME TInv, NEW w \in Conns, store' = store
  PROVE  StoreStep(w)
BY DEF TInv, Types, StoreStep

(* LOGIN_REQ: the slot becomes valid, the worker has a new game to save.   *)
LEMMA HsLoginEffect ==
  ASSUME TInv, NEW w \in Conns, HsLogin(w)
  PROVE  Effect(w)
<1> DEFINE x == [pc |-> "save_st", then |-> "hello", sid |-> w, st |-> NewGame(w),
                 hand |-> NewGame(w).deal]
<1>1. NewGame(w) \in Games /\ NewGame(w).deal \in Deals /\ NewGame(w).log = <<>>
  BY NewGameFacts, GameFields
<1>2. w \in 0..MaxConns BY SessionsAssumption DEF Conns
<1>3. /\ x \in WorkRec /\ x.pc = "save_st" /\ x.sid = w /\ x.st = NewGame(w) /\ x.then = "hello"
  BY <1>1, <1>2 DEF WorkRec, Pcs, InSession
<1>4. wk' = [wk EXCEPT ![w] = x] BY DEF HsLogin
<1> HIDE DEF x
<1>5. Becomes(w, x) BY <1>1, <1>3, <1>4 DEF Becomes, LogStep
<1>6. StoreStep(w)
  <2>1. store' = [store EXCEPT ![w] = [store[w] EXCEPT !.valid = TRUE]] BY DEF HsLogin
  <2>2. /\ [store[w] EXCEPT !.valid = TRUE] \in StoreRec
        /\ [store[w] EXCEPT !.valid = TRUE].st = store[w].st
    <3>1. store[w] \in StoreRec /\ TRUE \in BOOLEAN BY Here
    <3> QED BY <3>1 DEF StoreRec
  <2>3. store \in [Conns -> StoreRec] BY DEF TInv, Types
  <2> QED BY <2>1, <2>2, <2>3 DEF StoreStep
<1>7. Reads(w) /\ Writes(w) BY DEF HsLogin, Packet, Pop, Reads, Writes
<1>8. wk[w].pc # "none" /\ Stays /\ killed' \in BOOLEAN
  BY DEF HsLogin, Packet, Stays, bounds, TInv, Types
<1> QED BY <1>3, <1>5, <1>6, <1>7, <1>8 DEF Effect

(* RESUME_REQ: the stored game is loaded, or the refusal is sent.          *)
LEMMA HsResumeEffect ==
  ASSUME TInv, NEW w \in Conns, HsResume(w)
  PROVE  Effect(w)
<1> DEFINE sid == Head(c2s[w]).sid
           x == [wk[w] EXCEPT !.pc = "load_hand", !.sid = sid, !.st = store[sid].st]
           no == << [op |-> "RESUME_RESP", ok |-> FALSE, sid |-> 0] >>
<1>1. sid \in Conns
  <2>1. Head(c2s[w]) \in Resumes BY Here, MessageKinds DEF HsResume, Packet
  <2> QED BY <2>1 DEF Resumes
<1>2. Reads(w) /\ wk[w].pc = "hs" /\ Stays /\ killed' \in BOOLEAN /\ store' = store
  BY DEF HsResume, Packet, Pop, Reads, Stays, bounds, TInv, Types
<1>3. StoreStep(w) BY <1>2, StoreKept
<1>4. CASE store[sid].valid
  <2>1. wk' = [wk EXCEPT ![w] = x] /\ s2c' = s2c BY <1>4 DEF HsResume
  <2> HIDE DEF sid
  <2>2. store[sid].st \in Games BY <1>1, Here DEF StoreRec
  <2>3. wk[w] \in WorkRec /\ sid \in 0..MaxConns BY <1>1, Here, SessionsAssumption DEF Conns
  <2>4. x \in WorkRec /\ x.pc = "load_hand" /\ x.sid = sid /\ x.st = store[sid].st
    BY <2>2, <2>3 DEF WorkRec, Pcs, InSession
  <2> HIDE DEF x
  <2>5. Becomes(w, x) BY <1>1, <2>1, <2>4 DEF Becomes, LogStep
  <2> QED BY <1>2, <1>3, <2>1, <2>4, <2>5 DEF Effect, Writes
<1>5. CASE ~store[sid].valid
  <2>1. Send(w, no, wk[w], "hs") BY <1>5 DEF HsResume
  <2>2. no \in Seq(Msgs) 
    <3>1. [op |-> "RESUME_RESP", ok |-> FALSE, sid |-> 0] \in Answers
      BY SessionsAssumption DEF Answers
    <3> QED BY <3>1 DEF Msgs
  <2> HIDE DEF no
  <2>3. "hs" \in Pcs /\ wk[w] \in WorkRec BY Here DEF Pcs
  <2>4. PICK p \in {"hs", "done"} :
           /\ wk' = [wk EXCEPT ![w] = [wk[w] EXCEPT !.pc = p]]
           /\ [wk[w] EXCEPT !.pc = p] \in WorkRec
           /\ [wk[w] EXCEPT !.pc = p].pc = p /\ [wk[w] EXCEPT !.pc = p].st = wk[w].st
           /\ Writes(w)
    BY <2>1, <2>2, <2>3, SendFacts
  <2>5. Becomes(w, [wk[w] EXCEPT !.pc = p]) BY <2>4 DEF Becomes, LogStep, InSession
  <2> QED BY <1>2, <1>3, <2>4, <2>5 DEF Effect
<1> QED BY <1>4, <1>5

(* The second half of ipc_load_session.                                    *)
LEMMA LoadHandEffect ==
  ASSUME TInv, NEW w \in Conns, LoadHand(w)
  PROVE  Effect(w)
<1> DEFINE x == [wk[w] EXCEPT !.pc = "hello", !.hand = store[wk[w].sid].hand]
<1>1. wk[w].sid \in Conns /\ wk[w] \in WorkRec BY Here DEF LoadHand, InSession
<1>2. store[wk[w].sid].hand \in Deals BY <1>1, Here DEF StoreRec
<1>3. wk' = [wk EXCEPT ![w] = x] BY DEF LoadHand
<1>4. x \in WorkRec /\ x.pc = "hello" /\ x.sid = wk[w].sid /\ x.st = wk[w].st
  BY <1>1, <1>2 DEF WorkRec, Pcs, InSession
<1> HIDE DEF x
<1>5. Becomes(w, x) BY <1>1, <1>3, <1>4 DEF Becomes, LogStep
<1>6. StoreStep(w) BY StoreKept DEF LoadHand
<1>7. Reads(w) /\ Writes(w) /\ wk[w].pc # "none" /\ Stays /\ killed' \in BOOLEAN
  BY DEF LoadHand, Reads, Writes, Stays, bounds, netVars, TInv, Types
<1> QED BY <1>4, <1>5, <1>6, <1>7 DEF Effect

(* A packet the handshake ignores.                                         *)
LEMMA HsOtherEffect ==
  ASSUME TInv, NEW w \in Conns, HsOther(w)
  PROVE  Effect(w)
<1>1. wk[w].pc = "hs" /\ c2s[w] # <<>> BY DEF HsOther, Packet
<1>2. wk' = [wk EXCEPT ![w] = wk[w]] BY DEF HsOther, srvVars, TInv, Types
<1>3. Becomes(w, wk[w]) /\ wk[w] \in WorkRec BY <1>1, <1>2, Here DEF Becomes, LogStep, InSession
<1>4. StoreStep(w) BY StoreKept DEF HsOther, srvVars
<1>5. Reads(w) /\ Writes(w) /\ Stays /\ killed' \in BOOLEAN
  BY <1>1 DEF HsOther, Pop, Reads, Writes, Stays, bounds, TInv, Types
<1> QED BY <1>1, <1>3, <1>4, <1>5 DEF Effect

(* A worker that sends, reads no more than a packet, and keeps its state.  *)
LEMMA SendEffect ==
  ASSUME TInv, NEW w \in Conns, wk[w].pc \in InSession, NEW msgs \in Seq(Msgs),
         NEW next \in {"recv", "ai_entry"}, Send(w, msgs, wk[w], next),
         Reads(w), Stays, store' = store, killed' = killed
  PROVE  Effect(w)
<1>1. next \in Pcs /\ wk[w] \in WorkRec /\ wk[w].sid \in Conns BY Here DEF Pcs, InSession
<1>2. PICK p \in {next, "done"} :
           /\ wk' = [wk EXCEPT ![w] = [wk[w] EXCEPT !.pc = p]]
           /\ [wk[w] EXCEPT !.pc = p] \in WorkRec
           /\ [wk[w] EXCEPT !.pc = p].pc = p /\ [wk[w] EXCEPT !.pc = p].sid = wk[w].sid
           /\ [wk[w] EXCEPT !.pc = p].st = wk[w].st
           /\ Writes(w)
  BY <1>1, SendFacts
<1>3. Becomes(w, [wk[w] EXCEPT !.pc = p]) BY <1>1, <1>2 DEF Becomes, LogStep, InSession
<1>4. StoreStep(w) BY StoreKept
<1>5. wk[w].pc # "none" /\ killed' \in BOOLEAN BY DEF InSession, TInv, Types
<1> QED BY <1>2, <1>3, <1>4, <1>5 DEF Effect

(* The answer of the handshake: three packets, or a worker that SIGPIPE    *)
(* ends.                                                                   *)
LEMMA HelloEffect ==
  ASSUME TInv, NEW w \in Conns, Hello(w)
  PROVE  Effect(w)
<1> DEFINE a == [op |-> "RESUME_RESP", ok |-> TRUE, sid |-> wk[w].sid]
           b == Board(wk[w].st, wk[w].hand, 0)
<1>1. wk[w].pc = "hello" /\ Send(w, <<a>> \o b, wk[w], LoopPc(wk[w].st)) BY DEF Hello
<1>2. a \in Msgs /\ b \in Seq(Msgs)
  <2>1. a \in Answers BY Here DEF Answers
  <2> QED BY <2>1, Here, BoardFacts DEF Msgs
<1> HIDE DEF a, b
<1>3. <<a>> \o b \in Seq(Msgs) BY <1>2, ConcatProperties
<1>4. LoopPc(wk[w].st) \in {"recv", "ai_entry"} BY DEF LoopPc
<1>5. Reads(w) /\ Stays /\ store' = store /\ killed' = killed BY DEF Hello, Reads, Stays, bounds
<1> QED BY <1>1, <1>3, <1>4, <1>5, SendEffect DEF InSession

(* A board sent in the main loop.                                          *)
LEMMA BoardEffect ==
  ASSUME TInv, NEW w \in Conns, RecvOver(w) \/ ReplyBoard(w)
  PROVE  Effect(w)
<1> DEFINE b == Board(wk[w].st, wk[w].hand, 1)
<1>1. b \in Seq(Msgs) BY Here, BoardFacts
<1>2. LoopPc(wk[w].st) \in {"recv", "ai_entry"} BY DEF LoopPc
<1>3. PICK next \in {"recv", "ai_entry"} : Send(w, b, wk[w], next)
  BY <1>2 DEF RecvOver, ReplyBoard
<1> HIDE DEF b
<1>4. Reads(w) BY DEF RecvOver, ReplyBoard, Packet, Pop, Reads
<1>5. Stays /\ store' = store /\ killed' = killed BY DEF RecvOver, ReplyBoard, Stays, bounds
<1>6. wk[w].pc \in InSession BY DEF RecvOver, ReplyBoard, Packet, InSession
<1> QED BY <1>1, <1>3, <1>4, <1>5, <1>6, SendEffect

(* The first half of ipc_save_session, or no save at all.                  *)
LEMMA SaveStEffect ==
  ASSUME TInv, NEW w \in Conns, SaveSt(w)
  PROVE  Effect(w)
<1> DEFINE sid == wk[w].sid
           x(pc) == [wk[w] EXCEPT !.pc = pc]
<1>1. wk[w].pc = "save_st" /\ sid \in Conns /\ wk[w] \in WorkRec /\ wk[w].then # "none"
  BY Here DEF SaveSt, InSession
<1>2. Reads(w) /\ Writes(w) /\ Stays /\ killed' \in BOOLEAN
  BY DEF SaveSt, Reads, Writes, Stays, bounds, netVars, TInv, Types
<1>3. ASSUME NEW pc \in {"save_hand", wk[w].then}
      PROVE  /\ x(pc) \in WorkRec /\ x(pc).pc = pc /\ x(pc).sid = sid
             /\ x(pc).st = wk[w].st /\ x(pc).then = wk[w].then
  <2>1. pc \in Pcs BY <1>1 DEF WorkRec, Pcs, InSession
  <2> QED BY <1>1, <2>1 DEF WorkRec
<1> HIDE DEF x
<1>4. ASSUME NEW pc \in {"save_hand", wk[w].then}, wk' = [wk EXCEPT ![w] = x(pc)]
      PROVE  \E y \in WorkRec : Becomes(w, y)
  <2>1. Becomes(w, x(pc)) BY <1>1, <1>3, <1>4 DEF Becomes, LogStep
  <2> QED BY <1>3, <2>1
<1>5. CASE store[sid].valid
  <2>1. wk' = [wk EXCEPT ![w] = x("save_hand")] BY <1>5 DEF SaveSt, x
  <2>2. store' = [store EXCEPT ![sid] = [store[sid] EXCEPT !.st = wk[w].st]]
    BY <1>5 DEF SaveSt
  <2>3. /\ [store[sid] EXCEPT !.st = wk[w].st] \in StoreRec
        /\ [store[sid] EXCEPT !.st = wk[w].st].st = wk[w].st
    <3>1. store[sid] \in StoreRec /\ wk[w].st \in Games BY <1>1, Here
    <3> QED BY <3>1 DEF StoreRec
  <2>4. store \in [Conns -> StoreRec] BY DEF TInv, Types
  <2>5. StoreStep(w) BY <1>1, <2>2, <2>3, <2>4 DEF StoreStep
  <2> QED BY <1>1, <1>2, <1>4, <2>1, <2>5 DEF Effect
<1>6. CASE ~store[sid].valid
  <2>1. wk' = [wk EXCEPT ![w] = x(wk[w].then)] /\ store' = store BY <1>6 DEF SaveSt, x
  <2>2. StoreStep(w) BY <2>1, StoreKept
  <2> QED BY <1>1, <1>2, <1>4, <2>1, <2>2 DEF Effect
<1> QED BY <1>5, <1>6

(* The second half of ipc_save_session.                                    *)
LEMMA SaveHandEffect ==
  ASSUME TInv, NEW w \in Conns, SaveHand(w)
  PROVE  Effect(w)
<1> DEFINE sid == wk[w].sid
           x == [wk[w] EXCEPT !.pc = wk[w].then]
<1>1. wk[w].pc = "save_hand" /\ sid \in Conns /\ wk[w] \in WorkRec /\ wk[w].then # "none"
  BY Here DEF SaveHand, InSession
<1>2. Reads(w) /\ Writes(w) /\ Stays /\ killed' \in BOOLEAN
  BY DEF SaveHand, Reads, Writes, Stays, bounds, netVars, TInv, Types
<1>3. x \in WorkRec /\ x.pc = wk[w].then /\ x.sid = sid /\ x.st = wk[w].st
  BY <1>1 DEF WorkRec, Pcs, InSession
<1>4. wk' = [wk EXCEPT ![w] = x] BY DEF SaveHand
<1> HIDE DEF x
<1>5. wk[w].then \notin {"save_st", "save_hand"} BY <1>1 DEF WorkRec
<1>6. Becomes(w, x) BY <1>1, <1>3, <1>4, <1>5 DEF Becomes, LogStep
<1>7. store' = [store EXCEPT ![sid] = [store[sid] EXCEPT !.hand = wk[w].hand]] BY DEF SaveHand
<1>8. /\ [store[sid] EXCEPT !.hand = wk[w].hand] \in StoreRec
      /\ [store[sid] EXCEPT !.hand = wk[w].hand].st = store[sid].st
  BY <1>1, Here, SMTT(60) DEF StoreRec
<1>9. store \in [Conns -> StoreRec] BY DEF TInv, Types
<1>10. StoreStep(w) BY <1>1, <1>7, <1>8, <1>9 DEF StoreStep
<1> QED BY <1>1, <1>2, <1>3, <1>6, <1>10 DEF Effect

(* A worker whose game goes on, and is about to be saved.                  *)
LEMMA SaveThenEffect ==
  ASSUME TInv, NEW w \in Conns, wk[w].pc \in InSession,
         NEW st \in Games, NEW then \in {"recv", "reply", "ai"}, SaveThen(w, st, then),
         Reads(w), Writes(w), Stays, store' = store, killed' = killed,
         \/ st.log = wk[w].st.log
         \/ /\ c2s[w] # <<>> /\ Head(c2s[w]) \in Cmds
            /\ c2s' = [c2s EXCEPT ![w] = Tail(c2s[w])]
            /\ st.log = Append(wk[w].st.log, Entry(wk[w].hand, Head(c2s[w])))
  PROVE  Effect(w)
<1>1. PICK x \in WorkRec :
           /\ wk' = [wk EXCEPT ![w] = x] /\ x.pc = "save_st" /\ x.then = then
           /\ x.sid = wk[w].sid /\ x.st = st
  BY SaveThenFacts
<1>2. wk[w].sid \in Conns BY Here
<1>3. Becomes(w, x) BY <1>1, <1>2 DEF Becomes, LogStep
<1>4. StoreStep(w) BY StoreKept
<1>5. wk[w].pc # "none" /\ killed' \in BOOLEAN BY DEF InSession, TInv, Types
<1> QED BY <1>1, <1>3, <1>4, <1>5 DEF Effect

(* The AI's turn, at the top of the loop or inside END_TURN.               *)
LEMMA AiEffect ==
  ASSUME TInv, NEW w \in Conns, AiOnEntry(w) \/ AiTurn(w)
  PROVE  Effect(w)
<1>1. PICK st \in AiOutcomes(w, wk[w].st) : SaveThen(w, st, "recv") \/ SaveThen(w, st, "reply")
  BY DEF AiOnEntry, AiTurn
<1>2. st \in Games /\ st.log = wk[w].st.log BY Here, AiFacts DEF Grown
<1>3. Reads(w) /\ Writes(w) /\ Stays /\ store' = store /\ killed' = killed
  BY SMTT(60) DEF AiOnEntry, AiTurn, Reads, Writes, Stays, bounds, netVars
<1>4. wk[w].pc \in InSession BY SMTT(60) DEF AiOnEntry, AiTurn, InSession
<1> QED BY <1>1, <1>2, <1>3, <1>4, SaveThenEffect

(* PLAY_CARD, refused or executed.                                         *)
LEMMA RecvPlayEffect ==
  ASSUME TInv, NEW w \in Conns, RecvPlay(w)
  PROVE  Effect(w)
<1> DEFINE m == Head(c2s[w])
<1>1. PICK st \in PlayOutcomes(w, wk[w].st, wk[w].hand, m) : SaveThen(w, st, "reply")
  BY DEF RecvPlay
<1>2. /\ wk[w].pc = "recv" /\ c2s[w] # <<>> /\ m \in Cmds /\ wk[w].st.over = 0
      /\ c2s' = [c2s EXCEPT ![w] = Tail(c2s[w])]
  BY Here, MessageKinds DEF RecvPlay, Packet, Pop, Kinds
<1>3. st \in Games /\ (st.log = wk[w].st.log \/ st.log = Append(wk[w].st.log, Entry(wk[w].hand, m)))
  BY <1>2, Here, PlayFacts, SMTT(60) DEF Grown
<1>4. Reads(w) /\ Writes(w) /\ Stays /\ store' = store /\ killed' = killed
  BY <1>2, SMTT(60) DEF RecvPlay, Reads, Writes, Stays, bounds
<1> QED BY <1>1, <1>2, <1>3, <1>4, SaveThenEffect DEF InSession

(* END_TURN, up to its first save.                                         *)
LEMMA RecvEndTurnEffect ==
  ASSUME TInv, NEW w \in Conns, RecvEndTurn(w)
  PROVE  Effect(w)
<1> DEFINE m == Head(c2s[w])
           e == Executed(wk[w].st, wk[w].hand, m)
<1>1. PICK st \in EndOutcomes(w, e) : SaveThen(w, st, IF LoopPc(st) = "recv" THEN "reply" ELSE "ai")
  BY DEF RecvEndTurn
<1>2. /\ wk[w].pc = "recv" /\ c2s[w] # <<>> /\ m \in Cmds /\ wk[w].st.over = 0
      /\ c2s' = [c2s EXCEPT ![w] = Tail(c2s[w])]
  BY Here, MessageKinds DEF RecvEndTurn, Packet, Pop, Kinds
<1>3. e \in Games /\ e.log = Append(wk[w].st.log, Entry(wk[w].hand, m))
  BY <1>2, Here, ExecutedGame
<1> HIDE DEF e
<1>4. st \in Games /\ st.log = e.log BY <1>3, EndFacts DEF Grown
<1>5. Reads(w) /\ Writes(w) /\ Stays /\ store' = store /\ killed' = killed
  BY <1>2 DEF RecvEndTurn, Reads, Writes, Stays, bounds
<1> QED BY <1>1, <1>2, <1>3, <1>4, <1>5, SaveThenEffect DEF InSession

(* The worker ends: its connection has, the server is full, or a kill.     *)
LEMMA StopEffect ==
  ASSUME TInv, NEW w \in Conns, WorkerEof(w) \/ HsFull(w) \/ Kill(w)
  PROVE  Effect(w)
<1> DEFINE x == [wk[w] EXCEPT !.pc = "done"]
<1>1. wk[w] \in WorkRec BY Here
<1>2. x \in WorkRec /\ x.pc = "done" /\ x.st = wk[w].st BY <1>1 DEF WorkRec, Pcs
<1>3. wk' = [wk EXCEPT ![w] = x] BY DEF WorkerEof, HsFull, Kill
<1> HIDE DEF x
<1>4. Becomes(w, x) BY <1>2, <1>3 DEF Becomes, LogStep, InSession
<1>5. StoreStep(w) BY StoreKept DEF WorkerEof, HsFull, Kill
<1>6. Reads(w) /\ Writes(w) /\ Stays
  BY DEF WorkerEof, HsFull, Packet, Pop, Kill, Reads, Writes, Stays, bounds, netVars
<1>7. wk[w].pc # "none" /\ killed' \in BOOLEAN BY DEF WorkerEof, HsFull, Packet, Kill, bounds, TInv, Types
<1> QED BY <1>2, <1>4, <1>5, <1>6, <1>7 DEF Effect

(* Every step of a worker is one of these, and keeps the types.            *)
LEMMA WorkerEffect ==
  ASSUME TInv, NEW w \in Conns, WorkerStep(w) \/ Kill(w)
  PROVE  Effect(w) /\ TInv'
<1>1. Effect(w)
  BY HsLoginEffect, HsResumeEffect, LoadHandEffect, HsOtherEffect, HelloEffect, BoardEffect,
     SaveStEffect, SaveHandEffect, AiEffect, RecvPlayEffect, RecvEndTurnEffect, StopEffect
  DEF WorkerStep
<1>2. PICK x \in WorkRec : Becomes(w, x) BY <1>1 DEF Effect
<1>3. /\ wk' = [wk EXCEPT ![w] = x]
      /\ x.pc \in InSession => x.sid \in Conns
      /\ x.pc \in {"save_st", "save_hand"} => x.then # "none"
  BY <1>2 DEF Becomes
<1>4. /\ wk[w].pc # "none" /\ Stays /\ Reads(w) /\ Writes(w) /\ killed' \in BOOLEAN
      /\ store' \in [Conns -> StoreRec]
  BY <1>1 DEF Effect, StoreStep
<1> QED BY <1>1, <1>3, <1>4, WorkerTypes
-----------------------------------------------------------------------------
(* The steps of the client and of the server's main process.               *)

(* What TInv says of the client.                                           *)
LEMMA ClientHere ==
  ASSUME TInv
  PROVE  /\ cl \in ClientRec /\ cl.cur \in 0..MaxConns /\ cl.sid \in 0..MaxConns
         /\ cl.st \in Games /\ cl.hand \in Deals /\ cl.waiting \in Int
         /\ cl.cur # 0 => cl.cur \in Conns /\ cl.cur = nconn /\ up = {cl.cur}
         /\ cl.cur = 0 => up = {}
         /\ cl.sid # 0 => cl.sid \in Conns
         /\ nconn \in 0..MaxConns /\ ncmd \in 0..MaxCmds
         /\ \A w \in Conns : w \in Nat /\ w # 0
<1>1. cl \in ClientRec /\ nconn \in 0..MaxConns /\ ncmd \in 0..MaxCmds BY DEF TInv, Types
<1>2. /\ cl.cur \in 0..MaxConns /\ cl.sid \in 0..MaxConns /\ cl.st \in Games /\ cl.hand \in Deals
      /\ cl.waiting \in Int
  BY <1>1 DEF ClientRec
<1>3. cl.cur \in {0, nconn} /\ up = {cl.cur} \ {0} BY DEF TInv, ConnInv
<1>4. \A n \in 0..MaxConns : n # 0 => n \in Conns BY SessionsAssumption DEF Conns
<1> QED BY <1>1, <1>2, <1>3, <1>4 DEF Conns

(* A step that leaves the workers, the store and the packets alone.        *)
LEMMA ClientTypes ==
  ASSUME TInv, UNCHANGED <<srvVars, netVars>>, nconn' = nconn, killed' \in BOOLEAN,
         nrestart' \in Nat, ncmd' \in 0..MaxCmds, pipe' \in Seq(Cmds),
         cl' \in ClientRec, cl'.cur = cl.cur
  PROVE  TInv'
<1>1. /\ store' = store /\ wk' = wk /\ c2s' = c2s /\ s2c' = s2c /\ up' = up
  BY DEF srvVars, netVars
<1>2. Types' BY <1>1 DEF TInv, Types
<1>3. WorkerInv' BY <1>1 DEF TInv, WorkerInv
<1>4. ConnInv' BY <1>1 DEF TInv, ConnInv
<1> QED BY <1>2, <1>3, <1>4 DEF TInv

(* The types hold at the start.                                            *)
LEMMA InitTypes == Init => TInv
<1> SUFFICES ASSUME Init PROVE TInv OBVIOUS
<1>1. 0 \in 0..MaxConns /\ 0 \in 0..MaxCmds BY SessionsAssumption
<1>2. NoGame \in Games /\ NoHand \in Deals BY NewGameFacts, DealFacts
<1>3. store \in [Conns -> StoreRec] BY <1>2 DEF Init, StoreRec
<1>4. wk \in [Conns -> WorkRec] /\ \A w \in Conns : wk[w].pc = "none"
  <2>1. [pc |-> "none", then |-> "none", sid |-> 0, st |-> NoGame, hand |-> NoHand] \in WorkRec
    BY <1>1, <1>2 DEF WorkRec, Pcs
  <2> QED BY <2>1 DEF Init
<1>5. cl \in ClientRec /\ cl.cur = 0 BY <1>1, <1>2 DEF Init, ClientRec
<1>6. /\ <<>> \in Seq(Reqs) /\ <<>> \in Seq(Msgs) /\ <<>> \in Seq(Cmds) BY EmptySeq
<1>7. /\ c2s = [w \in Conns |-> <<>>] /\ s2c = [w \in Conns |-> <<>>] /\ pipe = <<>> /\ up = {}
      /\ killed = FALSE /\ nconn = 0 /\ ncmd = 0 /\ nrestart = 0
  BY DEF Init
<1>8. Types BY <1>1, <1>3, <1>4, <1>5, <1>6, <1>7 DEF Types
<1>9. WorkerInv BY <1>4 DEF WorkerInv, InSession
<1>10. ConnInv BY <1>4, <1>5, <1>7 DEF ConnInv
<1> QED BY <1>8, <1>9, <1>10 DEF TInv

(* A new server process zeroes the store: the records keep their types.    *)
LEMMA RestartTypes ==
  ASSUME TInv, Restart
  PROVE  TInv'
<1>1. /\ wk' = wk /\ c2s' = c2s /\ s2c' = s2c /\ up' = up /\ cl' = cl /\ pipe' = pipe
      /\ killed' = killed /\ nconn' = nconn /\ ncmd' = ncmd /\ nrestart' = nrestart + 1
      /\ store' = [s \in Conns |-> [valid |-> FALSE, st |-> NoGame, hand |-> NoHand]]
  BY DEF Restart, netVars
<1>2. store' \in [Conns -> StoreRec]
  <2>1. NoGame \in Games /\ NoHand \in Deals BY NewGameFacts, DealFacts
  <2> QED BY <1>1, <2>1 DEF StoreRec
<1>3. nrestart' \in Nat BY <1>1 DEF TInv, Types
<1>4. Types'
  <2>1. wk' \in [Conns -> WorkRec] /\ c2s' \in [Conns -> Seq(Reqs)] /\ s2c' \in [Conns -> Seq(Msgs)]
    BY <1>1 DEF TInv, Types
  <2>2. /\ up' \subseteq Conns /\ cl' \in ClientRec /\ pipe' \in Seq(Cmds) /\ killed' \in BOOLEAN
        /\ nconn' \in 0..MaxConns /\ ncmd' \in 0..MaxCmds
    BY <1>1 DEF TInv, Types
  <2> QED BY <1>2, <1>3, <2>1, <2>2 DEF Types
<1>5. WorkerInv' BY <1>1 DEF TInv, WorkerInv
<1>6. ConnInv' BY <1>1 DEF TInv, ConnInv
<1> QED BY <1>4, <1>5, <1>6 DEF TInv

(* What Connect does.                                                      *)
Asks == IF cl.sid # 0 THEN [op |-> "RESUME_REQ", sid |-> cl.sid] ELSE [op |-> "LOGIN_REQ"]

(* A connection: the number is the next one, its worker was not used       *)
(* before.                                                                 *)
LEMMA ConnectFacts ==
  ASSUME TInv, Connect
  PROVE  /\ nconn + 1 \in Conns /\ cl.cur = 0 /\ nconn' = nconn + 1 /\ up' = {nconn + 1}
         /\ wk' = [wk EXCEPT ![nconn + 1] = [wk[nconn + 1] EXCEPT !.pc = "hs"]]
         /\ wk[nconn + 1].pc = "none"
         /\ Asks \in Reqs /\ Asks.op \notin Kinds
         /\ c2s' = [c2s EXCEPT ![nconn + 1] = <<Asks>>]
         /\ cl' = [cl EXCEPT !.cur = nconn + 1]
         /\ UNCHANGED <<store, s2c, pipe, killed, ncmd, nrestart>>
<1>1. cl.cur = 0 /\ nconn < MaxConns BY DEF Connect
<1>2. nconn + 1 \in Conns /\ up = {} /\ nconn + 1 > nconn
  BY <1>1, ClientHere, SessionsAssumption DEF Conns
<1>3. wk[nconn + 1].pc = "none" BY <1>2 DEF TInv, ConnInv
<1>4. Asks \in Reqs /\ Asks.op \notin Kinds
  BY ClientHere DEF Asks, Reqs, Resumes, Logins, Kinds
<1>5. /\ nconn' = nconn + 1 /\ up' = up \union {nconn + 1} /\ Fork(nconn + 1)
      /\ c2s' = [c2s EXCEPT ![nconn + 1] = <<Asks>>] /\ cl' = [cl EXCEPT !.cur = nconn + 1]
      /\ UNCHANGED <<store, s2c, pipe, killed, ncmd, nrestart>>
  BY DEF Connect, Asks
<1> QED BY <1>1, <1>2, <1>3, <1>4, <1>5 DEF Fork

(* Connecting keeps the types.                                             *)
LEMMA ConnectTypes ==
  ASSUME TInv, Connect
  PROVE  TInv'
<1> DEFINE w == nconn + 1
           x == [wk[w] EXCEPT !.pc = "hs"]
<1>1. /\ w \in Conns /\ cl.cur = 0 /\ nconn' = w /\ up' = {w}
      /\ wk' = [wk EXCEPT ![w] = x] /\ Asks \in Reqs
      /\ c2s' = [c2s EXCEPT ![w] = <<Asks>>] /\ cl' = [cl EXCEPT !.cur = w]
      /\ UNCHANGED <<store, s2c, pipe, killed, ncmd, nrestart>>
  BY ConnectFacts
<1>2. w \in 0..MaxConns /\ w # 0 /\ w > nconn BY <1>1, ClientHere DEF Conns
<1>3. cl' \in ClientRec /\ cl'.cur = w BY <1>1, <1>2, ClientHere DEF ClientRec
<1>4. \A v \in Conns : v > w => v > nconn /\ v # w BY <1>2, ClientHere
<1> HIDE DEF w
<1>5. wk[w] \in WorkRec BY <1>1, Here
<1>6. x \in WorkRec /\ x.pc = "hs" BY <1>5 DEF WorkRec, Pcs
<1> HIDE DEF x
<1>7. <<Asks>> \in Seq(Reqs) BY <1>1
<1>8. Types' BY <1>1, <1>2, <1>3, <1>6, <1>7 DEF TInv, Types
<1>9. WorkerInv'
  <2>1. ASSUME NEW v \in Conns
        PROVE  /\ wk'[v].pc \in InSession => wk'[v].sid \in Conns
               /\ wk'[v].pc \in {"save_st", "save_hand"} => wk'[v].then # "none"
    <3>1. wk'[v] = IF v = w THEN x ELSE wk[v] BY <1>1 DEF TInv, Types
    <3>2. CASE v = w BY <1>6, <3>1, <3>2 DEF InSession
    <3>3. CASE v # w BY <3>1, <3>3 DEF TInv, WorkerInv
    <3> QED BY <3>2, <3>3
  <2> QED BY <2>1 DEF WorkerInv
<1>10. ConnInv'
  <2>1. ASSUME NEW v \in Conns
        PROVE  /\ v > w => wk'[v].pc = "none" /\ c2s'[v] = <<>>
               /\ v # w => s2c'[v] = <<>>
    <3>1. v # w => wk'[v] = wk[v] /\ c2s'[v] = c2s[v] BY <1>1 DEF TInv, Types
    <3>2. s2c'[v] = <<>> BY <1>1, ClientHere DEF TInv, ConnInv
    <3> QED BY <1>4, <3>1, <3>2 DEF TInv, ConnInv
  <2> QED BY <1>1, <1>2, <1>3, <2>1 DEF ConnInv
<1> QED BY <1>8, <1>9, <1>10 DEF TInv

(* What Close does, with the rest of the client as in c.                   *)
LEMMA CloseFacts ==
  ASSUME TInv, NEW c \in ClientRec, cl.cur # 0, Close(c)
  PROVE  /\ up' = {} /\ s2c' = [s2c EXCEPT ![cl.cur] = <<>>]
         /\ \E n \in 0..Len(c2s[cl.cur]) :
              c2s' = [c2s EXCEPT ![cl.cur] = SubSeq(c2s[cl.cur], 1, n)]
         /\ cl' \in ClientRec /\ cl'.cur = 0 /\ cl'.connected = FALSE /\ cl'.waiting = 0
         /\ cl'.st = c.st /\ cl'.has_state = c.has_state /\ cl'.hand = c.hand
         /\ cl'.has_hand = c.has_hand /\ cl'.sid = c.sid
<1>1. up = {cl.cur} BY ClientHere
<1>2. 0 \in 0..MaxConns /\ FALSE \in BOOLEAN BY SessionsAssumption
<1>3. cl' = [c EXCEPT !.cur = 0, !.connected = FALSE, !.waiting = 0] BY DEF Close
<1>4. /\ cl'.cur = 0 /\ cl'.connected = FALSE /\ cl'.waiting = 0
      /\ cl'.st = c.st /\ cl'.has_state = c.has_state /\ cl'.hand = c.hand
      /\ cl'.has_hand = c.has_hand /\ cl'.sid = c.sid
  BY <1>3 DEF ClientRec
<1>5. cl' \in ClientRec
  <2> DEFINE a == [c EXCEPT !.cur = 0]
             b == [a EXCEPT !.connected = FALSE]
  <2>1. a \in ClientRec BY <1>2 DEF ClientRec
  <2> HIDE DEF a
  <2>2. b \in ClientRec BY <1>2, <2>1 DEF ClientRec
  <2> HIDE DEF b
  <2>3. 0 \in Int /\ [b EXCEPT !.waiting = 0] \in ClientRec BY <2>2 DEF ClientRec
  <2> QED BY <1>3, <2>3 DEF a, b
<1> QED BY <1>1, <1>4, <1>5 DEF Close

(* Closing the connection keeps the types, whatever is lost with it.       *)
LEMMA CloseTypes ==
  ASSUME TInv, NEW c \in ClientRec, cl.cur # 0, Close(c), UNCHANGED <<srvVars, bounds>>,
         pipe' \in Seq(Cmds)
  PROVE  TInv'
<1>1. /\ up' = {} /\ s2c' = [s2c EXCEPT ![cl.cur] = <<>>] /\ cl' \in ClientRec /\ cl'.cur = 0
  BY CloseFacts
<1>2. PICK n \in 0..Len(c2s[cl.cur]) : c2s' = [c2s EXCEPT ![cl.cur] = SubSeq(c2s[cl.cur], 1, n)]
  BY CloseFacts
<1>3. cl.cur \in Conns /\ cl.cur = nconn BY ClientHere
<1>4. SubSeq(c2s[cl.cur], 1, n) \in Seq(Reqs)
  <2>1. c2s[cl.cur] \in Seq(Reqs) /\ Len(c2s[cl.cur]) \in Nat BY <1>3, Here, LenProperties
  <2>2. \A i \in 1..n : i \in 1..Len(c2s[cl.cur]) BY <2>1
  <2>3. \A i \in 1..n : c2s[cl.cur][i] \in Reqs BY <2>1, <2>2, ElementOfSeq
  <2> QED BY <2>1, <2>3, SubSeqProperties
<1>5. <<>> \in Seq(Msgs) BY EmptySeq
<1>6. /\ store' = store /\ wk' = wk /\ killed' = killed /\ nconn' = nconn /\ ncmd' = ncmd
      /\ nrestart' = nrestart
  BY DEF srvVars, bounds
<1>7. Types' BY <1>1, <1>2, <1>3, <1>4, <1>5, <1>6 DEF TInv, Types
<1>8. WorkerInv' BY <1>6 DEF TInv, WorkerInv
<1>9. ConnInv'
  <2>1. ASSUME NEW v \in Conns
        PROVE  /\ v > nconn => wk'[v].pc = "none" /\ c2s'[v] = <<>>
               /\ s2c'[v] = <<>>
    <3>1. v > nconn => v # cl.cur BY <1>3, ClientHere
    <3>2. v # cl.cur => s2c'[v] = s2c[v] /\ c2s'[v] = c2s[v] BY <1>1, <1>2 DEF TInv, Types
    <3>3. v = cl.cur => s2c'[v] = <<>> BY <1>1 DEF TInv, Types
    <3> QED BY <1>6, <3>1, <3>2, <3>3 DEF TInv, ConnInv
  <2> QED BY <1>1, <1>6, <2>1 DEF ConnInv
<1> QED BY <1>7, <1>8, <1>9 DEF TInv

(* What reading one packet does.                                           *)
LEMMA TakenTypes ==
  ASSUME TInv, cl.cur # 0, s2c[cl.cur] # <<>>, Taken, UNCHANGED <<srvVars, c2s, up, pipe, bounds>>,
         cl' \in ClientRec, cl'.cur = cl.cur
  PROVE  TInv'
<1>1. cl.cur \in Conns BY ClientHere
<1>2. Tail(s2c[cl.cur]) \in Seq(Msgs)
  <2>1. s2c[cl.cur] \in Seq(Msgs) BY <1>1, Here
  <2> QED BY <2>1, HeadTailProperties
<1>3. s2c' = [s2c EXCEPT ![cl.cur] = Tail(s2c[cl.cur])] BY DEF Taken
<1>4. /\ store' = store /\ wk' = wk /\ killed' = killed /\ nconn' = nconn /\ ncmd' = ncmd
      /\ nrestart' = nrestart /\ c2s' = c2s /\ up' = up /\ pipe' = pipe
  BY DEF srvVars, bounds
<1>5. Types' BY <1>1, <1>2, <1>3, <1>4 DEF TInv, Types
<1>6. WorkerInv' BY <1>4 DEF TInv, WorkerInv
<1>7. ConnInv'
  <2>1. \A v \in Conns : v # cl.cur => s2c'[v] = s2c[v] BY <1>3 DEF TInv, Types
  <2> QED BY <1>4, <2>1 DEF TInv, ConnInv
<1> QED BY <1>5, <1>6, <1>7 DEF TInv

(* The packet at the head.                                                 *)
LEMMA IncomingFacts ==
  ASSUME TInv, NEW op, Incoming(op)
  PROVE  /\ cl.cur # 0 /\ cl.cur \in Conns /\ s2c[cl.cur] # <<>> /\ s2c[cl.cur] \in Seq(Msgs)
         /\ Head(s2c[cl.cur]) \in Msgs /\ Head(s2c[cl.cur]).op = op
<1>1. cl.cur # 0 /\ s2c[cl.cur] # <<>> /\ Head(s2c[cl.cur]).op = op BY DEF Incoming
<1>2. cl.cur \in Conns /\ s2c[cl.cur] \in Seq(Msgs) BY <1>1, ClientHere, Here
<1> QED BY <1>1, <1>2, HeadTailProperties

(* The answer to a resume keeps the types, also when it closes the         *)
(* connection.                                                             *)
LEMMA ResumeRespTypes ==
  ASSUME TInv, OnResumeResp
  PROVE  TInv'
<1> DEFINE m == Head(s2c[cl.cur])
<1>1. /\ cl.cur # 0 /\ s2c[cl.cur] # <<>> /\ m \in Answers
  BY IncomingFacts, MessageKinds DEF OnResumeResp
<1>2. m.ok \in BOOLEAN /\ m.sid \in 0..MaxConns BY <1>1 DEF Answers
<1>3. UNCHANGED <<srvVars, pipe, bounds>> BY DEF OnResumeResp
<1>4. CASE m.ok
  <2>1. Taken /\ cl' = [cl EXCEPT !.sid = m.sid] /\ UNCHANGED <<c2s, up>>
    BY <1>4 DEF OnResumeResp
  <2> HIDE DEF m
  <2>2. cl' \in ClientRec /\ cl'.cur = cl.cur BY <1>2, <2>1, ClientHere DEF ClientRec
  <2> QED BY <1>1, <1>3, <2>1, <2>2, TakenTypes
<1>5. CASE ~m.ok
  <2>1. Close([cl EXCEPT !.sid = 0]) BY <1>5 DEF OnResumeResp
  <2>2. [cl EXCEPT !.sid = 0] \in ClientRec BY ClientHere, SessionsAssumption DEF ClientRec
  <2>3. pipe' \in Seq(Cmds) BY <1>3 DEF TInv, Types
  <2> QED BY <1>1, <1>3, <2>1, <2>2, <2>3, CloseTypes
<1> QED BY <1>4, <1>5

(* What a STATE and a HAND do to the client.                               *)
LEMMA OnStateFacts ==
  ASSUME TInv, OnState
  PROVE  LET m == Head(s2c[cl.cur]) IN
         /\ m \in States /\ m.st \in Games /\ m.ack \in {0, 1}
         /\ cl' \in ClientRec /\ cl'.cur = cl.cur /\ cl'.sid = cl.sid /\ cl'.st = m.st
         /\ cl'.has_state = TRUE /\ cl'.connected = TRUE /\ cl'.waiting = cl.waiting - m.ack
         /\ cl'.hand = cl.hand /\ cl'.has_hand = cl.has_hand
<1> DEFINE m == Head(s2c[cl.cur])
<1>1. m \in States BY IncomingFacts, MessageKinds DEF OnState
<1>2. m.st \in Games /\ m.ack \in {0, 1} BY <1>1 DEF States
<1>3. cl' = [cl EXCEPT !.st = m.st, !.has_state = TRUE, !.connected = TRUE,
                       !.waiting = cl.waiting - m.ack]
  BY DEF OnState
<1> HIDE DEF m
<1>4. cl.waiting - m.ack \in Int /\ TRUE \in BOOLEAN BY <1>2, ClientHere
<1>5. /\ cl' \in ClientRec /\ cl'.cur = cl.cur /\ cl'.sid = cl.sid /\ cl'.st = m.st
      /\ cl'.has_state = TRUE /\ cl'.connected = TRUE /\ cl'.waiting = cl.waiting - m.ack
      /\ cl'.hand = cl.hand /\ cl'.has_hand = cl.has_hand
  BY <1>2, <1>3, <1>4, ClientHere DEF ClientRec
<1> QED BY <1>1, <1>2, <1>5 DEF m

(* A HAND changes the hand on the screen and nothing else of the client.   *)
LEMMA OnHandFacts ==
  ASSUME TInv, OnHand
  PROVE  LET m == Head(s2c[cl.cur]) IN
         /\ m \in Hands /\ m.hand \in Deals
         /\ cl' \in ClientRec /\ cl'.cur = cl.cur /\ cl'.sid = cl.sid /\ cl'.st = cl.st
         /\ cl'.has_state = cl.has_state /\ cl'.connected = cl.connected
         /\ cl'.waiting = cl.waiting /\ cl'.hand = m.hand /\ cl'.has_hand = TRUE
<1> DEFINE m == Head(s2c[cl.cur])
<1>1. m \in Hands BY IncomingFacts, MessageKinds DEF OnHand
<1>2. m.hand \in Deals /\ TRUE \in BOOLEAN BY <1>1 DEF Hands
<1>3. cl' = [cl EXCEPT !.hand = m.hand, !.has_hand = TRUE] BY DEF OnHand
<1> HIDE DEF m
<1>4. /\ cl' \in ClientRec /\ cl'.cur = cl.cur /\ cl'.sid = cl.sid /\ cl'.st = cl.st
      /\ cl'.has_state = cl.has_state /\ cl'.connected = cl.connected
      /\ cl'.waiting = cl.waiting /\ cl'.hand = m.hand /\ cl'.has_hand = TRUE
  BY <1>2, <1>3, ClientHere DEF ClientRec
<1> QED BY <1>1, <1>2, <1>4 DEF m

(* Receiving a board or a hand keeps the types.                            *)
LEMMA BoardTypes ==
  ASSUME TInv, OnState \/ OnHand
  PROVE  TInv'
<1>1. cl' \in ClientRec /\ cl'.cur = cl.cur BY OnStateFacts, OnHandFacts
<1>2. cl.cur # 0 /\ s2c[cl.cur] # <<>> BY DEF OnState, OnHand, Incoming
<1>3. Taken /\ UNCHANGED <<srvVars, c2s, up, pipe, bounds>> BY DEF OnState, OnHand
<1> QED BY <1>1, <1>2, <1>3, TakenTypes

(* What a click does.                                                      *)
LEMMA CommandFacts ==
  ASSUME TInv, NEW op \in Kinds, Command(op)
  PROVE  /\ cl' \in ClientRec /\ cl'.cur = cl.cur /\ cl'.sid = cl.sid /\ cl'.st = cl.st
         /\ cl'.has_state = cl.has_state /\ cl'.has_hand = cl.has_hand
         /\ cl'.connected = cl.connected /\ cl'.waiting = cl.waiting /\ cl'.hand = cl.hand
         /\ ncmd' = ncmd + 1 /\ ncmd' \in 0..MaxCmds
         /\ [op |-> op, id |-> ncmd + 1, aim |-> cl.hand] \in Cmds
         /\ pipe' = Append(pipe, [op |-> op, id |-> ncmd + 1, aim |-> cl.hand])
         /\ UNCHANGED <<srvVars, netVars, killed, nconn, nrestart>>
<1>1. ncmd < MaxCmds /\ ncmd' = ncmd + 1 /\ cl' = [cl EXCEPT !.selected = FALSE] BY DEF Command
<1>2. ncmd' \in 0..MaxCmds /\ ncmd + 1 \in 1..MaxCmds BY <1>1, ClientHere, SessionsAssumption
<1>3. [op |-> op, id |-> ncmd + 1, aim |-> cl.hand] \in Cmds BY <1>2, ClientHere DEF Cmds
<1>4. FALSE \in BOOLEAN OBVIOUS
<1>5. /\ cl' \in ClientRec /\ cl'.cur = cl.cur /\ cl'.sid = cl.sid /\ cl'.st = cl.st
      /\ cl'.has_state = cl.has_state /\ cl'.has_hand = cl.has_hand
      /\ cl'.connected = cl.connected /\ cl'.waiting = cl.waiting /\ cl'.hand = cl.hand
  BY <1>1, <1>4, ClientHere DEF ClientRec
<1> QED BY <1>1, <1>2, <1>3, <1>5 DEF Command

(* A press of the mouse keeps the types.                                   *)
LEMMA PressTypes ==
  ASSUME TInv, PressEndTurn \/ PressSelected \/ \E sel \in BOOLEAN : PressOther(sel)
  PROVE  TInv'
<1>1. ASSUME NEW op \in Kinds, Command(op) PROVE TInv'
  <2>1. /\ cl' \in ClientRec /\ cl'.cur = cl.cur /\ ncmd' \in 0..MaxCmds
        /\ [op |-> op, id |-> ncmd + 1, aim |-> cl.hand] \in Cmds
        /\ pipe' = Append(pipe, [op |-> op, id |-> ncmd + 1, aim |-> cl.hand])
        /\ UNCHANGED <<srvVars, netVars, killed, nconn, nrestart>>
    BY <1>1, CommandFacts
  <2>2. pipe' \in Seq(Cmds) BY <2>1, AppendProperties DEF TInv, Types
  <2>3. killed' \in BOOLEAN /\ nrestart' \in Nat /\ nconn' = nconn BY <2>1 DEF TInv, Types
  <2> QED BY <2>1, <2>2, <2>3, ClientTypes
<1>2. ASSUME NEW sel \in BOOLEAN, PressOther(sel) PROVE TInv'
  <2>1. cl' = [cl EXCEPT !.selected = sel] BY <1>2 DEF PressOther
  <2>2. cl' \in ClientRec /\ cl'.cur = cl.cur BY <2>1, ClientHere DEF ClientRec
  <2>3. /\ UNCHANGED <<srvVars, netVars>> /\ killed' \in BOOLEAN /\ nrestart' \in Nat
        /\ nconn' = nconn /\ ncmd' \in 0..MaxCmds /\ pipe' \in Seq(Cmds)
    BY <1>2 DEF PressOther, bounds, TInv, Types
  <2> QED BY <2>2, <2>3, ClientTypes
<1>3. "END_TURN" \in Kinds /\ "PLAY_CARD" \in Kinds BY DEF Kinds
<1> QED BY <1>1, <1>2, <1>3 DEF PressEndTurn, PressSelected

(* A connection that is lost, or ended by the worker, keeps the types.     *)
LEMMA LostTypes ==
  ASSUME TInv, ConnLost \/ ClientEof
  PROVE  TInv'
<1>1. cl.cur # 0 /\ Close(cl) /\ UNCHANGED <<srvVars, pipe, bounds>> BY DEF ConnLost, ClientEof
<1>2. cl \in ClientRec /\ pipe' \in Seq(Cmds) BY <1>1, ClientHere DEF TInv, Types
<1> QED BY <1>1, <1>2, CloseTypes

(* What the end of the GUI does.                                           *)
LEMMA GuiEndsFacts ==
  ASSUME TInv, GuiEnds
  PROVE  /\ [cl EXCEPT !.running = FALSE] \in ClientRec
         /\ [cl EXCEPT !.running = FALSE].cur = cl.cur
         /\ [cl EXCEPT !.running = FALSE].sid = cl.sid
         /\ [cl EXCEPT !.running = FALSE].st = cl.st
         /\ [cl EXCEPT !.running = FALSE].hand = cl.hand
         /\ [cl EXCEPT !.running = FALSE].waiting = cl.waiting
         /\ [cl EXCEPT !.running = FALSE].connected = cl.connected
         /\ [cl EXCEPT !.running = FALSE].has_state = cl.has_state
         /\ [cl EXCEPT !.running = FALSE].has_hand = cl.has_hand
         /\ pipe' = <<>> /\ UNCHANGED <<srvVars, bounds>>
<1>1. FALSE \in BOOLEAN OBVIOUS
<1> QED BY <1>1, ClientHere DEF ClientRec, GuiEnds

(* The end of the GUI keeps the types.                                     *)
LEMMA GuiEndsTypes ==
  ASSUME TInv, GuiEnds
  PROVE  TInv'
<1> DEFINE c == [cl EXCEPT !.running = FALSE]
<1>1. /\ c \in ClientRec /\ c.cur = cl.cur /\ pipe' = <<>> /\ UNCHANGED <<srvVars, bounds>>
  BY GuiEndsFacts
<1>2. pipe' \in Seq(Cmds) BY <1>1, EmptySeq
<1>3. CASE cl.cur # 0
  <2>1. Close(c) BY <1>3 DEF GuiEnds
  <2> HIDE DEF c
  <2> QED BY <1>1, <1>2, <1>3, <2>1, CloseTypes
<1>4. CASE cl.cur = 0
  <2>1. cl' = c /\ UNCHANGED netVars BY <1>4 DEF GuiEnds
  <2> HIDE DEF c
  <2>2. /\ nconn' = nconn /\ killed' \in BOOLEAN /\ nrestart' \in Nat /\ ncmd' \in 0..MaxCmds
    BY <1>1 DEF bounds, TInv, Types
  <2> QED BY <1>1, <1>2, <2>1, <2>2, ClientTypes
<1> QED BY <1>3, <1>4

(* What net_thread does with a click.                                      *)
LEMMA NetSendFacts ==
  ASSUME TInv, NetSend
  PROVE  /\ cl.cur # 0 /\ cl.cur \in Conns /\ pipe # <<>> /\ pipe \in Seq(Cmds)
         /\ Head(pipe) \in Cmds /\ Tail(pipe) \in Seq(Cmds) /\ pipe' = Tail(pipe)
         /\ \/ wk[cl.cur].pc = "done" /\ c2s' = c2s
            \/ wk[cl.cur].pc # "done" /\ c2s' = [c2s EXCEPT ![cl.cur] = Append(c2s[cl.cur], Head(pipe))]
         /\ c2s[cl.cur] \in Seq(Reqs) /\ Head(pipe) \in Reqs
         /\ cl' \in ClientRec /\ cl'.cur = cl.cur /\ cl'.sid = cl.sid /\ cl'.st = cl.st
         /\ cl'.has_state = cl.has_state /\ cl'.has_hand = cl.has_hand
         /\ cl'.connected = cl.connected /\ cl'.waiting = cl.waiting + 1 /\ cl'.hand = cl.hand
         /\ UNCHANGED <<srvVars, s2c, up, bounds>>
<1>1. cl.cur # 0 /\ pipe # <<>> /\ pipe' = Tail(pipe) BY DEF NetSend
<1>2. cl.cur \in Conns /\ c2s[cl.cur] \in Seq(Reqs) BY <1>1, ClientHere, Here
<1>3. pipe \in Seq(Cmds) BY DEF TInv, Types
<1>4. Head(pipe) \in Cmds /\ Tail(pipe) \in Seq(Cmds) BY <1>1, <1>3, HeadTailProperties
<1>5. cl' = [cl EXCEPT !.waiting = cl.waiting + 1] /\ cl.waiting + 1 \in Int
  BY ClientHere DEF NetSend
<1>6. /\ cl' \in ClientRec /\ cl'.cur = cl.cur /\ cl'.sid = cl.sid /\ cl'.st = cl.st
      /\ cl'.has_state = cl.has_state /\ cl'.has_hand = cl.has_hand
      /\ cl'.connected = cl.connected /\ cl'.waiting = cl.waiting + 1 /\ cl'.hand = cl.hand
  BY <1>5, ClientHere DEF ClientRec
<1>7. \/ wk[cl.cur].pc = "done" /\ c2s' = c2s
      \/ wk[cl.cur].pc # "done" /\ c2s' = [c2s EXCEPT ![cl.cur] = Append(c2s[cl.cur], Head(pipe))]
  BY DEF NetSend
<1>8. UNCHANGED <<srvVars, s2c, up, bounds>> BY DEF NetSend
<1> QED BY <1>1, <1>2, <1>3, <1>4, <1>6, <1>7, <1>8 DEF Reqs

(* Forwarding a click keeps the types.                                     *)
LEMMA NetSendTypes ==
  ASSUME TInv, NetSend
  PROVE  TInv'
<1>1. /\ cl.cur # 0 /\ cl.cur \in Conns /\ Tail(pipe) \in Seq(Cmds) /\ pipe' = Tail(pipe)
      /\ cl' \in ClientRec /\ cl'.cur = cl.cur /\ Head(pipe) \in Reqs
      /\ c2s[cl.cur] \in Seq(Reqs)
      /\ UNCHANGED <<srvVars, s2c, up, bounds>>
  BY NetSendFacts
<1>2. /\ store' = store /\ wk' = wk /\ s2c' = s2c /\ up' = up /\ killed' = killed
      /\ nconn' = nconn /\ ncmd' = ncmd /\ nrestart' = nrestart
  BY <1>1 DEF srvVars, bounds
<1>3. c2s' \in [Conns -> Seq(Reqs)] /\ \A v \in Conns : v # cl.cur => c2s'[v] = c2s[v]
  <2>1. CASE c2s' = c2s BY <2>1 DEF TInv, Types
  <2>2. CASE c2s' = [c2s EXCEPT ![cl.cur] = Append(c2s[cl.cur], Head(pipe))]
    <3>1. Append(c2s[cl.cur], Head(pipe)) \in Seq(Reqs) BY <1>1, AppendProperties
    <3> QED BY <1>1, <2>2, <3>1 DEF TInv, Types
  <2> QED BY <2>1, <2>2, NetSendFacts
<1>4. Types' BY <1>1, <1>2, <1>3 DEF TInv, Types
<1>5. WorkerInv' BY <1>2 DEF TInv, WorkerInv
<1>6. ConnInv'
  <2>1. cl.cur = nconn BY <1>1, ClientHere
  <2>2. \A v \in Conns : v > nconn => v # cl.cur BY <2>1, ClientHere
  <2> QED BY <1>1, <1>2, <1>3, <2>2 DEF TInv, ConnInv
<1> QED BY <1>4, <1>5, <1>6 DEF TInv

(* Every step keeps the types and the connections.                         *)
LEMMA TypesStep ==
  ASSUME TInv, [Next]_vars
  PROVE  TInv'
<1>1. CASE \E w \in Conns : WorkerStep(w) \/ Kill(w) BY <1>1, WorkerEffect
<1>2. CASE ClientStep
  BY <1>2, ConnectTypes, LostTypes, ResumeRespTypes, BoardTypes, NetSendTypes DEF ClientStep
<1>3. CASE ConnLost BY <1>3, LostTypes
<1>4. CASE PressEndTurn \/ PressSelected \/ \E sel \in BOOLEAN : PressOther(sel)
  BY <1>4, PressTypes
<1>5. CASE GuiEnds BY <1>5, GuiEndsTypes
<1>6. CASE Restart BY <1>6, RestartTypes
<1>7. CASE UNCHANGED vars
  <2>1. /\ UNCHANGED <<srvVars, netVars>> /\ nconn' = nconn /\ killed' = killed
        /\ nrestart' = nrestart /\ ncmd' = ncmd /\ pipe' = pipe /\ cl' = cl
    BY <1>7 DEF vars, srvVars, netVars
  <2> QED BY <2>1, ClientTypes DEF TInv, Types
<1> QED BY <1>1, <1>2, <1>3, <1>4, <1>5, <1>6, <1>7 DEF Next
-----------------------------------------------------------------------------
(* Clicks under way, and clicks executed.                                  *)

(* No packets, or only one that is not a click.                            *)
LEMMA NoIds ==
  /\ CmdIds(<<>>) = {} /\ Distinct(<<>>)
  /\ \A m : m.op \notin Kinds => CmdIds(<<m>>) = {} /\ Distinct(<<m>>)
  /\ LogIds(<<>>) = {} /\ Once(<<>>)
<1>1. DOMAIN <<>> = {} OBVIOUS
<1>2. ASSUME NEW m, m.op \notin Kinds PROVE CmdIds(<<m>>) = {} /\ Distinct(<<m>>)
  <2>1. DOMAIN <<m>> = {1} /\ <<m>>[1] = m OBVIOUS
  <2> QED BY <1>2, <2>1 DEF CmdIds, Distinct
<1> QED BY <1>1, <1>2 DEF CmdIds, Distinct, LogIds, Once

(* A packet is read.                                                       *)
LEMMA TailIds ==
  ASSUME NEW q \in Seq(Reqs), q # <<>>
  PROVE  /\ CmdIds(Tail(q)) \subseteq CmdIds(q)
         /\ Distinct(q) => Distinct(Tail(q))
         /\ Head(q).op \in Kinds => Head(q).id \in CmdIds(q)
         /\ Head(q).op \in Kinds /\ Distinct(q) => Head(q).id \notin CmdIds(Tail(q))
<1>1. /\ Tail(q) \in Seq(Reqs) /\ Len(Tail(q)) = Len(q) - 1 /\ Len(q) \in Nat
      /\ \A i \in 1..Len(Tail(q)) : Tail(q)[i] = q[i + 1]
  BY HeadTailProperties, LenProperties
<1>2. DOMAIN q = 1..Len(q) /\ DOMAIN Tail(q) = 1..Len(Tail(q)) BY <1>1, LenProperties
<1>3. Head(q) = q[1] /\ Len(q) >= 1
  <2>1. Len(q) # 0 BY EmptySeq
  <2> QED BY <1>1, <2>1, HeadTailProperties
<1>4. \A i \in DOMAIN Tail(q) : i + 1 \in DOMAIN q /\ Tail(q)[i] = q[i + 1] /\ i + 1 # 1
  BY <1>1, <1>2
<1>5. 1 \in DOMAIN q BY <1>1, <1>2, <1>3
<1>6. CmdIds(Tail(q)) \subseteq CmdIds(q) BY <1>4 DEF CmdIds
<1>7. Distinct(q) => Distinct(Tail(q))
  <2> SUFFICES ASSUME Distinct(q), NEW i \in DOMAIN Tail(q), NEW j \in DOMAIN Tail(q),
                      Tail(q)[i].op \in Kinds, Tail(q)[j].op \in Kinds,
                      Tail(q)[i].id = Tail(q)[j].id
               PROVE  i = j
    BY DEF Distinct
  <2>1. i + 1 = j + 1 BY <1>4 DEF Distinct
  <2>2. i \in Int /\ j \in Int BY <1>2
  <2> QED BY <2>1, <2>2
<1>8. Head(q).op \in Kinds => Head(q).id \in CmdIds(q) BY <1>3, <1>5 DEF CmdIds
<1>9. ASSUME Head(q).op \in Kinds, Distinct(q), Head(q).id \in CmdIds(Tail(q)) PROVE FALSE
  <2>1. PICK i \in DOMAIN Tail(q) : Tail(q)[i].op \in Kinds /\ Tail(q)[i].id = Head(q).id
    BY <1>9 DEF CmdIds
  <2>2. i + 1 = 1 BY <1>3, <1>4, <1>5, <1>9, <2>1 DEF Distinct
  <2> QED BY <1>4, <2>2
<1> QED BY <1>6, <1>7, <1>8, <1>9

(* A click is put at the end.                                              *)
LEMMA AppendIds ==
  ASSUME NEW q \in Seq(Reqs), NEW m \in Reqs, m.op \in Kinds
  PROVE  /\ CmdIds(Append(q, m)) \subseteq CmdIds(q) \union {m.id}
         /\ Distinct(q) /\ m.id \notin CmdIds(q) => Distinct(Append(q, m))
<1> DEFINE p == Append(q, m)
<1>1. /\ Len(p) = Len(q) + 1 /\ p \in Seq(Reqs) /\ Len(q) \in Nat /\ p[Len(q) + 1] = m
      /\ \A i \in 1..Len(q) : p[i] = q[i]
  BY AppendProperties, LenProperties
<1>2. DOMAIN q = 1..Len(q) /\ DOMAIN p = 1..Len(p) BY <1>1, LenProperties
<1> HIDE DEF p
<1>3. \A i \in DOMAIN p : (i \in DOMAIN q /\ p[i] = q[i]) \/ (i = Len(q) + 1 /\ p[i] = m)
  BY <1>1, <1>2
<1>4. CmdIds(p) \subseteq CmdIds(q) \union {m.id} BY <1>3 DEF CmdIds
<1>5. ASSUME Distinct(q), m.id \notin CmdIds(q) PROVE Distinct(p)
  <2>1. \A i \in DOMAIN q : q[i].op \in Kinds => q[i].id # m.id BY <1>5 DEF CmdIds
  <2> SUFFICES ASSUME NEW i \in DOMAIN p, NEW j \in DOMAIN p, p[i].op \in Kinds, p[j].op \in Kinds,
                      p[i].id = p[j].id
               PROVE  i = j
    BY DEF Distinct
  <2> QED BY <1>3, <1>5, <2>1 DEF Distinct
<1> QED BY <1>4, <1>5 DEF p

(* The end is lost.                                                        *)
LEMMA PrefixIds ==
  ASSUME NEW q \in Seq(Reqs), NEW n \in 0..Len(q)
  PROVE  /\ CmdIds(SubSeq(q, 1, n)) \subseteq CmdIds(q)
         /\ Distinct(q) => Distinct(SubSeq(q, 1, n))
<1> DEFINE p == SubSeq(q, 1, n)
<1>0. DOMAIN q = 1..Len(q) /\ Len(q) \in Nat BY LenProperties
<1>1. \A i \in 1..n : i \in DOMAIN q /\ q[i] \in Reqs BY <1>0, ElementOfSeq
<1>2. /\ Len(p) = n /\ p \in Seq(Reqs) /\ \A i \in 1..n : p[i] = q[i]
  <2>1. n \in Nat BY <1>0
  <2>2. /\ p \in Seq(Reqs)
        /\ Len(p) = IF 1 <= n THEN n - 1 + 1 ELSE 0
        /\ \A i \in 1..(n - 1 + 1) : p[i] = q[1 + i - 1]
    BY <1>1, <2>1, SubSeqProperties
  <2>3. n - 1 + 1 = n /\ \A i \in 1..n : 1 + i - 1 = i BY <2>1
  <2> QED BY <2>1, <2>2, <2>3
<1>3. DOMAIN p = 1..n BY <1>2, LenProperties
<1> HIDE DEF p
<1>4. \A i \in DOMAIN p : i \in DOMAIN q /\ p[i] = q[i] BY <1>1, <1>2, <1>3
<1>5. CmdIds(p) \subseteq CmdIds(q) BY <1>4 DEF CmdIds
<1>6. Distinct(q) => Distinct(p) BY <1>4 DEF Distinct
<1> QED BY <1>5, <1>6 DEF p

(* A command is entered in a log.                                          *)
LEMMA AppendLog ==
  ASSUME NEW log \in Seq(Entries), NEW e \in Entries
  PROVE  /\ LogIds(Append(log, e)) \subseteq LogIds(log) \union {e.id}
         /\ Once(log) /\ e.id \notin LogIds(log) => Once(Append(log, e))
<1> DEFINE p == Append(log, e)
<1>1. /\ Len(p) = Len(log) + 1 /\ p \in Seq(Entries) /\ Len(log) \in Nat /\ p[Len(log) + 1] = e
      /\ \A i \in 1..Len(log) : p[i] = log[i]
  BY AppendProperties, LenProperties
<1>2. DOMAIN log = 1..Len(log) /\ DOMAIN p = 1..Len(p) BY <1>1, LenProperties
<1> HIDE DEF p
<1>3. \A i \in DOMAIN p : (i \in DOMAIN log /\ p[i] = log[i]) \/ (i = Len(log) + 1 /\ p[i] = e)
  BY <1>1, <1>2
<1>4. LogIds(p) \subseteq LogIds(log) \union {e.id} BY <1>3 DEF LogIds
<1>5. ASSUME Once(log), e.id \notin LogIds(log) PROVE Once(p)
  <2>1. \A i \in DOMAIN log : log[i].id # e.id BY <1>5 DEF LogIds
  <2> SUFFICES ASSUME NEW i \in DOMAIN p, NEW j \in DOMAIN p, p[i].id = p[j].id
               PROVE  i = j
    BY DEF Once
  <2> QED BY <1>3, <1>5, <2>1 DEF Once
<1> QED BY <1>4, <1>5 DEF p

(* Clicks that get no more in number.                                      *)
Shrinks ==
  /\ CmdIds(pipe') \subseteq CmdIds(pipe) /\ (Distinct(pipe) => Distinct(pipe'))
  /\ \A w \in Conns : /\ CmdIds(c2s'[w]) \subseteq CmdIds(c2s[w])
                      /\ Distinct(c2s[w]) => Distinct(c2s'[w])
  /\ ncmd' = ncmd

(* When packets are only read or lost, the clicks under way stay distinct. *)
LEMMA ShrinksPending ==
  ASSUME PendingInv, Shrinks
  PROVE  PendingInv' /\ Pending' \subseteq Pending
<1>1. Pending' \subseteq Pending BY DEF Shrinks, Pending
<1>2. Distinct(pipe') /\ \A w \in Conns : Distinct(c2s'[w]) BY DEF Shrinks, PendingInv
<1>3. \A w \in Conns : CmdIds(pipe') \cap CmdIds(c2s'[w]) = {} BY DEF Shrinks, PendingInv
<1>4. \A v, w \in Conns : v # w => CmdIds(c2s'[v]) \cap CmdIds(c2s'[w]) = {}
  BY DEF Shrinks, PendingInv
<1>5. \A id \in Pending' : id <= ncmd' BY <1>1 DEF Shrinks, PendingInv
<1> QED BY <1>1, <1>2, <1>3, <1>4, <1>5 DEF PendingInv

(* Logs that stay, or are emptied.                                         *)
LEMMA LogsStay ==
  ASSUME LogsInv, Pending' \subseteq Pending, ncmd' = ncmd,
         \A w \in Conns : wk'[w].st.log = wk[w].st.log,
         \A s \in Conns : store'[s].st.log = store[s].st.log \/ store'[s].st.log = <<>>
  PROVE  LogsInv'
<1>1. LogOk(<<>>)' BY NoIds DEF LogOk
<1>2. ASSUME NEW w \in Conns PROVE LogOk(wk[w].st.log)' /\ LogOk(store[w].st.log)'
  <2>1. LogOk(wk[w].st.log) /\ LogOk(store[w].st.log) BY DEF LogsInv
  <2> QED BY <1>1, <2>1 DEF LogOk
<1> QED BY <1>2 DEF LogsInv

(* The steps of a worker: a click goes from the connection into a log.     *)
LEMMA WorkerClicks ==
  ASSUME TInv, PendingInv, LogsInv, NEW w \in Conns, Effect(w)
  PROVE  PendingInv' /\ LogsInv'
<1>1. PICK x \in WorkRec : Becomes(w, x) BY DEF Effect
<1>2. wk' = [wk EXCEPT ![w] = x] /\ LogStep(w, x) BY <1>1 DEF Becomes
<1>3. Stays /\ Reads(w) /\ StoreStep(w) BY DEF Effect
<1>4. pipe' = pipe /\ ncmd' = ncmd BY <1>3 DEF Stays
<1>5. \A v \in Conns : v # w => c2s'[v] = c2s[v] BY <1>3 DEF Reads, TInv, Types
<1>6. Shrinks
  <2>1. ASSUME NEW v \in Conns
        PROVE  CmdIds(c2s'[v]) \subseteq CmdIds(c2s[v]) /\ (Distinct(c2s[v]) => Distinct(c2s'[v]))
    <3>1. CASE c2s'[v] = c2s[v] BY <3>1
    <3>2. CASE c2s'[v] # c2s[v]
      <4>1. v = w BY <1>5, <3>2
      <4>2. c2s[w] # <<>> /\ c2s' = [c2s EXCEPT ![w] = Tail(c2s[w])] BY <1>3, <3>2 DEF Reads
      <4>3. c2s'[w] = Tail(c2s[w]) /\ c2s[w] \in Seq(Reqs) BY <4>2, Here DEF TInv, Types
      <4> QED BY <4>1, <4>2, <4>3, TailIds
    <3> QED BY <3>1, <3>2
  <2> QED BY <1>4, <2>1 DEF Shrinks
<1>7. PendingInv' /\ Pending' \subseteq Pending BY <1>6, ShrinksPending
<1>8. \A v \in Conns : LogOk(wk[v].st.log) /\ LogOk(store[v].st.log) BY DEF LogsInv
<1>9. \A v \in Conns : LogOk(store[v].st.log)'
  <2>1. ASSUME NEW v \in Conns PROVE LogOk(store[v].st.log)'
    <3>1. store'[v].st.log = store[v].st.log \/ store'[v].st.log = wk[w].st.log
      BY <1>3 DEF StoreStep
    <3> QED BY <1>4, <1>7, <1>8, <3>1 DEF LogOk
  <2> QED BY <2>1
<1>10. LogOk(x.st.log)'
  <2>1. CASE x.st.log = wk[w].st.log BY <1>4, <1>7, <1>8, <2>1 DEF LogOk
  <2>2. CASE x.st.log = <<>> BY <2>2, NoIds DEF LogOk
  <2>3. ASSUME NEW s \in Conns, x.st.log = store[s].st.log PROVE LogOk(x.st.log)'
    BY <1>4, <1>7, <1>8, <2>3 DEF LogOk
  <2>4. CASE /\ c2s[w] # <<>> /\ Head(c2s[w]) \in Cmds
             /\ c2s' = [c2s EXCEPT ![w] = Tail(c2s[w])]
             /\ x.st.log = Append(wk[w].st.log, Entry(wk[w].hand, Head(c2s[w])))
    <3> DEFINE m == Head(c2s[w])
               e == Entry(wk[w].hand, m)
               log == wk[w].st.log
    <3>1. m.op \in Kinds /\ e.id = m.id /\ e \in Entries /\ log \in Seq(Entries)
      BY <2>4, Here, ExecutedGame, GameFields DEF Cmds, Entry
    <3>2. c2s[w] \in Seq(Reqs) /\ c2s'[w] = Tail(c2s[w]) BY <2>4, Here DEF TInv, Types
    <3>3. m.id \in CmdIds(c2s[w]) /\ m.id \notin CmdIds(c2s'[w])
      BY <2>4, <3>1, <3>2, TailIds DEF PendingInv
    <3>4. m.id \in Pending /\ m.id <= ncmd BY <3>3 DEF Pending, PendingInv
    <3>5. m.id \notin Pending'
      <4>1. m.id \notin CmdIds(pipe') BY <1>4, <3>3 DEF PendingInv
      <4>2. ASSUME NEW v \in Conns PROVE m.id \notin CmdIds(c2s'[v])
        BY <1>5, <3>3 DEF PendingInv
      <4> QED BY <4>1, <4>2 DEF Pending
    <3>6. m.id \notin LogIds(log) /\ Once(log) BY <1>8, <3>4 DEF LogOk
    <3> HIDE DEF e, m, log
    <3>7. Once(Append(log, e)) /\ LogIds(Append(log, e)) \subseteq LogIds(log) \union {m.id}
      BY <3>1, <3>6, AppendLog
    <3>8. \A id \in LogIds(log) : id <= ncmd' /\ id \notin Pending'
      BY <1>4, <1>7, <1>8 DEF LogOk, log
    <3>9. x.st.log = Append(log, e) BY <2>4 DEF e, m, log
    <3> QED BY <1>4, <3>4, <3>5, <3>7, <3>8, <3>9, SMTT(60) DEF LogOk
  <2> QED BY <1>2, <2>1, <2>2, <2>3, <2>4 DEF LogStep
<1>11. \A v \in Conns : LogOk(wk[v].st.log)'
  <2>1. ASSUME NEW v \in Conns PROVE LogOk(wk[v].st.log)'
    <3>1. wk'[v] = IF v = w THEN x ELSE wk[v] BY <1>2 DEF TInv, Types
    <3>2. CASE v = w BY <1>10, <3>1, <3>2 DEF LogOk
    <3>3. CASE v # w BY <1>4, <1>7, <1>8, <3>1, <3>3 DEF LogOk
    <3> QED BY <3>2, <3>3
  <2> QED BY <2>1
<1> QED BY <1>7, <1>9, <1>11 DEF LogsInv

(* Steps that take no click further.                                       *)
LEMMA QuietClicks ==
  ASSUME PendingInv, LogsInv, Shrinks, \A w \in Conns : wk'[w].st.log = wk[w].st.log,
         \A s \in Conns : store'[s].st.log = store[s].st.log \/ store'[s].st.log = <<>>
  PROVE  PendingInv' /\ LogsInv'
<1>1. PendingInv' /\ Pending' \subseteq Pending /\ ncmd' = ncmd BY ShrinksPending DEF Shrinks
<1> QED BY <1>1, LogsStay

(* Closing the connection loses clicks, and never doubles one.             *)
LEMMA CloseClicks ==
  ASSUME TInv, PendingInv, LogsInv, NEW c \in ClientRec, cl.cur # 0, Close(c),
         UNCHANGED <<srvVars, bounds>>, pipe' = pipe \/ pipe' = <<>>
  PROVE  PendingInv' /\ LogsInv'
<1>1. PICK n \in 0..Len(c2s[cl.cur]) : c2s' = [c2s EXCEPT ![cl.cur] = SubSeq(c2s[cl.cur], 1, n)]
  BY CloseFacts
<1>2. cl.cur \in Conns /\ c2s[cl.cur] \in Seq(Reqs) BY ClientHere, Here
<1>3. ASSUME NEW v \in Conns
      PROVE  CmdIds(c2s'[v]) \subseteq CmdIds(c2s[v]) /\ (Distinct(c2s[v]) => Distinct(c2s'[v]))
  <2>1. CASE v = cl.cur
    <3>1. c2s'[v] = SubSeq(c2s[v], 1, n) BY <1>1, <2>1 DEF TInv, Types
    <3>2. n \in 0..Len(c2s[v]) /\ c2s[v] \in Seq(Reqs) BY <1>2, <2>1
    <3> QED BY <3>1, <3>2, PrefixIds
  <2>2. CASE v # cl.cur BY <1>1, <2>2 DEF TInv, Types
  <2> QED BY <2>1, <2>2
<1>4. CmdIds(pipe') \subseteq CmdIds(pipe) /\ (Distinct(pipe) => Distinct(pipe')) BY NoIds
<1>5. Shrinks BY <1>3, <1>4 DEF Shrinks, bounds
<1>6. wk' = wk /\ store' = store BY DEF srvVars
<1> QED BY <1>5, <1>6, QuietClicks

(* The first packet of a connection is not a click.                        *)
LEMMA ConnectClicks ==
  ASSUME TInv, PendingInv, LogsInv, Connect
  PROVE  PendingInv' /\ LogsInv'
<1> DEFINE w == nconn + 1
<1>1. /\ w \in Conns /\ wk' = [wk EXCEPT ![w] = [wk[w] EXCEPT !.pc = "hs"]]
      /\ Asks.op \notin Kinds /\ c2s' = [c2s EXCEPT ![w] = <<Asks>>]
      /\ store' = store /\ pipe' = pipe /\ ncmd' = ncmd
  BY ConnectFacts
<1> HIDE DEF w
<1>2. [wk[w] EXCEPT !.pc = "hs"].st = wk[w].st BY <1>1, Here DEF WorkRec
<1>3. \A v \in Conns : wk'[v].st = wk[v].st BY <1>1, <1>2 DEF TInv, Types
<1>4. CmdIds(<<Asks>>) = {} /\ Distinct(<<Asks>>) BY <1>1, NoIds
<1>5. ASSUME NEW v \in Conns
      PROVE  CmdIds(c2s'[v]) \subseteq CmdIds(c2s[v]) /\ (Distinct(c2s[v]) => Distinct(c2s'[v]))
  <2>1. c2s'[v] = c2s[v] \/ c2s'[v] = <<Asks>> BY <1>1 DEF TInv, Types
  <2> QED BY <1>4, <2>1
<1>6. Shrinks BY <1>1, <1>5 DEF Shrinks
<1> QED BY <1>1, <1>3, <1>6, QuietClicks

(* A new click has a number no click had before.                           *)
LEMMA CommandClicks ==
  ASSUME TInv, PendingInv, LogsInv, NEW op \in Kinds, Command(op)
  PROVE  PendingInv' /\ LogsInv'
<1> DEFINE m == [op |-> op, id |-> ncmd + 1, aim |-> cl.hand]
<1>1. /\ m \in Cmds /\ pipe' = Append(pipe, m) /\ ncmd' = ncmd + 1 /\ m.op \in Kinds
      /\ m.id = ncmd + 1 /\ wk' = wk /\ store' = store /\ c2s' = c2s
  BY CommandFacts DEF srvVars, netVars
<1> HIDE DEF m
<1>2. pipe \in Seq(Cmds) /\ m \in Reqs BY <1>1 DEF TInv, Types, Reqs
<1>3. pipe \in Seq(Reqs)
  <2>1. Len(pipe) \in Nat /\ pipe \in [1..Len(pipe) -> Cmds] BY <1>2, LenProperties
  <2>2. pipe \in [1..Len(pipe) -> Reqs] BY <2>1 DEF Reqs
  <2> QED BY <2>1, <2>2, SeqDef
<1>4. /\ CmdIds(pipe') \subseteq CmdIds(pipe) \union {ncmd + 1}
      /\ Distinct(pipe) /\ ncmd + 1 \notin CmdIds(pipe) => Distinct(pipe')
  BY <1>1, <1>2, <1>3, AppendIds
<1>5. \A id \in Pending : id \in Int /\ id <= ncmd
  <2>1. ASSUME NEW id \in CmdIds(pipe) PROVE id \in Int
    <3>1. PICK i \in DOMAIN pipe : id = pipe[i].id BY <2>1 DEF CmdIds
    <3>2. pipe[i] \in Cmds BY <1>2, <3>1, LenProperties
    <3> QED BY <3>1, <3>2 DEF Cmds
  <2>2. ASSUME NEW v \in Conns, NEW id \in CmdIds(c2s[v]) PROVE id \in Int
    <3>1. PICK i \in DOMAIN c2s[v] : c2s[v][i].op \in Kinds /\ id = c2s[v][i].id
      BY <2>2 DEF CmdIds
    <3>2. c2s[v][i] \in Reqs BY Here, <3>1, LenProperties
    <3>3. c2s[v][i] \in Cmds BY <3>1, <3>2, MessageKinds
    <3> QED BY <3>1, <3>3 DEF Cmds
  <2> QED BY <2>1, <2>2 DEF Pending, PendingInv
<1>6. ncmd \in Int /\ ncmd + 1 \notin Pending BY <1>5, ClientHere
<1>7. Pending' \subseteq Pending \union {ncmd + 1} BY <1>1, <1>4 DEF Pending
<1>8. PendingInv'
  <2>1. ncmd + 1 \notin CmdIds(pipe) /\ \A v \in Conns : ncmd + 1 \notin CmdIds(c2s[v])
    BY <1>6 DEF Pending
  <2>2. Distinct(pipe') /\ \A v \in Conns : Distinct(c2s'[v]) BY <1>1, <1>4, <2>1 DEF PendingInv
  <2>3. \A v \in Conns : CmdIds(pipe') \cap CmdIds(c2s'[v]) = {}
    BY <1>1, <1>4, <2>1 DEF PendingInv
  <2>4. \A v, u \in Conns : v # u => CmdIds(c2s'[v]) \cap CmdIds(c2s'[u]) = {}
    BY <1>1 DEF PendingInv
  <2>5. \A id \in Pending' : id <= ncmd' BY <1>1, <1>5, <1>6, <1>7
  <2> QED BY <2>2, <2>3, <2>4, <2>5 DEF PendingInv
<1>9. LogsInv'
  <2>1. ASSUME NEW log \in Seq(Entries), LogOk(log) PROVE LogOk(log)'
    <3>1. ASSUME NEW id \in LogIds(log) PROVE id <= ncmd' /\ id \notin Pending'
      <4>1. id \in Int
        <5>1. PICK i \in DOMAIN log : id = log[i].id BY <3>1 DEF LogIds
        <5>2. log[i] \in Entries BY <5>1, LenProperties
        <5> QED BY <5>1, <5>2 DEF Entries
      <4>2. id <= ncmd /\ id \notin Pending BY <2>1 DEF LogOk
      <4> QED BY <1>1, <1>6, <1>7, <4>1, <4>2
    <3> QED BY <2>1, <3>1 DEF LogOk
  <2>2. ASSUME NEW v \in Conns PROVE LogOk(wk[v].st.log)' /\ LogOk(store[v].st.log)'
    <3>1. wk[v].st.log \in Seq(Entries) /\ store[v].st.log \in Seq(Entries)
      BY Here, GameFields DEF StoreRec
    <3>2. LogOk(wk[v].st.log) /\ LogOk(store[v].st.log) BY DEF LogsInv
    <3> QED BY <1>1, <2>1, <3>1, <3>2 DEF LogOk
  <2> QED BY <2>2 DEF LogsInv
<1> QED BY <1>8, <1>9

(* A forwarded click leaves the pipe as it enters the connection.          *)
LEMMA NetSendClicks ==
  ASSUME TInv, PendingInv, LogsInv, NetSend
  PROVE  PendingInv' /\ LogsInv'
<1> DEFINE m == Head(pipe)
           w == cl.cur
<1>1. /\ w \in Conns /\ pipe # <<>> /\ pipe \in Seq(Cmds) /\ m \in Cmds /\ pipe' = Tail(pipe)
      /\ c2s' = c2s \/ c2s' = [c2s EXCEPT ![w] = Append(c2s[w], m)]
      /\ c2s[w] \in Seq(Reqs) /\ m \in Reqs /\ m.op \in Kinds
      /\ wk' = wk /\ store' = store /\ ncmd' = ncmd
  BY NetSendFacts DEF srvVars, bounds, Cmds
<1>2. pipe \in Seq(Reqs)
  <2>1. Len(pipe) \in Nat /\ pipe \in [1..Len(pipe) -> Cmds] BY <1>1, LenProperties
  <2>2. pipe \in [1..Len(pipe) -> Reqs] BY <2>1 DEF Reqs
  <2> QED BY <2>1, <2>2, SeqDef
<1>3. /\ CmdIds(pipe') \subseteq CmdIds(pipe) /\ Distinct(pipe')
      /\ m.id \in CmdIds(pipe) /\ m.id \notin CmdIds(pipe')
  BY <1>1, <1>2, TailIds DEF PendingInv
<1> HIDE DEF m, w
<1>4. CASE c2s' = c2s
  <2>1. Shrinks BY <1>1, <1>3, <1>4 DEF Shrinks
  <2> QED BY <1>1, <2>1, QuietClicks
<1>5. CASE c2s' = [c2s EXCEPT ![w] = Append(c2s[w], m)]
  <2>1. c2s'[w] = Append(c2s[w], m) /\ \A v \in Conns : v # w => c2s'[v] = c2s[v]
    BY <1>1, <1>5 DEF TInv, Types
  <2>2. \A v \in Conns : m.id \notin CmdIds(c2s[v]) BY <1>3 DEF PendingInv
  <2>3. CmdIds(c2s'[w]) \subseteq CmdIds(c2s[w]) \union {m.id} /\ Distinct(c2s'[w])
    BY <1>1, <2>1, <2>2, AppendIds DEF PendingInv
  <2>4. \A v \in Conns : CmdIds(c2s'[v]) \subseteq CmdIds(c2s[v]) \union {m.id} /\ Distinct(c2s'[v])
    BY <2>1, <2>3 DEF PendingInv
  <2>5. Pending' \subseteq Pending BY <1>3, <2>4 DEF Pending
  <2>6. \A v \in Conns : CmdIds(pipe') \cap CmdIds(c2s'[v]) = {}
    BY <1>3, <2>4 DEF PendingInv
  <2>7. \A v, u \in Conns : v # u => CmdIds(c2s'[v]) \cap CmdIds(c2s'[u]) = {}
    <3> SUFFICES ASSUME NEW v \in Conns, NEW u \in Conns, v # u
                 PROVE  CmdIds(c2s'[v]) \cap CmdIds(c2s'[u]) = {}
      OBVIOUS
    <3>1. CASE v = w BY <2>1, <2>2, <2>3, <3>1, ZenonT(60) DEF PendingInv
    <3>2. CASE u = w BY <2>1, <2>2, <2>3, <3>2, ZenonT(60) DEF PendingInv
    <3>3. CASE v # w /\ u # w BY <2>1, <3>3 DEF PendingInv
    <3> QED BY <3>1, <3>2, <3>3
  <2>8. \A id \in Pending' : id <= ncmd' BY <1>1, <2>5 DEF PendingInv
  <2>9. PendingInv' BY <1>3, <2>4, <2>6, <2>7, <2>8 DEF PendingInv
  <2>10. LogsInv' BY <1>1, <2>5, LogsStay
  <2> QED BY <2>9, <2>10
<1> QED BY <1>1, <1>4, <1>5

(* Every step keeps the clicks apart.                                      *)
ClickInv == TInv /\ PendingInv /\ LogsInv

(* Every step keeps the clicks apart.                                      *)
LEMMA ClickStep ==
  ASSUME ClickInv, [Next]_vars
  PROVE  ClickInv'
<1>0. TInv /\ PendingInv /\ LogsInv BY DEF ClickInv
<1> SUFFICES PendingInv' /\ LogsInv' BY <1>0, TypesStep DEF ClickInv
<1>1. ASSUME NEW w \in Conns, WorkerStep(w) \/ Kill(w) PROVE PendingInv' /\ LogsInv'
  BY <1>0, <1>1, WorkerEffect, WorkerClicks
<1>2. CASE Connect BY <1>0, <1>2, ConnectClicks
<1>3. CASE ConnLost \/ ClientEof
  <2>1. cl.cur # 0 /\ Close(cl) /\ UNCHANGED <<srvVars, bounds>> /\ pipe' = pipe
    BY <1>3 DEF ConnLost, ClientEof
  <2> QED BY <1>0, <2>1, ClientHere, CloseClicks
<1>4. ASSUME UNCHANGED <<srvVars, c2s, pipe, ncmd>> PROVE PendingInv' /\ LogsInv'
  <2>1. wk' = wk /\ store' = store /\ c2s' = c2s /\ pipe' = pipe /\ ncmd' = ncmd
    BY <1>4 DEF srvVars
  <2>2. Shrinks BY <2>1 DEF Shrinks
  <2> QED BY <1>0, <2>1, <2>2, QuietClicks
<1>5. CASE OnResumeResp
  <2>1. cl.cur # 0 BY <1>5 DEF OnResumeResp, Incoming
  <2>2. UNCHANGED <<srvVars, pipe, bounds>> BY <1>5 DEF OnResumeResp
  <2>3. CASE UNCHANGED c2s BY <1>4, <2>2, <2>3 DEF bounds
  <2>4. CASE Close([cl EXCEPT !.sid = 0])
    <3>1. [cl EXCEPT !.sid = 0] \in ClientRec
      BY <1>0, ClientHere, SessionsAssumption DEF ClientRec
    <3> QED BY <1>0, <2>1, <2>2, <2>4, <3>1, CloseClicks
  <2> QED BY <1>5, <2>3, <2>4 DEF OnResumeResp
<1>6. CASE OnState \/ OnHand \/ \E sel \in BOOLEAN : PressOther(sel)
  BY <1>4, <1>6 DEF OnState, OnHand, PressOther, bounds, netVars
<1>7. CASE NetSend BY <1>0, <1>7, NetSendClicks
<1>8. CASE PressEndTurn \/ PressSelected
  BY <1>0, <1>8, CommandClicks DEF PressEndTurn, PressSelected, Kinds
<1>9. CASE GuiEnds
  <2> DEFINE c == [cl EXCEPT !.running = FALSE]
  <2>1. c \in ClientRec /\ pipe' = <<>> /\ UNCHANGED <<srvVars, bounds>>
    BY <1>0, <1>9, GuiEndsFacts
  <2>2. CASE cl.cur # 0
    <3>1. Close(c) BY <1>9, <2>2 DEF GuiEnds
    <3> HIDE DEF c
    <3> QED BY <1>0, <2>1, <2>2, <3>1, CloseClicks
  <2>3. CASE cl.cur = 0
    <3>1. c2s' = c2s /\ wk' = wk /\ store' = store /\ ncmd' = ncmd
      BY <1>9, <2>1, <2>3 DEF GuiEnds, netVars, srvVars, bounds
    <3>2. Shrinks BY <2>1, <3>1, NoIds DEF Shrinks
    <3> QED BY <1>0, <3>1, <3>2, QuietClicks
  <2> QED BY <2>2, <2>3
<1>10. CASE Restart
  <2>1. /\ wk' = wk /\ c2s' = c2s /\ pipe' = pipe /\ ncmd' = ncmd
        /\ store' = [s \in Conns |-> [valid |-> FALSE, st |-> NoGame, hand |-> NoHand]]
    BY <1>10 DEF Restart, netVars
  <2>2. Shrinks BY <2>1 DEF Shrinks
  <2>3. \A s \in Conns : store'[s].st.log = <<>> BY <2>1, NewGameFacts
  <2> QED BY <1>0, <2>1, <2>2, <2>3, QuietClicks
<1>11. CASE UNCHANGED vars BY <1>4, <1>11 DEF vars, srvVars
<1> QED BY <1>1, <1>2, <1>3, <1>5, <1>6, <1>7, <1>8, <1>9, <1>10, <1>11 DEF Next, ClientStep

(* At the start there are no clicks.                                       *)
LEMMA ClickInit == Init => ClickInv
<1> SUFFICES ASSUME Init PROVE PendingInv /\ LogsInv BY InitTypes DEF ClickInv
<1>1. pipe = <<>> /\ (\A w \in Conns : c2s[w] = <<>>) /\ ncmd = 0 BY DEF Init
<1>2. Pending = {} BY <1>1, NoIds DEF Pending
<1>3. PendingInv BY <1>1, <1>2, NoIds DEF PendingInv
<1>4. \A w \in Conns : wk[w].st.log = <<>> /\ store[w].st.log = <<>> BY NewGameFacts DEF Init
<1>5. LogsInv BY <1>4, NoIds DEF LogsInv, LogOk
<1> QED BY <1>3, <1>5

(* The clicks under way and the clicks executed, of every log, are         *)
(* distinct.                                                               *)
LEMMA ClickInvariance == Spec => []ClickInv
<1>1. ClickInv /\ [Next]_vars => ClickInv' BY ClickStep
<1> QED BY <1>1, ClickInit, PTL DEF Spec

(* No click is executed twice, on whatever connection it travelled, in the *)
(* game of a worker or of the store: for any number of connections,        *)
(* overlapping ones included, and whatever is killed, lost or restarted.   *)
THEOREM OnceTheorem == Spec => []AtMostOnce
<1>1. ClickInv => AtMostOnce BY DEF ClickInv, LogsInv, LogOk, Once, AtMostOnce
<1> QED BY <1>1, ClickInvariance, PTL
-----------------------------------------------------------------------------
(* Clicks that wait for their board.  The counter of the client is at      *)
(* least the number of clicks on their way to the worker, of boards on     *)
(* their way back that answer one, and the click being handled.            *)
IsAck(m)  == m.op = "STATE" /\ m.ack = 1
Clicks(q) == Cardinality({i \in DOMAIN q : q[i].op \in Kinds})
Acks(q)   == Cardinality({i \in DOMAIN q : IsAck(q[i])})
Owes(x)   == IF \/ x.pc \in {"ai", "reply"}
                \/ x.pc \in {"save_st", "save_hand"} /\ x.then \in {"ai", "reply"} THEN 1 ELSE 0
Load(w)   == Clicks(c2s[w]) + Acks(s2c[w]) + Owes(wk[w])
WaitInv ==
  /\ cl.cur = 0 => cl.waiting = 0
  /\ cl.cur # 0 => Load(cl.cur) <= cl.waiting

(* Counting places in 1..n: they are finite, and when all move one to the  *)
(* front, only place 1 is lost.                                            *)
LEMMA CountPlaces ==
  ASSUME NEW n \in Nat, NEW S \in SUBSET (1..n)
  PROVE  IsFiniteSet(S) /\ Cardinality(S) \in Nat
<1>1. IsFiniteSet(1..n) BY FS_Interval
<1>2. IsFiniteSet(S) BY <1>1, FS_Subset
<1> QED BY <1>2, FS_CardinalityType

(* Moving the places of a queue one to the front loses at most place 1.    *)
LEMMA ShiftPlaces ==
  ASSUME NEW n \in Nat, NEW S \in SUBSET (1..n), NEW T, T = {i \in 1..(n - 1) : i + 1 \in S}
  PROVE  Cardinality(T) = IF 1 \in S THEN Cardinality(S) - 1 ELSE Cardinality(S)
<1> DEFINE f == [i \in T |-> i + 1]
<1>1. IsFiniteSet(S) /\ IsFiniteSet(T)
  <2>1. T \in SUBSET (1..n) OBVIOUS
  <2> QED BY <2>1, CountPlaces
<1>2. f \in Bijection(T, S \ {1})
  <2>1. f \in [T -> S \ {1}] OBVIOUS
  <2>2. \A a, b \in T : f[a] = f[b] => a = b OBVIOUS
  <2>3. \A t \in S \ {1} : t - 1 \in T /\ f[t - 1] = t OBVIOUS
  <2> HIDE DEF f
  <2>4. f \in Injection(T, S \ {1}) BY <2>1, <2>2 DEF Injection, IsInjective
  <2>5. f \in Surjection(T, S \ {1})
    <3>1. \A t \in S \ {1} : \E s \in T : f[s] = t BY <2>3
    <3> QED BY <2>1, <3>1 DEF Surjection
  <2> QED BY <2>4, <2>5 DEF Bijection
<1>3. ExistsBijection(T, S \ {1}) BY <1>2 DEF ExistsBijection
<1>4. Cardinality(S \ {1}) = Cardinality(T) BY <1>1, <1>3, FS_Bijection
<1> QED BY <1>1, <1>4, FS_RemoveElement

(* One more place counts for at most one.                                  *)
LEMMA MorePlaces ==
  ASSUME NEW S, IsFiniteSet(S), NEW x, NEW T, T \subseteq S \union {x}
  PROVE  Cardinality(T) \in Nat /\ Cardinality(S) \in Nat /\ Cardinality(T) <= Cardinality(S) + 1
<1> DEFINE U == S \union {x}
<1>1. IsFiniteSet(U) /\ Cardinality(U) = IF x \in S THEN Cardinality(S) ELSE Cardinality(S) + 1
  BY FS_AddElement
<1> HIDE DEF U
<1>2. IsFiniteSet(T) /\ Cardinality(T) <= Cardinality(U)
  <2>1. T \in SUBSET U BY DEF U
  <2> QED BY <1>1, <2>1, FS_Subset
<1>3. Cardinality(S) \in Nat /\ Cardinality(U) \in Nat /\ Cardinality(T) \in Nat
  BY <1>1, <1>2, FS_CardinalityType
<1> QED BY <1>1, <1>2, <1>3

(* A packet is taken from the front.                                       *)
LEMMA TailCounts ==
  ASSUME NEW R, NEW q \in Seq(R), q # <<>>
  PROVE  /\ Clicks(q) \in Nat /\ Acks(q) \in Nat
         /\ Clicks(Tail(q)) = IF Head(q).op \in Kinds THEN Clicks(q) - 1 ELSE Clicks(q)
         /\ Acks(Tail(q)) = IF IsAck(Head(q)) THEN Acks(q) - 1 ELSE Acks(q)
<1> DEFINE C(s) == {i \in DOMAIN s : s[i].op \in Kinds}
           A(s) == {i \in DOMAIN s : IsAck(s[i])}
<1>1. /\ Tail(q) \in Seq(R) /\ Len(Tail(q)) = Len(q) - 1 /\ Len(q) \in Nat
      /\ \A i \in 1..Len(Tail(q)) : Tail(q)[i] = q[i + 1]
  BY HeadTailProperties, LenProperties
<1>2. DOMAIN Tail(q) = 1..(Len(q) - 1) /\ DOMAIN q = 1..Len(q) BY <1>1, LenProperties
<1>3. Head(q) = q[1] /\ Len(q) >= 1
  <2>1. Len(q) # 0 BY EmptySeq
  <2> QED BY <1>1, <2>1, HeadTailProperties
<1>4. \A i \in 1..(Len(q) - 1) : i + 1 \in 1..Len(q) /\ Tail(q)[i] = q[i + 1] BY <1>1
<1>5. C(Tail(q)) = {i \in 1..(Len(q) - 1) : i + 1 \in C(q)} BY <1>2, <1>4
<1>6. A(Tail(q)) = {i \in 1..(Len(q) - 1) : i + 1 \in A(q)} BY <1>2, <1>4
<1>7. C(q) \in SUBSET (1..Len(q)) /\ A(q) \in SUBSET (1..Len(q)) BY <1>2
<1>8. (1 \in C(q) <=> Head(q).op \in Kinds) /\ (1 \in A(q) <=> IsAck(Head(q))) BY <1>1, <1>2, <1>3
<1> HIDE DEF C, A
<1>9. /\ Cardinality(C(q)) \in Nat /\ Cardinality(A(q)) \in Nat
      /\ Cardinality(C(Tail(q))) = IF 1 \in C(q) THEN Cardinality(C(q)) - 1 ELSE Cardinality(C(q))
      /\ Cardinality(A(Tail(q))) = IF 1 \in A(q) THEN Cardinality(A(q)) - 1 ELSE Cardinality(A(q))
  BY <1>1, <1>5, <1>6, <1>7, CountPlaces, ShiftPlaces
<1> QED BY <1>8, <1>9 DEF Clicks, Acks, C, A

(* Packets are put at the end.                                             *)
LEMMA AppendCount ==
  ASSUME NEW q \in Seq(Reqs), NEW m \in Reqs
  PROVE  Clicks(Append(q, m)) \in Nat /\ Clicks(Append(q, m)) <= Clicks(q) + 1 /\ Clicks(q) \in Nat
<1> DEFINE p == Append(q, m)
           C(s) == {i \in DOMAIN s : s[i].op \in Kinds}
<1>1. /\ Len(p) = Len(q) + 1 /\ p \in Seq(Reqs) /\ Len(q) \in Nat
      /\ \A i \in 1..Len(q) : p[i] = q[i]
  BY AppendProperties, LenProperties
<1>2. DOMAIN q = 1..Len(q) /\ DOMAIN p = 1..Len(p) BY <1>1, LenProperties
<1> HIDE DEF p
<1>3. C(p) \subseteq C(q) \union {Len(q) + 1} BY <1>1, <1>2
<1>4. C(q) \in SUBSET (1..Len(q)) BY <1>2
<1> HIDE DEF C
<1>5. IsFiniteSet(C(q)) BY <1>1, <1>4, CountPlaces
<1>6. /\ Cardinality(C(p)) \in Nat /\ Cardinality(C(q)) \in Nat
      /\ Cardinality(C(p)) <= Cardinality(C(q)) + 1
  BY <1>3, <1>5, MorePlaces
<1> QED BY <1>6 DEF Clicks, C, p

(* Packets put behind a queue add their answers to it: none, or one.       *)
LEMMA ConcatCount ==
  ASSUME NEW q \in Seq(Msgs), NEW r \in Seq(Msgs)
  PROVE  /\ Acks(q) \in Nat /\ Acks(q \o r) \in Nat
         /\ (\A i \in DOMAIN r : ~IsAck(r[i])) => Acks(q \o r) = Acks(q)
         /\ (\A i \in DOMAIN r : IsAck(r[i]) => i = 1) => Acks(q \o r) <= Acks(q) + 1
<1> DEFINE p == q \o r
           A(s) == {i \in DOMAIN s : IsAck(s[i])}
<1>1. /\ Len(p) = Len(q) + Len(r) /\ p \in Seq(Msgs) /\ Len(q) \in Nat /\ Len(r) \in Nat
      /\ \A i \in 1..Len(p) : p[i] = IF i <= Len(q) THEN q[i] ELSE r[i - Len(q)]
  BY ConcatProperties, LenProperties
<1>2. DOMAIN q = 1..Len(q) /\ DOMAIN p = 1..Len(p) /\ DOMAIN r = 1..Len(r) BY <1>1, LenProperties
<1> HIDE DEF p
<1>3. A(p) \in SUBSET (1..Len(p)) /\ A(q) \in SUBSET (1..Len(q)) BY <1>2
<1>4. /\ IsFiniteSet(A(q)) /\ Cardinality(A(q)) \in Nat
      /\ IsFiniteSet(A(p)) /\ Cardinality(A(p)) \in Nat
  <2>1. Len(p) \in Nat BY <1>1
  <2> HIDE DEF A
  <2> QED BY <1>1, <1>3, <2>1, CountPlaces
<1>5. ASSUME \A i \in DOMAIN r : ~IsAck(r[i]) PROVE A(p) = A(q)
  <2>1. ASSUME NEW i \in A(p) PROVE i \in A(q)
    <3>1. i \in 1..Len(p) /\ IsAck(p[i]) BY <1>2
    <3>2. CASE i <= Len(q) BY <1>1, <1>2, <3>1, <3>2
    <3>3. CASE ~(i <= Len(q))
      <4>1. i - Len(q) \in 1..Len(r) /\ p[i] = r[i - Len(q)] BY <1>1, <3>1, <3>3
      <4> QED BY <1>2, <1>5, <3>1, <4>1
    <3> QED BY <3>2, <3>3
  <2>2. ASSUME NEW i \in A(q) PROVE i \in A(p)
    <3>1. i \in 1..Len(q) /\ IsAck(q[i]) BY <1>2
    <3>2. i \in 1..Len(p) /\ p[i] = q[i] BY <1>1, <3>1
    <3> QED BY <1>2, <3>1, <3>2
  <2> QED BY <2>1, <2>2
<1>6. ASSUME \A i \in DOMAIN r : IsAck(r[i]) => i = 1
      PROVE  Cardinality(A(p)) <= Cardinality(A(q)) + 1
  <2>1. ASSUME NEW i \in A(p) PROVE i \in A(q) \union {Len(q) + 1}
    <3>1. i \in 1..Len(p) /\ IsAck(p[i]) BY <1>2
    <3>2. CASE i <= Len(q) BY <1>1, <1>2, <3>1, <3>2
    <3>3. CASE ~(i <= Len(q))
      <4>1. i - Len(q) \in 1..Len(r) /\ p[i] = r[i - Len(q)] BY <1>1, <3>1, <3>3
      <4>2. i - Len(q) = 1 BY <1>2, <1>6, <3>1, <4>1
      <4> QED BY <1>1, <3>1, <4>2
    <3> QED BY <3>2, <3>3
  <2>2. A(p) \subseteq A(q) \union {Len(q) + 1} BY <2>1
  <2> HIDE DEF A
  <2> QED BY <1>4, <2>2, MorePlaces
<1> QED BY <1>4, <1>5, <1>6 DEF Acks, A, p

(* The three parts of a load are numbers.                                  *)
LEMMA LoadParts ==
  ASSUME NEW c \in Seq(Reqs), NEW s \in Seq(Msgs), NEW x
  PROVE  Clicks(c) \in Nat /\ Acks(s) \in Nat /\ Owes(x) \in {0, 1}
<1>1. /\ Len(c) \in Nat /\ DOMAIN c = 1..Len(c) /\ Len(s) \in Nat /\ DOMAIN s = 1..Len(s)
  BY LenProperties
<1> DEFINE C == {i \in DOMAIN c : c[i].op \in Kinds}
           A == {i \in DOMAIN s : IsAck(s[i])}
<1>2. C \in SUBSET (1..Len(c)) /\ A \in SUBSET (1..Len(s)) BY <1>1
<1> HIDE DEF C, A
<1>3. Cardinality(C) \in Nat /\ Cardinality(A) \in Nat BY <1>1, <1>2, CountPlaces
<1> QED BY <1>3 DEF Clicks, Acks, Owes, C, A

(* The three parts of the load of a connection are numbers.                *)
LEMMA LoadFacts ==
  ASSUME TInv, NEW w \in Conns
  PROVE  Clicks(c2s[w]) \in Nat /\ Acks(s2c[w]) \in Nat /\ Owes(wk[w]) \in {0, 1}
BY Here, LoadParts

(* A board sent has its STATE first.                                       *)
LEMMA BoardAcks ==
  ASSUME NEW g \in Games, NEW hand \in Deals
  PROVE  /\ \A i \in DOMAIN Board(g, hand, 1) : IsAck(Board(g, hand, 1)[i]) => i = 1
         /\ \A i \in DOMAIN Board(g, hand, 0) : ~IsAck(Board(g, hand, 0)[i])
<1>1. ASSUME NEW ack \in {0, 1}
      PROVE  /\ DOMAIN Board(g, hand, ack) = {1, 2}
             /\ Board(g, hand, ack)[1] = [op |-> "STATE", st |-> g, ack |-> ack]
             /\ Board(g, hand, ack)[2] = [op |-> "HAND", hand |-> hand]
  <2>1. /\ Board(g, hand, ack) \in Seq(Msgs) /\ Len(Board(g, hand, ack)) = 2
        /\ Board(g, hand, ack)[1] = [op |-> "STATE", st |-> g, ack |-> ack]
        /\ Board(g, hand, ack)[2] = [op |-> "HAND", hand |-> hand]
    BY BoardFacts
  <2>2. DOMAIN Board(g, hand, ack) = 1..2 BY <2>1, LenProperties
  <2> QED BY <2>1, <2>2
<1>2. ~IsAck([op |-> "HAND", hand |-> hand]) BY DEF IsAck
<1>3. ~IsAck([op |-> "STATE", st |-> g, ack |-> 0]) BY DEF IsAck
<1> QED BY <1>1, <1>2, <1>3

(* Steps that send no answer to a click, and take on none.                 *)
LEMMA LoadQuiet ==
  ASSUME TInv, NEW w \in Conns,
         c2s'[w] = c2s[w] \/ (c2s[w] # <<>> /\ c2s'[w] = Tail(c2s[w])),
         \/ s2c'[w] = s2c[w]
         \/ \E msgs \in Seq(Msgs) : /\ s2c'[w] = s2c[w] \o msgs
                                    /\ \A i \in DOMAIN msgs : ~IsAck(msgs[i]),
         Owes(wk'[w]) <= Owes(wk[w])
  PROVE  Load(w)' <= Load(w)
<1>1. /\ Clicks(c2s[w]) \in Nat /\ Acks(s2c[w]) \in Nat /\ Owes(wk[w]) \in {0, 1}
      /\ c2s[w] \in Seq(Reqs) /\ s2c[w] \in Seq(Msgs)
  BY LoadFacts, Here
<1>2. Clicks(c2s'[w]) \in Int /\ Clicks(c2s'[w]) <= Clicks(c2s[w]) BY <1>1, TailCounts
<1>3. Acks(s2c'[w]) = Acks(s2c[w]) BY <1>1, ConcatCount
<1>4. Owes(wk'[w]) \in {0, 1} BY DEF Owes
<1> QED BY <1>1, <1>2, <1>3, <1>4 DEF Load

(* Steps of the worker of the client's connection.                         *)
LEMMA Popped ==
  ASSUME TInv, NEW w \in Conns, c2s[w] # <<>>, Pop(w)
  PROVE  c2s'[w] = Tail(c2s[w])
BY DEF Pop, TInv, Types

(* The handshake adds no load.                                             *)
LEMMA HsLoad ==
  ASSUME TInv, NEW w \in Conns, w \in up, HsLogin(w) \/ HsFull(w) \/ HsResume(w) \/ HsOther(w)
  PROVE  Load(w)' <= Load(w)
<1>1. c2s[w] # <<>> /\ wk[w].pc = "hs" /\ Pop(w)
  BY DEF HsLogin, HsFull, HsResume, HsOther, Packet
<1>2. c2s'[w] = Tail(c2s[w]) BY <1>1, Popped
<1>3. Owes(wk[w]) = 0 BY <1>1 DEF Owes
<1>4. CASE HsLogin(w)
  <2>1. wk'[w].pc = "save_st" /\ wk'[w].then = "hello" /\ s2c' = s2c
    BY <1>4 DEF HsLogin, TInv, Types
  <2>2. Owes(wk'[w]) = 0 BY <2>1 DEF Owes
  <2> QED BY <1>1, <1>2, <1>3, <2>1, <2>2, LoadQuiet
<1>7. CASE HsFull(w)
  <2>1. wk'[w].pc = "done" /\ s2c' = s2c BY <1>7 DEF HsFull, TInv, Types, WorkRec
  <2>2. Owes(wk'[w]) = 0 BY <2>1 DEF Owes
  <2> QED BY <1>1, <1>2, <1>3, <2>1, <2>2, LoadQuiet
<1>5. CASE HsOther(w)
  <2>1. wk' = wk /\ s2c' = s2c BY <1>5 DEF HsOther, srvVars
  <2> QED BY <1>1, <1>2, <1>3, <2>1, LoadQuiet
<1>6. CASE HsResume(w)
  <2> DEFINE sid == Head(c2s[w]).sid
             no == << [op |-> "RESUME_RESP", ok |-> FALSE, sid |-> 0] >>
  <2>1. CASE store[sid].valid
    <3>1. wk' = [wk EXCEPT ![w] = [wk[w] EXCEPT !.pc = "load_hand", !.sid = sid,
                                                !.st = store[sid].st]] /\ s2c' = s2c
      BY <1>6, <2>1 DEF HsResume
    <3> HIDE DEF sid
    <3>2. wk[w] \in WorkRec BY Here
    <3>3. wk'[w].pc = "load_hand" BY <3>1, <3>2 DEF WorkRec, TInv, Types
    <3>4. Owes(wk'[w]) <= Owes(wk[w]) /\ s2c'[w] = s2c[w] BY <1>3, <3>1, <3>3 DEF Owes
    <3> QED BY <1>1, <1>2, <3>4, LoadQuiet
  <2>2. CASE ~store[sid].valid
    <3>1. Send(w, no, wk[w], "hs") BY <1>6, <2>2 DEF HsResume
    <3>2. s2c' = [s2c EXCEPT ![w] = s2c[w] \o no] /\ wk' = [wk EXCEPT ![w] = [wk[w] EXCEPT !.pc = "hs"]]
      BY <3>1 DEF Send
    <3>3. no \in Seq(Msgs) /\ \A i \in DOMAIN no : ~IsAck(no[i])
      <4>1. [op |-> "RESUME_RESP", ok |-> FALSE, sid |-> 0] \in Msgs
        BY SessionsAssumption DEF Answers, Msgs
      <4>2. ~IsAck([op |-> "RESUME_RESP", ok |-> FALSE, sid |-> 0]) BY DEF IsAck
      <4>3. ASSUME NEW a \in Msgs, ~IsAck(a)
            PROVE  <<a>> \in Seq(Msgs) /\ \A i \in DOMAIN <<a>> : ~IsAck(<<a>>[i])
        <5>1. DOMAIN <<a>> = {1} /\ <<a>>[1] = a OBVIOUS
        <5> QED BY <4>3, <5>1
      <4> QED BY <4>1, <4>2, <4>3
    <3> HIDE DEF no
    <3>4. s2c'[w] = s2c[w] \o no BY <3>2 DEF TInv, Types
    <3>5. wk[w] \in WorkRec BY Here
    <3>6. wk'[w].pc = "hs" BY <3>2, <3>5 DEF WorkRec, TInv, Types
    <3>7. Owes(wk'[w]) <= Owes(wk[w]) BY <1>3, <3>6 DEF Owes
    <3> QED BY <1>1, <1>2, <3>3, <3>4, <3>7, LoadQuiet
  <2> QED BY <2>1, <2>2
<1> QED BY <1>4, <1>5, <1>6, <1>7

(* Saving, loading and stopping add no load.                               *)
LEMMA KeepLoad ==
  ASSUME TInv, NEW w \in Conns, w \in up,
         LoadHand(w) \/ SaveSt(w) \/ SaveHand(w) \/ WorkerEof(w) \/ Kill(w)
  PROVE  Load(w)' <= Load(w)
<1>1. c2s' = c2s /\ s2c' = s2c
  BY DEF LoadHand, SaveSt, SaveHand, WorkerEof, Kill, netVars
<1>2. wk[w] \in WorkRec /\ wk \in [Conns -> WorkRec] BY Here DEF TInv, Types
<1>3. Owes(wk'[w]) <= Owes(wk[w])
  <2>1. CASE LoadHand(w)
    <3>1. wk'[w].pc = "hello" BY <1>2, <2>1 DEF LoadHand, WorkRec
    <3> QED BY <3>1 DEF Owes
  <2>2. CASE WorkerEof(w) \/ Kill(w)
    <3>1. wk'[w].pc = "done" BY <1>2, <2>2 DEF WorkerEof, Kill, WorkRec
    <3> QED BY <3>1 DEF Owes
  <2>3. CASE SaveSt(w) \/ SaveHand(w)
    <3>1. wk[w].pc \in {"save_st", "save_hand"} BY <2>3 DEF SaveSt, SaveHand
    <3>2. wk'[w].then = wk[w].then /\ (wk'[w].pc = "save_hand" \/ wk'[w].pc = wk[w].then)
      BY <1>2, <2>3 DEF SaveSt, SaveHand, WorkRec
    <3>3. wk[w].then \in {"none", "hello", "recv", "reply", "ai"} BY <1>2 DEF WorkRec
    <3> QED BY <3>1, <3>2, <3>3 DEF Owes
  <2> QED BY <2>1, <2>2, <2>3
<1> QED BY <1>1, <1>3, LoadQuiet

(* The board of the handshake answers no click.                            *)
LEMMA HelloLoad ==
  ASSUME TInv, NEW w \in Conns, w \in up, Hello(w)
  PROVE  Load(w)' <= Load(w)
<1> DEFINE a == [op |-> "RESUME_RESP", ok |-> TRUE, sid |-> wk[w].sid]
           b == Board(wk[w].st, wk[w].hand, 0)
<1>1. /\ Send(w, <<a>> \o b, wk[w], LoopPc(wk[w].st)) /\ c2s' = c2s BY DEF Hello
<1>2. a \in Msgs /\ b \in Seq(Msgs) /\ ~IsAck(a) /\ \A i \in DOMAIN b : ~IsAck(b[i])
  <2>1. a \in Answers BY Here DEF Answers
  <2>2. ~IsAck(a) BY DEF IsAck
  <2> QED BY <2>1, <2>2, Here, BoardFacts, BoardAcks DEF Msgs
<1> HIDE DEF a, b
<1>3. <<a>> \in Seq(Msgs) /\ Len(<<a>>) = 1 /\ <<a>>[1] = a BY <1>2
<1>4. <<a>> \o b \in Seq(Msgs) /\ \A i \in DOMAIN (<<a>> \o b) : ~IsAck((<<a>> \o b)[i])
  <2>1. /\ <<a>> \o b \in Seq(Msgs) /\ Len(<<a>> \o b) = 1 + Len(b) /\ Len(b) \in Nat
        /\ DOMAIN (<<a>> \o b) = 1..(1 + Len(b)) /\ DOMAIN b = 1..Len(b)
        /\ \A i \in 1..(1 + Len(b)) : (<<a>> \o b)[i] = IF i <= 1 THEN <<a>>[i] ELSE b[i - 1]
    BY <1>2, <1>3, ConcatProperties, LenProperties
  <2>2. ASSUME NEW i \in 1..(1 + Len(b)) PROVE ~IsAck((<<a>> \o b)[i])
    <3>1. CASE i = 1 BY <1>2, <1>3, <2>1, <3>1
    <3>2. CASE i # 1
      <4>1. i - 1 \in 1..Len(b) /\ ~(i <= 1) BY <2>1, <3>2
      <4> QED BY <1>2, <2>1, <4>1
    <3> QED BY <3>1, <3>2
  <2> QED BY <2>1, <2>2
<1>5. /\ s2c' = [s2c EXCEPT ![w] = s2c[w] \o (<<a>> \o b)]
      /\ wk' = [wk EXCEPT ![w] = [wk[w] EXCEPT !.pc = LoopPc(wk[w].st)]]
  BY <1>1 DEF Send
<1>6. s2c'[w] = s2c[w] \o (<<a>> \o b) BY <1>5 DEF TInv, Types
<1>7. wk[w] \in WorkRec BY Here
<1>8. wk'[w].pc \in {"recv", "ai_entry"} BY <1>5, <1>7 DEF WorkRec, TInv, Types, LoopPc
<1>9. Owes(wk'[w]) <= Owes(wk[w]) BY <1>8 DEF Owes
<1> QED BY <1>1, <1>4, <1>6, <1>9, LoadQuiet

(* A board in the main loop answers one click: the one owed, or the one    *)
(* read.                                                                   *)
LEMMA AnswerLoad ==
  ASSUME TInv, NEW w \in Conns, w \in up, RecvOver(w) \/ ReplyBoard(w)
  PROVE  Load(w)' <= Load(w)
<1> DEFINE b == Board(wk[w].st, wk[w].hand, 1)
<1>1. b \in Seq(Msgs) /\ \A i \in DOMAIN b : IsAck(b[i]) => i = 1 BY Here, BoardFacts, BoardAcks
<1>2. PICK next \in {"recv", "ai_entry"} : Send(w, b, wk[w], next)
  BY DEF RecvOver, ReplyBoard, LoopPc
<1> HIDE DEF b
<1>3. /\ s2c' = [s2c EXCEPT ![w] = s2c[w] \o b]
      /\ wk' = [wk EXCEPT ![w] = [wk[w] EXCEPT !.pc = next]]
  BY <1>2 DEF Send
<1>4. /\ Clicks(c2s[w]) \in Nat /\ Acks(s2c[w]) \in Nat /\ Owes(wk[w]) \in {0, 1}
      /\ c2s[w] \in Seq(Reqs) /\ s2c[w] \in Seq(Msgs) /\ wk[w] \in WorkRec
  BY LoadFacts, Here
<1>5. s2c'[w] = s2c[w] \o b /\ wk'[w].pc = next BY <1>3, <1>4, SMTT(60) DEF WorkRec, TInv, Types
<1>6. Acks(s2c'[w]) \in Nat /\ Acks(s2c'[w]) <= Acks(s2c[w]) + 1 BY <1>1, <1>4, <1>5, ConcatCount
<1>7. Owes(wk'[w]) = 0 BY <1>5 DEF Owes
<1>8. CASE RecvOver(w)
  <2>1. c2s[w] # <<>> /\ Head(c2s[w]).op \in Kinds /\ Pop(w) BY <1>8 DEF RecvOver, Packet
  <2>2. c2s'[w] = Tail(c2s[w]) BY <2>1, Popped
  <2>3. Clicks(c2s'[w]) = Clicks(c2s[w]) - 1 BY <1>4, <2>1, <2>2, TailCounts
  <2> QED BY <1>4, <1>6, <1>7, <2>3 DEF Load
<1>9. CASE ReplyBoard(w)
  <2>1. Owes(wk[w]) = 1 /\ c2s' = c2s BY <1>9 DEF ReplyBoard, Owes
  <2> QED BY <1>4, <1>6, <1>7, <2>1 DEF Load
<1> QED BY <1>8, <1>9

(* A click that is read becomes the answer the worker owes.                *)
LEMMA GameLoad ==
  ASSUME TInv, NEW w \in Conns, w \in up, AiOnEntry(w) \/ AiTurn(w) \/ RecvPlay(w) \/ RecvEndTurn(w)
  PROVE  Load(w)' <= Load(w)
<1>1. /\ Clicks(c2s[w]) \in Nat /\ Acks(s2c[w]) \in Nat /\ Owes(wk[w]) \in {0, 1}
      /\ c2s[w] \in Seq(Reqs) /\ s2c[w] \in Seq(Msgs) /\ wk[w] \in WorkRec
  BY LoadFacts, Here
<1>2. ASSUME NEW st, NEW then, SaveThen(w, st, then)
      PROVE  wk'[w].pc = "save_st" /\ wk'[w].then = then
  BY <1>1, <1>2 DEF SaveThen, WorkRec, TInv, Types
<1>3. CASE AiOnEntry(w)
  <2>1. wk'[w].pc = "save_st" /\ wk'[w].then = "recv" /\ c2s' = c2s /\ s2c' = s2c
    BY <1>2, <1>3 DEF AiOnEntry, netVars
  <2>2. Owes(wk'[w]) = 0 BY <2>1 DEF Owes
  <2> QED BY <1>1, <2>1, <2>2, LoadQuiet
<1>4. CASE AiTurn(w)
  <2>1. c2s' = c2s /\ s2c' = s2c /\ wk[w].pc = "ai" BY <1>4 DEF AiTurn, netVars
  <2>2. Owes(wk'[w]) <= Owes(wk[w]) BY <2>1 DEF Owes
  <2> QED BY <1>1, <2>1, <2>2, LoadQuiet
<1>5. CASE RecvPlay(w) \/ RecvEndTurn(w)
  <2>1. /\ c2s[w] # <<>> /\ Head(c2s[w]).op \in Kinds /\ Pop(w) /\ s2c' = s2c /\ wk[w].pc = "recv"
    BY <1>5 DEF RecvPlay, RecvEndTurn, Packet, Kinds
  <2>2. c2s'[w] = Tail(c2s[w]) BY <2>1, Popped
  <2>3. Clicks(c2s'[w]) = Clicks(c2s[w]) - 1 BY <1>1, <2>1, <2>2, TailCounts
  <2>4. Owes(wk[w]) = 0 /\ Owes(wk'[w]) \in {0, 1} BY <2>1 DEF Owes
  <2> QED BY <1>1, <2>1, <2>3, <2>4 DEF Load
<1> QED BY <1>3, <1>4, <1>5

(* No step of a worker makes the load larger.                              *)
LEMMA WorkerWait ==
  ASSUME TInv, WaitInv, NEW w \in Conns, WorkerStep(w) \/ Kill(w)
  PROVE  WaitInv'
<1>1. Effect(w) BY WorkerEffect
<1>2. cl' = cl /\ up' = up /\ Reads(w) /\ Writes(w) BY <1>1 DEF Effect, Stays
<1>3. PICK x \in WorkRec : wk' = [wk EXCEPT ![w] = x] BY <1>1 DEF Effect, Becomes
<1>4. CASE cl.cur = 0 BY <1>2, <1>4 DEF WaitInv
<1>5. CASE cl.cur # 0 /\ cl.cur # w
  <2>1. cl.cur \in Conns /\ up = {cl.cur} BY <1>5, ClientHere
  <2>2. wk'[cl.cur] = wk[cl.cur] /\ c2s'[cl.cur] = c2s[cl.cur] /\ s2c'[cl.cur] = s2c[cl.cur]
    BY <1>2, <1>3, <1>5, <2>1 DEF Reads, Writes, TInv, Types
  <2>3. Load(cl.cur)' = Load(cl.cur) BY <1>2, <2>2 DEF Load
  <2> QED BY <1>2, <1>5, <2>3 DEF WaitInv
<1>6. CASE cl.cur # 0 /\ cl.cur = w
  <2>1. w \in up BY <1>6, ClientHere
  <2>2. Load(w)' <= Load(w)
    BY <2>1, HsLoad, KeepLoad, HelloLoad, AnswerLoad, GameLoad DEF WorkerStep
  <2>3. Load(w) <= cl.waiting BY <1>6 DEF WaitInv
  <2>4. Load(w) \in Int /\ cl.waiting \in Int BY LoadFacts, ClientHere DEF Load
  <2>5. Load(w)' \in Int
    <3>1. c2s'[w] \in Seq(Reqs) /\ s2c'[w] \in Seq(Msgs) BY WorkerEffect DEF TInv, Types
    <3>2. Clicks(c2s'[w]) \in Nat /\ Acks(s2c'[w]) \in Nat /\ Owes(wk'[w]) \in {0, 1}
      BY <3>1, LoadParts
    <3> QED BY <3>2 DEF Load
  <2>6. Load(w)' <= cl.waiting BY <2>2, <2>3, <2>4, <2>5
  <2> QED BY <1>2, <1>6, <2>6 DEF WaitInv, Load
<1> QED BY <1>4, <1>5, <1>6

(* The steps of the client.                                                *)
LEMMA NetSendWait ==
  ASSUME TInv, WaitInv, NetSend
  PROVE  WaitInv'
<1> DEFINE w == cl.cur
<1>1. /\ w # 0 /\ w \in Conns /\ c2s[w] \in Seq(Reqs) /\ Head(pipe) \in Reqs
      /\ cl'.cur = w /\ cl'.waiting = cl.waiting + 1 /\ wk' = wk /\ s2c' = s2c
      /\ c2s' = c2s \/ c2s' = [c2s EXCEPT ![w] = Append(c2s[w], Head(pipe))]
  BY NetSendFacts DEF srvVars
<1> HIDE DEF w
<1>2. Clicks(c2s[w]) \in Nat /\ Acks(s2c[w]) \in Nat /\ Owes(wk[w]) \in {0, 1} /\ cl.waiting \in Int
  BY <1>1, LoadFacts, ClientHere
<1>3. Clicks(c2s'[w]) \in Nat /\ Clicks(c2s'[w]) <= Clicks(c2s[w]) + 1
  <2>1. CASE c2s' = c2s BY <1>2, <2>1
  <2>2. CASE c2s' = [c2s EXCEPT ![w] = Append(c2s[w], Head(pipe))]
    <3>1. c2s'[w] = Append(c2s[w], Head(pipe)) BY <1>1, <2>2 DEF TInv, Types
    <3> QED BY <1>1, <3>1, AppendCount
  <2> QED BY <1>1, <2>1, <2>2
<1>4. Load(w) <= cl.waiting BY <1>1 DEF WaitInv, w
<1>5. Clicks(c2s'[w]) + Acks(s2c'[w]) + Owes(wk'[w]) <= cl.waiting + 1
  BY <1>1, <1>2, <1>3, <1>4 DEF Load
<1> QED BY <1>1, <1>5 DEF WaitInv, Load

(* A board that answers a click is one of those counted.                   *)
LEMMA OnStateWait ==
  ASSUME TInv, WaitInv, OnState
  PROVE  WaitInv'
<1> DEFINE w == cl.cur
           m == Head(s2c[w])
<1>1. /\ w # 0 /\ w \in Conns /\ s2c[w] # <<>> /\ s2c[w] \in Seq(Msgs) /\ m.op = "STATE"
  BY IncomingFacts DEF OnState
<1>2. m.ack \in {0, 1} /\ cl'.cur = w /\ cl'.waiting = cl.waiting - m.ack BY OnStateFacts
<1>3. wk' = wk /\ c2s' = c2s /\ s2c'[w] = Tail(s2c[w])
  BY <1>1 DEF OnState, Taken, srvVars, TInv, Types
<1> HIDE DEF w
<1>4. Clicks(c2s[w]) \in Nat /\ Acks(s2c[w]) \in Nat /\ Owes(wk[w]) \in {0, 1} /\ cl.waiting \in Int
  BY <1>1, LoadFacts, ClientHere
<1>5. Acks(s2c'[w]) = IF IsAck(m) THEN Acks(s2c[w]) - 1 ELSE Acks(s2c[w])
  BY <1>1, <1>3, TailCounts
<1>6. IsAck(m) <=> m.ack = 1 BY <1>1 DEF IsAck
<1> HIDE DEF m
<1>7. Acks(s2c'[w]) = Acks(s2c[w]) - m.ack BY <1>2, <1>4, <1>5, <1>6
<1>8. Load(w) <= cl.waiting BY <1>1 DEF WaitInv, w
<1>9. Clicks(c2s'[w]) + Acks(s2c'[w]) + Owes(wk'[w]) <= cl.waiting - m.ack
  BY <1>2, <1>3, <1>4, <1>7, <1>8 DEF Load
<1> QED BY <1>1, <1>2, <1>9 DEF WaitInv, Load

(* The other packets are no acknowledgement.                               *)
LEMMA TakenWait ==
  ASSUME TInv, WaitInv, cl.cur # 0, s2c[cl.cur] # <<>>, ~IsAck(Head(s2c[cl.cur])), Taken,
         wk' = wk, c2s' = c2s, cl'.cur = cl.cur, cl'.waiting = cl.waiting
  PROVE  WaitInv'
<1>1. cl.cur \in Conns BY ClientHere
<1>2. s2c[cl.cur] \in Seq(Msgs) BY <1>1, Here
<1>3. s2c'[cl.cur] = Tail(s2c[cl.cur]) BY <1>1 DEF Taken, TInv, Types
<1>4. Acks(s2c'[cl.cur]) = Acks(s2c[cl.cur]) BY <1>2, <1>3, TailCounts
<1> QED BY <1>4 DEF WaitInv, Load

(* A new connection starts without load.                                   *)
LEMMA ConnectWait ==
  ASSUME TInv, WaitInv, Connect
  PROVE  WaitInv'
<1> DEFINE w == nconn + 1
<1>1. /\ w \in Conns /\ cl.cur = 0 /\ wk[w].pc = "none"
      /\ wk' = [wk EXCEPT ![w] = [wk[w] EXCEPT !.pc = "hs"]]
      /\ Asks.op \notin Kinds /\ c2s' = [c2s EXCEPT ![w] = <<Asks>>] /\ s2c' = s2c
      /\ cl' = [cl EXCEPT !.cur = w]
  BY ConnectFacts
<1> HIDE DEF w
<1>2. /\ cl'.cur = w /\ cl'.waiting = cl.waiting /\ cl.waiting = 0 /\ w # 0
  BY <1>1, ClientHere DEF ClientRec, WaitInv
<1>3. s2c[w] = <<>> BY <1>1, <1>2 DEF TInv, ConnInv
<1>4. Acks(<<>>) = 0
  <2>1. {i \in DOMAIN <<>> : IsAck(<<>>[i])} = {} OBVIOUS
  <2> QED BY <2>1, FS_EmptySet DEF Acks
<1>5. Clicks(<<Asks>>) = 0
  <2>1. ASSUME NEW a, a.op \notin Kinds PROVE {i \in DOMAIN <<a>> : <<a>>[i].op \in Kinds} = {}
    <3>1. DOMAIN <<a>> = {1} /\ <<a>>[1] = a OBVIOUS
    <3> QED BY <2>1, <3>1
  <2>2. {i \in DOMAIN <<Asks>> : <<Asks>>[i].op \in Kinds} = {} BY <1>1, <2>1
  <2> QED BY <2>2, FS_EmptySet DEF Clicks
<1>6. c2s'[w] = <<Asks>> /\ s2c'[w] = <<>> BY <1>1, <1>3 DEF TInv, Types
<1>7. wk[w] \in WorkRec BY <1>1, Here
<1>8. wk'[w].pc = "hs" BY <1>1, <1>7 DEF WorkRec, TInv, Types
<1>9. Owes(wk'[w]) = 0 BY <1>8 DEF Owes
<1>10. Clicks(c2s'[w]) + Acks(s2c'[w]) + Owes(wk'[w]) = 0 BY <1>4, <1>5, <1>6, <1>9
<1> QED BY <1>2, <1>10 DEF WaitInv, Load

(* Every step keeps the load within the counter of the client.             *)
LEMMA WaitStep ==
  ASSUME TInv, WaitInv, [Next]_vars
  PROVE  WaitInv'
<1>1. ASSUME NEW w \in Conns, WorkerStep(w) \/ Kill(w) PROVE WaitInv' BY <1>1, WorkerWait
<1>2. CASE Connect BY <1>2, ConnectWait
<1>3. ASSUME NEW c \in ClientRec, cl.cur # 0, Close(c) PROVE WaitInv'
  <2>1. cl'.cur = 0 /\ cl'.waiting = 0 BY <1>3, CloseFacts
  <2> QED BY <2>1 DEF WaitInv
<1>4. CASE ConnLost \/ ClientEof BY <1>3, <1>4, ClientHere DEF ConnLost, ClientEof
<1>5. CASE OnResumeResp
  <2> DEFINE m == Head(s2c[cl.cur])
  <2>1. cl.cur # 0 /\ s2c[cl.cur] # <<>> /\ m.op = "RESUME_RESP" BY <1>5 DEF OnResumeResp, Incoming
  <2>2. CASE m.ok
    <3>1. Taken /\ cl' = [cl EXCEPT !.sid = m.sid] /\ c2s' = c2s /\ wk' = wk
      BY <1>5, <2>2 DEF OnResumeResp, srvVars
    <3>2. ~IsAck(m) BY <2>1 DEF IsAck
    <3> HIDE DEF m
    <3>3. cl'.cur = cl.cur /\ cl'.waiting = cl.waiting BY <3>1, ClientHere DEF ClientRec
    <3> QED BY <2>1, <3>1, <3>2, <3>3, TakenWait DEF m
  <2>3. CASE ~m.ok
    <3>1. Close([cl EXCEPT !.sid = 0]) BY <1>5, <2>3 DEF OnResumeResp
    <3>2. [cl EXCEPT !.sid = 0] \in ClientRec BY ClientHere, SessionsAssumption DEF ClientRec
    <3> QED BY <1>3, <2>1, <3>1, <3>2
  <2> QED BY <2>2, <2>3
<1>6. CASE OnState BY <1>6, OnStateWait
<1>7. CASE OnHand
  <2>1. cl.cur # 0 /\ s2c[cl.cur] # <<>> /\ Head(s2c[cl.cur]).op = "HAND"
    BY <1>7 DEF OnHand, Incoming
  <2>2. ~IsAck(Head(s2c[cl.cur])) BY <2>1 DEF IsAck
  <2>3. cl'.cur = cl.cur /\ cl'.waiting = cl.waiting BY <1>7, OnHandFacts
  <2>4. Taken /\ c2s' = c2s /\ wk' = wk BY <1>7 DEF OnHand, srvVars
  <2> QED BY <2>1, <2>2, <2>3, <2>4, TakenWait
<1>8. CASE NetSend BY <1>8, NetSendWait
<1>9. ASSUME UNCHANGED <<srvVars, netVars>>, cl'.cur = cl.cur, cl'.waiting = cl.waiting
      PROVE  WaitInv'
  <2>1. wk' = wk /\ c2s' = c2s /\ s2c' = s2c BY <1>9 DEF srvVars, netVars
  <2> QED BY <1>9, <2>1 DEF WaitInv, Load
<1>10. CASE PressEndTurn \/ PressSelected
  <2>1. PICK op \in Kinds : Command(op) BY <1>10 DEF PressEndTurn, PressSelected, Kinds
  <2> QED BY <1>9, <2>1, CommandFacts
<1>11. ASSUME NEW sel \in BOOLEAN, PressOther(sel) PROVE WaitInv'
  <2>1. cl' = [cl EXCEPT !.selected = sel] /\ UNCHANGED <<srvVars, netVars>> BY <1>11 DEF PressOther
  <2>2. cl'.cur = cl.cur /\ cl'.waiting = cl.waiting BY <2>1, ClientHere DEF ClientRec
  <2> QED BY <1>9, <2>1, <2>2
<1>12. CASE GuiEnds
  <2> DEFINE c == [cl EXCEPT !.running = FALSE]
  <2>1. /\ c \in ClientRec /\ c.cur = cl.cur /\ c.waiting = cl.waiting
        /\ UNCHANGED <<srvVars, bounds>>
    BY <1>12, GuiEndsFacts
  <2>2. CASE cl.cur # 0
    <3>1. Close(c) BY <1>12, <2>2 DEF GuiEnds
    <3> HIDE DEF c
    <3> QED BY <1>3, <2>1, <2>2, <3>1
  <2>3. CASE cl.cur = 0
    <3>1. cl' = c /\ UNCHANGED netVars BY <1>12, <2>3 DEF GuiEnds
    <3> HIDE DEF c
    <3> QED BY <1>9, <2>1, <3>1
  <2> QED BY <2>2, <2>3
<1>13. CASE Restart
  <2>1. cl' = cl /\ wk' = wk /\ c2s' = c2s /\ s2c' = s2c BY <1>13 DEF Restart, netVars
  <2> QED BY <2>1 DEF WaitInv, Load
<1>14. CASE UNCHANGED vars BY <1>9, <1>14 DEF vars, srvVars, netVars
<1> QED BY <1>1, <1>2, <1>4, <1>5, <1>6, <1>7, <1>8, <1>10, <1>11, <1>12, <1>13, <1>14
        DEF Next, ClientStep

(* The load of the connection is within the counter, always.               *)
LEMMA WaitInvariance == Spec => [](TInv /\ WaitInv)
<1>1. Init => TInv /\ WaitInv
  <2>1. Init => cl.cur = 0 /\ cl.waiting = 0 BY DEF Init
  <2> QED BY <2>1, InitTypes DEF WaitInv
<1>2. (TInv /\ WaitInv) /\ [Next]_vars => (TInv /\ WaitInv)' BY TypesStep, WaitStep
<1> QED BY <1>1, <1>2, PTL DEF Spec

(* The types and ranges of the composed state; above all, the client never *)
(* counts more answers than clicks it has sent on the connection.          *)
THEOREM TypeCorrect == Spec => []TypeOK
<1>1. TInv /\ WaitInv => TypeOK
  <2> SUFFICES ASSUME TInv, WaitInv PROVE TypeOK OBVIOUS
  <2>1. \A s \in Conns : store[s].valid \in BOOLEAN /\ store[s].st \in Games
    BY Here DEF StoreRec
  <2>2. \A w \in Conns : wk[w].st \in Games /\ wk[w].sid \in 0..MaxConns BY Here
  <2>3. cl.waiting \in Nat
    <3>1. CASE cl.cur = 0 BY <3>1 DEF WaitInv
    <3>2. CASE cl.cur # 0
      <4>1. cl.cur \in Conns /\ cl.waiting \in Int BY <3>2, ClientHere
      <4>2. /\ Clicks(c2s[cl.cur]) \in Nat /\ Acks(s2c[cl.cur]) \in Nat
            /\ Owes(wk[cl.cur]) \in {0, 1}
        BY <4>1, LoadFacts
      <4>3. Load(cl.cur) <= cl.waiting BY <3>2 DEF WaitInv
      <4> QED BY <4>1, <4>2, <4>3 DEF Load
    <3> QED BY <3>1, <3>2
  <2> QED BY <2>1, <2>2, <2>3, ClientHere DEF TypeOK, TInv, Types
<1> QED BY <1>1, WaitInvariance, PTL
-----------------------------------------------------------------------------
(* What each step of a worker does, field by field.                        *)

(* A prefix, place by place.                                               *)
LEMMA PrefixMeans ==
  ASSUME NEW s \in Seq(Entries), NEW t \in Seq(Entries)
  PROVE  IsPrefix(s, t) <=> Len(s) <= Len(t) /\ \A i \in 1..Len(s) : s[i] = t[i]
<1>1. Len(s) \in Nat /\ Len(t) \in Nat BY LenProperties
<1>2. SUFFICES ASSUME Len(s) <= Len(t)
      PROVE  SubSeq(s, 1, Len(s)) = SubSeq(t, 1, Len(s)) <=> \A i \in 1..Len(s) : s[i] = t[i]
  BY DEF IsPrefix
<1> DEFINE n == Len(s)
           a == SubSeq(s, 1, n)
           b == SubSeq(t, 1, n)
<1>3. \A i \in 1..n : s[i] \in Entries /\ t[i] \in Entries
  <2>1. \A i \in 1..n : i \in 1..Len(t) BY <1>1, <1>2
  <2> QED BY <2>1, ElementOfSeq
<1>4. /\ a \in Seq(Entries) /\ Len(a) = (IF 1 <= n THEN n - 1 + 1 ELSE 0)
      /\ \A i \in 1..(n - 1 + 1) : a[i] = s[1 + i - 1]
  BY <1>1, <1>3, SubSeqProperties
<1>5. /\ b \in Seq(Entries) /\ Len(b) = (IF 1 <= n THEN n - 1 + 1 ELSE 0)
      /\ \A i \in 1..(n - 1 + 1) : b[i] = t[1 + i - 1]
  BY <1>1, <1>3, SubSeqProperties
<1> HIDE DEF a, b
<1>6. n \in Nat BY <1>1
<1> HIDE DEF n
<1>7. n - 1 + 1 = n /\ \A i \in 1..n : 1 + i - 1 = i BY <1>6
<1>8. Len(a) = n /\ Len(b) = n /\ \A i \in 1..n : a[i] = s[i] /\ b[i] = t[i]
  BY <1>4, <1>5, <1>6, <1>7
<1>9. a = b <=> \A i \in 1..n : a[i] = b[i] BY <1>4, <1>5, <1>8, SeqEqual
<1> QED BY <1>8, <1>9 DEF a, b, n

(* NotBefore is an order on games, and an executed command goes up in it.  *)
LEMMA NotBeforeRefl == \A a \in Games : NotBefore(a, a)
<1> SUFFICES ASSUME NEW a \in Games PROVE NotBefore(a, a) OBVIOUS
<1>1. a.log \in Seq(Entries) /\ a.deal[2] \in Nat /\ a.over \in {0, 1} BY GameFields
<1>2. IsPrefix(a.log, a.log) BY <1>1, PrefixMeans, LenProperties
<1> QED BY <1>1, <1>2 DEF NotBefore

(* NotBefore is transitive.                                                *)
LEMMA NotBeforeTrans ==
  ASSUME NEW a \in Games, NEW b \in Games, NEW c \in Games, NotBefore(a, b), NotBefore(b, c)
  PROVE  NotBefore(a, c)
<1>1. /\ a.log \in Seq(Entries) /\ b.log \in Seq(Entries) /\ c.log \in Seq(Entries)
      /\ a.deal[2] \in Nat /\ b.deal[2] \in Nat /\ c.deal[2] \in Nat
      /\ a.over \in {0, 1} /\ b.over \in {0, 1} /\ c.over \in {0, 1}
  BY GameFields
<1>2. Len(a.log) \in Nat /\ Len(b.log) \in Nat /\ Len(c.log) \in Nat BY <1>1, LenProperties
<1>3. Len(a.log) <= Len(b.log) /\ \A i \in 1..Len(a.log) : a.log[i] = b.log[i]
  BY <1>1, PrefixMeans DEF NotBefore
<1>4. Len(b.log) <= Len(c.log) /\ \A i \in 1..Len(b.log) : b.log[i] = c.log[i]
  BY <1>1, PrefixMeans DEF NotBefore
<1>5. \A i \in 1..Len(a.log) : i \in 1..Len(b.log) BY <1>2, <1>3
<1>6. Len(a.log) <= Len(c.log) /\ \A i \in 1..Len(a.log) : a.log[i] = c.log[i]
  BY <1>2, <1>3, <1>4, <1>5
<1>7. IsPrefix(a.log, c.log) BY <1>1, <1>6, PrefixMeans
<1>8. a.deal[2] <= c.deal[2] /\ a.over <= c.over BY <1>1, SMTT(60) DEF NotBefore
<1> QED BY <1>7, <1>8 DEF NotBefore

(* A game that has grown, its log by at most one click, comes after.       *)
LEMMA GrownNotBefore ==
  ASSUME NEW a \in Games, NEW b, Grown(a, b), NEW e \in Entries,
         b.log = a.log \/ b.log = Append(a.log, e)
  PROVE  NotBefore(a, b)
<1>1. b \in Games /\ a.deal[2] <= b.deal[2] /\ a.over <= b.over BY DEF Grown
<1>2. a.log \in Seq(Entries) /\ b.log \in Seq(Entries) BY <1>1, GameFields
<1>3. CASE b.log = a.log
  <2>1. IsPrefix(a.log, b.log) BY <1>2, <1>3, PrefixMeans, LenProperties
  <2> QED BY <1>1, <2>1 DEF NotBefore
<1>4. CASE b.log = Append(a.log, e)
  <2>1. Len(b.log) = Len(a.log) + 1 /\ \A i \in 1..Len(a.log) : b.log[i] = a.log[i]
    BY <1>2, <1>4, AppendProperties
  <2>2. Len(a.log) <= Len(b.log) BY <1>2, <2>1, LenProperties
  <2>3. IsPrefix(a.log, b.log) BY <1>2, <2>1, <2>2, PrefixMeans
  <2> QED BY <1>1, <2>3 DEF NotBefore
<1> QED BY <1>3, <1>4

(* The other workers, and the other sessions, stay.                        *)
Only(w)   == \A v \in Conns : v # w => wk'[v] = wk[v] /\ s2c'[v] = s2c[v]
Session(s) == \A r \in Conns : r # s => store'[r] = store[r]

(* The worker w goes to pc, and is otherwise as before.                    *)
Moves(w, pc) ==
  /\ wk'[w].pc = pc /\ wk'[w].then = wk[w].then /\ wk'[w].sid = wk[w].sid
  /\ wk'[w].st = wk[w].st /\ wk'[w].hand = wk[w].hand
Sent(w, msgs, next) ==
  \/ w \in up /\ Moves(w, next) /\ s2c'[w] = s2c[w] \o msgs
  \/ w \notin up /\ (Moves(w, next) \/ Moves(w, "done")) /\ s2c'[w] = s2c[w]

(* A step of the worker w leaves the other workers and the client alone.   *)
LEMMA OnlyOne ==
  ASSUME TInv, NEW w \in Conns, Effect(w)
  PROVE  Only(w) /\ Stays /\ Reads(w)
<1>1. PICK x \in WorkRec : Becomes(w, x) BY DEF Effect
<1>2. wk' = [wk EXCEPT ![w] = x] BY <1>1 DEF Becomes
<1> QED BY <1>2 DEF Effect, Writes, Only, TInv, Types

(* A worker whose pc is all that changes.                                  *)
LEMMA MovesFacts ==
  ASSUME TInv, NEW w \in Conns, NEW pc, wk' = [wk EXCEPT ![w] = [wk[w] EXCEPT !.pc = pc]]
  PROVE  Moves(w, pc)
<1>1. wk[w] \in WorkRec BY Here
<1>2. wk'[w] = [wk[w] EXCEPT !.pc = pc] BY DEF TInv, Types
<1> QED BY <1>1, <1>2 DEF WorkRec, Moves

(* What a Send does, field by field.                                       *)
LEMMA SentFacts ==
  ASSUME TInv, NEW w \in Conns, NEW msgs, NEW next, Send(w, msgs, wk[w], next)
  PROVE  Sent(w, msgs, next)
<1>1. CASE w \in up
  <2>1. /\ s2c' = [s2c EXCEPT ![w] = s2c[w] \o msgs]
        /\ wk' = [wk EXCEPT ![w] = [wk[w] EXCEPT !.pc = next]]
    BY <1>1 DEF Send
  <2> QED BY <1>1, <2>1, MovesFacts DEF Sent, TInv, Types
<1>2. CASE w \notin up
  <2>1. PICK p \in {next, "done"} : wk' = [wk EXCEPT ![w] = [wk[w] EXCEPT !.pc = p]]
    BY <1>2 DEF Send
  <2>2. s2c' = s2c BY <1>2 DEF Send
  <2> QED BY <1>2, <2>1, <2>2, MovesFacts DEF Sent
<1> QED BY <1>1, <1>2

(* LOGIN_REQ, field by field.                                              *)
LEMMA HsLoginIs ==
  ASSUME TInv, NEW w \in Conns, HsLogin(w)
  PROVE  /\ wk[w].pc = "hs" /\ s2c' = s2c /\ killed' = killed
         /\ wk'[w].pc = "save_st" /\ wk'[w].then = "hello" /\ wk'[w].sid = w
         /\ wk'[w].st = NewGame(w) /\ wk'[w].hand = NewGame(w).deal
         /\ store'[w].valid = TRUE /\ store'[w].st = store[w].st
         /\ store'[w].hand = store[w].hand /\ Session(w)
<1>1. /\ wk[w].pc = "hs" /\ s2c' = s2c /\ killed' = killed BY DEF HsLogin, Packet, bounds
<1>2. /\ wk' = [wk EXCEPT ![w] = [pc |-> "save_st", then |-> "hello", sid |-> w,
                                  st |-> NewGame(w), hand |-> NewGame(w).deal]]
      /\ store' = [store EXCEPT ![w] = [store[w] EXCEPT !.valid = TRUE]]
  BY DEF HsLogin
<1>3. /\ wk'[w].pc = "save_st" /\ wk'[w].then = "hello" /\ wk'[w].sid = w
      /\ wk'[w].st = NewGame(w) /\ wk'[w].hand = NewGame(w).deal
  BY <1>2 DEF TInv, Types
<1>4. store'[w] = [store[w] EXCEPT !.valid = TRUE] /\ Session(w) BY <1>2 DEF TInv, Types, Session
<1>5. store[w] \in StoreRec BY Here
<1>6. store'[w].valid = TRUE /\ store'[w].st = store[w].st /\ store'[w].hand = store[w].hand
  BY <1>4, <1>5 DEF StoreRec
<1> QED BY <1>1, <1>3, <1>4, <1>6

NoSession == [op |-> "RESUME_RESP", ok |-> FALSE, sid |-> 0]

(* RESUME_REQ, field by field.                                             *)
LEMMA HsResumeIs ==
  ASSUME TInv, NEW w \in Conns, HsResume(w)
  PROVE  LET sid == Head(c2s[w]).sid IN
         /\ wk[w].pc = "hs" /\ store' = store /\ killed' = killed /\ sid \in Conns
         /\ c2s[w] # <<>> /\ Head(c2s[w]).op = "RESUME_REQ"
         /\ \/ /\ store[sid].valid /\ s2c' = s2c
               /\ wk'[w].pc = "load_hand" /\ wk'[w].then = wk[w].then /\ wk'[w].sid = sid
               /\ wk'[w].st = store[sid].st /\ wk'[w].hand = wk[w].hand
            \/ ~store[sid].valid /\ Sent(w, <<NoSession>>, "hs")
<1> DEFINE sid == Head(c2s[w]).sid
<1>1. /\ wk[w].pc = "hs" /\ store' = store /\ killed' = killed
      /\ c2s[w] # <<>> /\ Head(c2s[w]).op = "RESUME_REQ"
  BY DEF HsResume, Packet, bounds
<1>2. sid \in Conns
  <2>1. Head(c2s[w]) \in Resumes BY <1>1, Here, MessageKinds
  <2> QED BY <2>1 DEF Resumes
<1>3. CASE store[sid].valid
  <2>1. /\ wk' = [wk EXCEPT ![w] = [wk[w] EXCEPT !.pc = "load_hand", !.sid = sid,
                                                 !.st = store[sid].st]]
        /\ s2c' = s2c
    BY <1>3 DEF HsResume
  <2> HIDE DEF sid
  <2>2. wk[w] \in WorkRec BY Here
  <2>3. wk'[w] = [wk[w] EXCEPT !.pc = "load_hand", !.sid = sid, !.st = store[sid].st]
    BY <2>1 DEF TInv, Types
  <2>4. /\ wk'[w].pc = "load_hand" /\ wk'[w].then = wk[w].then /\ wk'[w].sid = sid
        /\ wk'[w].st = store[sid].st /\ wk'[w].hand = wk[w].hand
    BY <2>2, <2>3 DEF WorkRec
  <2> QED BY <1>1, <1>2, <1>3, <2>1, <2>4 DEF sid
<1>4. CASE ~store[sid].valid
  <2>1. Send(w, <<NoSession>>, wk[w], "hs") BY <1>4 DEF HsResume, NoSession
  <2> QED BY <1>1, <1>2, <1>4, <2>1, SentFacts
<1> QED BY <1>3, <1>4

(* LoadHand, field by field.                                               *)
LEMMA LoadHandIs ==
  ASSUME TInv, NEW w \in Conns, LoadHand(w)
  PROVE  /\ wk[w].pc = "load_hand" /\ s2c' = s2c /\ store' = store /\ killed' = killed
         /\ wk[w].sid \in Conns
         /\ wk'[w].pc = "hello" /\ wk'[w].then = wk[w].then /\ wk'[w].sid = wk[w].sid
         /\ wk'[w].st = wk[w].st /\ wk'[w].hand = store[wk[w].sid].hand
<1>1. /\ wk[w].pc = "load_hand" /\ s2c' = s2c /\ store' = store /\ killed' = killed
  BY DEF LoadHand, bounds, netVars
<1>2. wk[w] \in WorkRec /\ wk[w].sid \in Conns BY <1>1, Here DEF InSession
<1>3. wk'[w] = [wk[w] EXCEPT !.pc = "hello", !.hand = store[wk[w].sid].hand]
  BY DEF LoadHand, TInv, Types
<1>4. /\ wk'[w].pc = "hello" /\ wk'[w].then = wk[w].then /\ wk'[w].sid = wk[w].sid
      /\ wk'[w].st = wk[w].st /\ wk'[w].hand = store[wk[w].sid].hand
  BY <1>2, <1>3 DEF WorkRec
<1> QED BY <1>1, <1>2, <1>4

(* An ignored packet of the handshake, field by field.                     *)
LEMMA HsOtherIs ==
  ASSUME TInv, NEW w \in Conns, HsOther(w)
  PROVE  wk[w].pc = "hs" /\ s2c' = s2c /\ store' = store /\ killed' = killed /\ Moves(w, "hs")
BY DEF HsOther, Packet, srvVars, bounds, Moves

Greeting(x) == << [op |-> "RESUME_RESP", ok |-> TRUE, sid |-> x.sid] >> \o Board(x.st, x.hand, 0)

(* Hello, field by field.                                                  *)
LEMMA HelloIs ==
  ASSUME TInv, NEW w \in Conns, Hello(w)
  PROVE  /\ wk[w].pc = "hello" /\ store' = store /\ killed' = killed
         /\ Sent(w, Greeting(wk[w]), LoopPc(wk[w].st))
<1>1. /\ wk[w].pc = "hello" /\ store' = store /\ killed' = killed
      /\ Send(w, Greeting(wk[w]), wk[w], LoopPc(wk[w].st))
  BY DEF Hello, Greeting, bounds
<1> QED BY <1>1, SentFacts

(* SaveSt, field by field.                                                 *)
LEMMA SaveStIs ==
  ASSUME TInv, NEW w \in Conns, SaveSt(w)
  PROVE  LET sid == wk[w].sid IN
         /\ wk[w].pc = "save_st" /\ s2c' = s2c /\ killed' = killed /\ sid \in Conns
         /\ \/ /\ store[sid].valid /\ Moves(w, "save_hand")
               /\ store'[sid].valid = store[sid].valid /\ store'[sid].st = wk[w].st
               /\ store'[sid].hand = store[sid].hand /\ Session(sid)
            \/ ~store[sid].valid /\ Moves(w, wk[w].then) /\ store' = store
<1> DEFINE sid == wk[w].sid
<1>1. /\ wk[w].pc = "save_st" /\ s2c' = s2c /\ killed' = killed BY DEF SaveSt, netVars, bounds
<1>2. sid \in Conns BY <1>1, Here DEF InSession
<1>3. CASE store[sid].valid
  <2>1. wk' = [wk EXCEPT ![w] = [wk[w] EXCEPT !.pc = "save_hand"]] BY <1>3 DEF SaveSt
  <2>2. store' = [store EXCEPT ![sid] = [store[sid] EXCEPT !.st = wk[w].st]] BY <1>3 DEF SaveSt
  <2>3. Moves(w, "save_hand") BY <2>1, MovesFacts
  <2>4. store'[sid] = [store[sid] EXCEPT !.st = wk[w].st] /\ Session(sid)
    BY <1>2, <2>2 DEF TInv, Types, Session
  <2>5. store[sid] \in StoreRec BY <1>2, Here
  <2>6. /\ store'[sid].valid = store[sid].valid /\ store'[sid].st = wk[w].st
        /\ store'[sid].hand = store[sid].hand
    BY <2>4, <2>5 DEF StoreRec
  <2> QED BY <1>1, <1>2, <1>3, <2>3, <2>4, <2>6
<1>4. CASE ~store[sid].valid
  <2>1. wk' = [wk EXCEPT ![w] = [wk[w] EXCEPT !.pc = wk[w].then]] /\ store' = store
    BY <1>4 DEF SaveSt
  <2>2. ASSUME NEW p, p = wk[w].then PROVE Moves(w, p) BY <2>1, <2>2, MovesFacts
  <2>3. Moves(w, wk[w].then) BY <2>2 DEF Moves
  <2> QED BY <1>1, <1>2, <1>4, <2>1, <2>3
<1> QED BY <1>3, <1>4

(* SaveHand, field by field.                                               *)
LEMMA SaveHandIs ==
  ASSUME TInv, NEW w \in Conns, SaveHand(w)
  PROVE  LET sid == wk[w].sid IN
         /\ wk[w].pc = "save_hand" /\ s2c' = s2c /\ killed' = killed /\ sid \in Conns
         /\ Moves(w, wk[w].then)
         /\ store'[sid].valid = store[sid].valid /\ store'[sid].st = store[sid].st
         /\ store'[sid].hand = wk[w].hand /\ Session(sid)
<1> DEFINE sid == wk[w].sid
<1>1. /\ wk[w].pc = "save_hand" /\ s2c' = s2c /\ killed' = killed BY DEF SaveHand, netVars, bounds
<1>2. sid \in Conns /\ store[sid] \in StoreRec
  <2>1. sid \in Conns BY <1>1, Here DEF InSession
  <2> QED BY <2>1, Here
<1>3. ASSUME NEW p, p = wk[w].then PROVE Moves(w, p)
  <2>1. wk' = [wk EXCEPT ![w] = [wk[w] EXCEPT !.pc = p]] BY <1>3 DEF SaveHand
  <2> QED BY <2>1, MovesFacts
<1>4. Moves(w, wk[w].then) BY <1>3 DEF Moves
<1>5. store' = [store EXCEPT ![sid] = [store[sid] EXCEPT !.hand = wk[w].hand]] BY DEF SaveHand
<1>6. store'[sid] = [store[sid] EXCEPT !.hand = wk[w].hand] /\ Session(sid)
  BY <1>2, <1>5 DEF TInv, Types, Session
<1>7. /\ store'[sid].valid = store[sid].valid /\ store'[sid].st = store[sid].st
      /\ store'[sid].hand = wk[w].hand
  BY <1>2, <1>6 DEF StoreRec
<1> QED BY <1>1, <1>2, <1>4, <1>6, <1>7

(* RecvOver and ReplyBoard, field by field.                                *)
LEMMA BoardIs ==
  ASSUME TInv, NEW w \in Conns, RecvOver(w) \/ ReplyBoard(w)
  PROVE  /\ wk[w].pc \in {"recv", "reply"} /\ store' = store /\ killed' = killed
         /\ \/ Sent(w, Board(wk[w].st, wk[w].hand, 1), LoopPc(wk[w].st))
            \/ wk[w].st.over = 1 /\ Sent(w, Board(wk[w].st, wk[w].hand, 1), "recv")
<1>1. wk[w].pc \in {"recv", "reply"} /\ store' = store /\ killed' = killed
  BY DEF RecvOver, ReplyBoard, Packet, bounds
<1>2. CASE RecvOver(w)
  <2>1. Send(w, Board(wk[w].st, wk[w].hand, 1), wk[w], "recv") /\ wk[w].st.over = 1
    BY <1>2 DEF RecvOver
  <2> QED BY <1>1, <2>1, SentFacts
<1>3. CASE ReplyBoard(w)
  <2>1. Send(w, Board(wk[w].st, wk[w].hand, 1), wk[w], LoopPc(wk[w].st)) BY <1>3 DEF ReplyBoard
  <2> QED BY <1>1, <2>1, SentFacts
<1> QED BY <1>2, <1>3

(* The end of a worker, field by field.                                    *)
LEMMA StopIs ==
  ASSUME TInv, NEW w \in Conns, WorkerEof(w) \/ HsFull(w) \/ Kill(w)
  PROVE  /\ s2c' = s2c /\ store' = store /\ Moves(w, "done")
         /\ (killed' = killed /\ wk[w].pc \in {"hs", "recv"}) \/ killed'
<1>1. s2c' = s2c /\ store' = store /\ ((killed' = killed /\ wk[w].pc \in {"hs", "recv"}) \/ killed')
  BY DEF WorkerEof, HsFull, Packet, Kill, netVars, bounds
<1>2. wk' = [wk EXCEPT ![w] = [wk[w] EXCEPT !.pc = "done"]] BY DEF WorkerEof, HsFull, Kill
<1> QED BY <1>1, <1>2, MovesFacts

(* The four steps that carry the game on, up to the save.                  *)
GoesOn(w) ==
  /\ wk'[w].pc = "save_st" /\ wk'[w].sid = wk[w].sid /\ wk'[w].st \in Games
  /\ wk'[w].st.sid = wk[w].st.sid /\ NotBefore(wk[w].st, wk'[w].st)
  /\ wk'[w].hand = IF wk'[w].st.deal = wk[w].st.deal THEN wk[w].hand ELSE wk'[w].st.deal
  /\ s2c' = s2c /\ store' = store /\ killed' = killed
Turns(w) ==
  \/ wk[w].pc = "ai_entry" /\ wk'[w].then = "recv"
  \/ /\ wk[w].pc = "ai" /\ wk'[w].then = "reply"
     /\ wk'[w].st.over = 1 \/ wk'[w].st.turn = 1 - wk[w].st.turn
  \/ /\ wk[w].pc = "recv" /\ wk'[w].then = "reply" /\ wk[w].st.over = 0
     /\ wk'[w].st.turn = wk[w].st.turn
  \/ wk[w].pc = "recv" /\ wk'[w].then = IF LoopPc(wk'[w].st) = "recv" THEN "reply" ELSE "ai"

(* SaveThen, field by field.                                               *)
LEMMA SaveThenIs ==
  ASSUME TInv, NEW w \in Conns, NEW st \in Games, NEW then \in {"recv", "reply", "ai"},
         SaveThen(w, st, then)
  PROVE  /\ wk'[w].pc = "save_st" /\ wk'[w].then = then /\ wk'[w].sid = wk[w].sid
         /\ wk'[w].st = st
         /\ wk'[w].hand = IF st.deal = wk[w].st.deal THEN wk[w].hand ELSE st.deal
<1>1. PICK x \in WorkRec :
           /\ wk' = [wk EXCEPT ![w] = x] /\ x.pc = "save_st" /\ x.then = then
           /\ x.sid = wk[w].sid /\ x.st = st
           /\ x.hand = IF st.deal = wk[w].st.deal THEN wk[w].hand ELSE st.deal
  BY SaveThenFacts
<1>2. wk'[w] = x BY <1>1 DEF TInv, Types
<1> QED BY <1>1, <1>2

(* The AI's turn carries the game on without a new click in its log.       *)
LEMMA AiIs ==
  ASSUME TInv, NEW w \in Conns, AiOnEntry(w) \/ AiTurn(w)
  PROVE  GoesOn(w) /\ Turns(w) /\ wk'[w].st.log = wk[w].st.log
<1>1. wk[w].st \in Games BY Here
<1>2. PICK st \in AiOutcomes(w, wk[w].st) :
        \/ wk[w].pc = "ai_entry" /\ SaveThen(w, st, "recv")
        \/ wk[w].pc = "ai" /\ SaveThen(w, st, "reply")
  BY DEF AiOnEntry, AiTurn
<1>3. /\ Grown(wk[w].st, st) /\ st.log = wk[w].st.log
      /\ st.over = 1 \/ st.turn = 1 - wk[w].st.turn
  BY <1>1, AiFacts
<1>4. st \in Games /\ st.sid = wk[w].st.sid BY <1>3 DEF Grown
<1>5. NotBefore(wk[w].st, st)
  <2>1. IsPrefix(wk[w].st.log, st.log) BY <1>1, <1>3, NotBeforeRefl DEF NotBefore
  <2> QED BY <1>3, <2>1 DEF NotBefore, Grown
<1>6. PICK then \in {"recv", "reply"} :
        /\ SaveThen(w, st, then)
        /\ (wk[w].pc = "ai_entry" /\ then = "recv") \/ (wk[w].pc = "ai" /\ then = "reply")
  BY <1>2
<1>7. /\ wk'[w].pc = "save_st" /\ wk'[w].then = then /\ wk'[w].sid = wk[w].sid
      /\ wk'[w].st = st
      /\ wk'[w].hand = IF st.deal = wk[w].st.deal THEN wk[w].hand ELSE st.deal
  BY <1>4, <1>6, SaveThenIs
<1>8. s2c' = s2c /\ store' = store /\ killed' = killed BY DEF AiOnEntry, AiTurn, netVars, bounds
<1>9. GoesOn(w) BY <1>4, <1>5, <1>7, <1>8 DEF GoesOn
<1>10. Turns(w) BY <1>3, <1>6, <1>7 DEF Turns
<1> QED BY <1>3, <1>7, <1>9, <1>10

(* PLAY_CARD carries the game on, on the same hand, by at most the click   *)
(* read.                                                                   *)
LEMMA RecvPlayIs ==
  ASSUME TInv, NEW w \in Conns, RecvPlay(w)
  PROVE  /\ GoesOn(w) /\ Turns(w) /\ wk'[w].st.deal = wk[w].st.deal
         /\ Head(c2s[w]) \in Cmds /\ c2s[w] # <<>>
         /\ \/ wk'[w].st.log = wk[w].st.log
            \/ wk'[w].st.log = Append(wk[w].st.log, Entry(wk[w].hand, Head(c2s[w])))
<1> DEFINE m == Head(c2s[w])
           e == Entry(wk[w].hand, m)
<1>1. /\ wk[w].pc = "recv" /\ c2s[w] # <<>> /\ m \in Cmds /\ wk[w].st.over = 0
      /\ wk[w].st \in Games /\ wk[w].hand \in Deals
  BY Here, MessageKinds DEF RecvPlay, Packet, Kinds
<1>2. PICK st \in PlayOutcomes(w, wk[w].st, wk[w].hand, m) : SaveThen(w, st, "reply")
  BY DEF RecvPlay
<1>3. e \in Entries BY <1>1, ExecutedGame
<1>4. /\ Grown(wk[w].st, st) /\ st.deal = wk[w].st.deal /\ st.turn = wk[w].st.turn
      /\ st.log = wk[w].st.log \/ st.log = Append(wk[w].st.log, e)
  BY <1>1, PlayFacts
<1> HIDE DEF e
<1>5. st \in Games /\ st.sid = wk[w].st.sid BY <1>4 DEF Grown
<1>6. NotBefore(wk[w].st, st) BY <1>1, <1>3, <1>4, GrownNotBefore
<1>7. /\ wk'[w].pc = "save_st" /\ wk'[w].then = "reply" /\ wk'[w].sid = wk[w].sid
      /\ wk'[w].st = st
      /\ wk'[w].hand = IF st.deal = wk[w].st.deal THEN wk[w].hand ELSE st.deal
  BY <1>2, <1>5, SaveThenIs
<1>8. s2c' = s2c /\ store' = store /\ killed' = killed BY DEF RecvPlay, bounds
<1>9. GoesOn(w) BY <1>5, <1>6, <1>7, <1>8 DEF GoesOn
<1>10. Turns(w) BY <1>1, <1>4, <1>7 DEF Turns
<1> QED BY <1>1, <1>4, <1>7, <1>9, <1>10 DEF e

(* END_TURN carries the game on by the click read.                         *)
LEMMA RecvEndTurnIs ==
  ASSUME TInv, NEW w \in Conns, RecvEndTurn(w)
  PROVE  /\ GoesOn(w) /\ Turns(w) /\ Head(c2s[w]) \in Cmds /\ c2s[w] # <<>>
         /\ Head(c2s[w]).op = "END_TURN"
         /\ wk'[w].st.log = Append(wk[w].st.log, Entry(wk[w].hand, Head(c2s[w])))
<1> DEFINE m == Head(c2s[w])
           e == Entry(wk[w].hand, m)
           g == Executed(wk[w].st, wk[w].hand, m)
<1>1. /\ wk[w].pc = "recv" /\ c2s[w] # <<>> /\ m \in Cmds /\ wk[w].st.over = 0
      /\ wk[w].st \in Games /\ wk[w].hand \in Deals /\ m.op = "END_TURN"
  BY Here, MessageKinds DEF RecvEndTurn, Packet, Kinds
<1>2. PICK st \in EndOutcomes(w, g) : SaveThen(w, st, IF LoopPc(st) = "recv" THEN "reply" ELSE "ai")
  BY DEF RecvEndTurn
<1>3. /\ e \in Entries /\ g \in Games /\ g.log = Append(wk[w].st.log, e) /\ g.sid = wk[w].st.sid
      /\ g.turn = wk[w].st.turn /\ g.over = wk[w].st.over /\ g.deal = wk[w].st.deal
  BY <1>1, ExecutedGame, SMTT(60)
<1> HIDE DEF e, g
<1>4. Grown(g, st) /\ st.log = g.log BY <1>3, EndFacts, SMTT(60)
<1>5. st \in Games /\ st.sid = wk[w].st.sid /\ Grown(wk[w].st, st) BY <1>3, <1>4 DEF Grown
<1>6. NotBefore(wk[w].st, st) BY <1>1, <1>3, <1>4, <1>5, GrownNotBefore, ZenonT(60)
<1>7. PICK then \in {"reply", "ai"} :
        SaveThen(w, st, then) /\ then = IF LoopPc(st) = "recv" THEN "reply" ELSE "ai"
  BY <1>2
<1>8. /\ wk'[w].pc = "save_st" /\ wk'[w].then = then /\ wk'[w].sid = wk[w].sid
      /\ wk'[w].st = st
      /\ wk'[w].hand = IF st.deal = wk[w].st.deal THEN wk[w].hand ELSE st.deal
  BY <1>5, <1>7, SaveThenIs
<1>9. s2c' = s2c /\ store' = store /\ killed' = killed BY DEF RecvEndTurn, bounds
<1>10. GoesOn(w) BY <1>5, <1>6, <1>8, <1>9 DEF GoesOn
<1>11. Turns(w) BY <1>1, <1>7, <1>8, SMTT(60) DEF Turns
<1> QED BY <1>1, <1>3, <1>4, <1>8, <1>10, <1>11 DEF e

(* Together.                                                               *)
LEMMA GameIs ==
  ASSUME TInv, NEW w \in Conns, AiOnEntry(w) \/ AiTurn(w) \/ RecvPlay(w) \/ RecvEndTurn(w)
  PROVE  GoesOn(w) /\ Turns(w) /\ wk[w].pc \in {"ai_entry", "ai", "recv"}
BY AiIs, RecvPlayIs, RecvEndTurnIs DEF AiOnEntry, AiTurn, RecvPlay, RecvEndTurn, Packet
-----------------------------------------------------------------------------
(* The sessions that are named.                                            *)

(* A session that a client, a packet or a worker past the first save names *)
(* was opened by the worker of its number, and its record has its name.    *)
Good(k, t, s) == s \in Conns /\ k[s].sid = s /\ (t[s].valid => t[s].st.sid = s)

ReqOk(k, t, m)    == m.op = "RESUME_REQ" => Good(k, t, m.sid)
MsgOk(k, t, s, m) ==
  /\ m.op = "RESUME_RESP" /\ m.sid # 0 => Good(k, t, m.sid)
  /\ m.op = "STATE" => Good(k, t, s) /\ m.st.sid = s
WorkOk(k, t, w, x) ==
  /\ x.pc \in {"none", "hs"} => x.sid = 0
  /\ x.pc \in InSession =>
       /\ x.st.sid = x.sid
       /\ Good(k, t, x.sid) \/ (x.pc = "save_st" /\ x.then = "hello" /\ x.sid = w)
NamesInv ==
  /\ cl.sid # 0 => Good(wk, store, cl.sid)
  /\ cl.has_state => Good(wk, store, cl.st.sid)
  /\ \A w \in Conns : /\ \A m \in Range(c2s[w]) : ReqOk(wk, store, m)
                      /\ \A m \in Range(s2c[w]) : MsgOk(wk, store, wk[w].sid, m)
                      /\ WorkOk(wk, store, w, wk[w])
GoodStays == \A s : Good(wk, store, s) => Good(wk', store', s)

(* The packets of a queue.                                                 *)
LEMMA RangeShort ==
  /\ Range(<<>>) = {}
  /\ \A a : Range(<<a>>) = {a}
  /\ \A a, b : Range(<<a, b>>) = {a, b}
<1>1. Range(<<>>) = {} BY DEF Range
<1>2. ASSUME NEW a PROVE Range(<<a>>) = {a}
  <2>1. DOMAIN <<a>> = {1} /\ <<a>>[1] = a OBVIOUS
  <2> QED BY <2>1 DEF Range
<1>3. ASSUME NEW a, NEW b PROVE Range(<<a, b>>) = {a, b}
  <2>1. DOMAIN <<a, b>> = 1..2 /\ <<a, b>>[1] = a /\ <<a, b>>[2] = b OBVIOUS
  <2>2. DOMAIN <<a, b>> = {1, 2} BY <2>1
  <2> QED BY <2>1, <2>2 DEF Range
<1> QED BY <1>1, <1>2, <1>3

(* Reading a packet leaves no new ones.                                    *)
LEMMA RangeTail ==
  ASSUME NEW R, NEW q \in Seq(R), q # <<>>
  PROVE  Range(Tail(q)) \subseteq Range(q) /\ Head(q) \in Range(q)
<1>1. /\ Tail(q) \in Seq(R) /\ Len(Tail(q)) = Len(q) - 1 /\ Len(q) \in Nat
      /\ \A i \in 1..Len(Tail(q)) : Tail(q)[i] = q[i + 1]
  BY HeadTailProperties, LenProperties
<1>2. DOMAIN q = 1..Len(q) /\ DOMAIN Tail(q) = 1..Len(Tail(q)) BY <1>1, LenProperties
<1>3. Head(q) = q[1] /\ Len(q) >= 1
  <2>1. Len(q) # 0 BY EmptySeq
  <2> QED BY <1>1, <2>1, HeadTailProperties
<1>4. \A i \in DOMAIN Tail(q) : i + 1 \in DOMAIN q /\ Tail(q)[i] = q[i + 1] BY <1>1, <1>2
<1> QED BY <1>1, <1>2, <1>3, <1>4 DEF Range

(* A prefix of a queue has no new packets.                                 *)
LEMMA RangePrefix ==
  ASSUME NEW R, NEW q \in Seq(R), NEW n \in 0..Len(q)
  PROVE  Range(SubSeq(q, 1, n)) \subseteq Range(q)
<1> DEFINE p == SubSeq(q, 1, n)
<1>0. DOMAIN q = 1..Len(q) /\ Len(q) \in Nat BY LenProperties
<1>1. \A i \in 1..n : i \in DOMAIN q /\ q[i] \in R BY <1>0, ElementOfSeq
<1>2. /\ Len(p) = n /\ p \in Seq(R) /\ \A i \in 1..n : p[i] = q[i]
  <2>1. n \in Nat BY <1>0
  <2>2. /\ p \in Seq(R)
        /\ Len(p) = IF 1 <= n THEN n - 1 + 1 ELSE 0
        /\ \A i \in 1..(n - 1 + 1) : p[i] = q[1 + i - 1]
    BY <1>1, <2>1, SubSeqProperties
  <2>3. n - 1 + 1 = n /\ \A i \in 1..n : 1 + i - 1 = i BY <2>1
  <2> QED BY <2>1, <2>2, <2>3
<1>3. DOMAIN p = 1..n BY <1>2, LenProperties
<1> HIDE DEF p
<1>4. \A i \in DOMAIN p : i \in DOMAIN q /\ p[i] = q[i] BY <1>1, <1>2, <1>3
<1>5. Range(p) \subseteq Range(q) BY <1>4 DEF Range
<1> QED BY <1>5 DEF p

(* The packets of two queues, one behind the other.                        *)
LEMMA RangeConcat ==
  ASSUME NEW R, NEW q \in Seq(R), NEW r \in Seq(R)
  PROVE  Range(q \o r) \subseteq Range(q) \union Range(r)
<1> DEFINE p == q \o r
<1>1. /\ Len(p) = Len(q) + Len(r) /\ p \in Seq(R) /\ Len(q) \in Nat /\ Len(r) \in Nat
      /\ \A i \in 1..Len(p) : p[i] = IF i <= Len(q) THEN q[i] ELSE r[i - Len(q)]
  BY ConcatProperties, LenProperties
<1>2. DOMAIN q = 1..Len(q) /\ DOMAIN p = 1..Len(p) /\ DOMAIN r = 1..Len(r) BY <1>1, LenProperties
<1> HIDE DEF p
<1>3. ASSUME NEW i \in DOMAIN p PROVE p[i] \in Range(q) \union Range(r)
  <2>1. CASE i <= Len(q)
    <3>1. i \in DOMAIN q /\ p[i] = q[i] BY <1>1, <1>2, <2>1
    <3> QED BY <3>1 DEF Range
  <2>2. CASE ~(i <= Len(q))
    <3>1. i - Len(q) \in DOMAIN r /\ p[i] = r[i - Len(q)] BY <1>1, <1>2, <2>2
    <3> QED BY <3>1 DEF Range
  <2> QED BY <2>1, <2>2
<1>4. Range(p) \subseteq Range(q) \union Range(r) BY <1>3 DEF Range
<1> QED BY <1>4 DEF p

(* The packets of a queue with one more.                                   *)
LEMMA RangeAppend ==
  ASSUME NEW R, NEW q \in Seq(R), NEW m \in R
  PROVE  Range(Append(q, m)) \subseteq Range(q) \union {m}
<1>1. Append(q, m) = q \o <<m>> BY AppendIsConcat
<1>2. <<m>> \in Seq(R) OBVIOUS
<1> QED BY <1>1, <1>2, RangeConcat, RangeShort

(* The answers of a worker.                                                *)
LEMMA BoardMsgs ==
  ASSUME NEW g \in Games, NEW hand \in Deals, NEW ack \in {0, 1}
  PROVE  /\ Board(g, hand, ack) \in Seq(Msgs)
         /\ \A m \in Range(Board(g, hand, ack)) :
              (m.op = "STATE" /\ m.st = g) \/ m.op = "HAND"
<1> DEFINE a == [op |-> "STATE", st |-> g, ack |-> ack]
           b == [op |-> "HAND", hand |-> hand]
<1>1. a.op = "STATE" /\ a.st = g /\ b.op = "HAND" OBVIOUS
<1>2. Board(g, hand, ack) = <<a, b>> BY DEF Board
<1> HIDE DEF a, b
<1>3. Range(<<a, b>>) = {a, b} BY RangeShort
<1> QED BY <1>1, <1>2, <1>3, BoardFacts

(* The packets of the handshake's answer.                                  *)
LEMMA GreetingMsgs ==
  ASSUME NEW x \in WorkRec
  PROVE  /\ Greeting(x) \in Seq(Msgs)
         /\ \A m \in Range(Greeting(x)) :
              \/ m.op = "RESUME_RESP" /\ m.sid = x.sid
              \/ m.op = "STATE" /\ m.st = x.st
              \/ m.op = "HAND"
<1> DEFINE a == [op |-> "RESUME_RESP", ok |-> TRUE, sid |-> x.sid]
           b == Board(x.st, x.hand, 0)
<1>1. x.st \in Games /\ x.hand \in Deals /\ x.sid \in 0..MaxConns BY DEF WorkRec
<1>2. a \in Answers /\ a.op = "RESUME_RESP" /\ a.sid = x.sid BY <1>1 DEF Answers
<1>3. a \in Msgs BY <1>2 DEF Msgs
<1>4. b \in Seq(Msgs) /\ \A m \in Range(b) : (m.op = "STATE" /\ m.st = x.st) \/ m.op = "HAND"
  BY <1>1, BoardMsgs
<1>5. Greeting(x) = <<a>> \o b BY DEF Greeting
<1> HIDE DEF a, b
<1>6. <<a>> \in Seq(Msgs) /\ Range(<<a>>) = {a} BY <1>3, RangeShort
<1>7. <<a>> \o b \in Seq(Msgs) /\ Range(<<a>> \o b) \subseteq {a} \union Range(b)
  BY <1>4, <1>6, ConcatProperties, RangeConcat
<1> QED BY <1>2, <1>4, <1>5, <1>7

(* Nobody forgets the name of a session.                                   *)
LEMMA GoodKept ==
  ASSUME NEW w \in Conns, Only(w), wk'[w].sid = wk[w].sid \/ wk[w].sid = 0,
         \A s \in Conns : \/ wk[s].sid # s
                          \/ store'[s].valid => store'[s].st.sid = s
                          \/ store'[s].valid = store[s].valid /\ store'[s].st = store[s].st
  PROVE  GoodStays
<1> SUFFICES ASSUME NEW s, Good(wk, store, s) PROVE Good(wk', store', s) BY DEF GoodStays
<1>1. s \in Conns /\ wk[s].sid = s /\ s # 0 /\ (store[s].valid => store[s].st.sid = s)
  BY DEF Good, Conns
<1>2. wk'[s].sid = s
  <2>1. CASE s = w BY <1>1, <2>1
  <2>2. CASE s # w BY <1>1, <2>2 DEF Only
  <2> QED BY <2>1, <2>2
<1>3. store'[s].valid => store'[s].st.sid = s BY <1>1
<1> QED BY <1>1, <1>2, <1>3 DEF Good

(* What the step of a worker has to show for NamesInv.                     *)
LEMMA NamesWorker ==
  ASSUME TInv, NamesInv, NEW w \in Conns, Only(w), Stays, Reads(w), GoodStays,
         NEW msgs \in Seq(Msgs), s2c'[w] = s2c[w] \/ s2c'[w] = s2c[w] \o msgs,
         \A m \in Range(msgs) : MsgOk(wk', store', wk'[w].sid, m),
         wk'[w].sid = wk[w].sid \/ wk[w].sid = 0,
         WorkOk(wk', store', w, wk'[w])
  PROVE  NamesInv'
<1>1. cl' = cl BY DEF Stays
<1>2. (cl.sid # 0 => Good(wk', store', cl.sid)) /\ (cl.has_state => Good(wk', store', cl.st.sid))
  BY DEF NamesInv, GoodStays
<1>3. ASSUME NEW v \in Conns, NEW m \in Range(c2s'[v]) PROVE ReqOk(wk', store', m)
  <2>1. m \in Range(c2s[v])
    <3>1. CASE c2s'[v] = c2s[v] BY <1>3, <3>1
    <3>2. CASE c2s'[v] # c2s[v]
      <4>1. /\ v = w /\ c2s[w] # <<>> /\ c2s'[w] = Tail(c2s[w])
        BY <3>2 DEF Reads, TInv, Types
      <4>2. c2s[w] \in Seq(Reqs) BY Here
      <4> QED BY <1>3, <4>1, <4>2, RangeTail
    <3> QED BY <3>1, <3>2
  <2> QED BY <2>1 DEF NamesInv, ReqOk, GoodStays
<1>4. ASSUME NEW v \in Conns, NEW m \in Range(s2c'[v])
      PROVE  MsgOk(wk', store', wk'[v].sid, m)
  <2>1. ASSUME m \in Range(s2c[v]) PROVE MsgOk(wk', store', wk'[v].sid, m)
    <3>1. MsgOk(wk, store, wk[v].sid, m) BY <2>1 DEF NamesInv
    <3>2. CASE wk'[v].sid = wk[v].sid BY <3>1, <3>2 DEF MsgOk, GoodStays
    <3>3. CASE wk'[v].sid # wk[v].sid
      <4>1. wk[v].sid = 0 BY <3>3 DEF Only
      <4>2. m.op # "STATE" BY <3>1, <4>1 DEF MsgOk, Good, Conns
      <4> QED BY <3>1, <4>2 DEF MsgOk, GoodStays
    <3> QED BY <3>2, <3>3
  <2>2. CASE v # w BY <1>4, <2>1, <2>2 DEF Only
  <2>3. CASE v = w
    <3>1. s2c[w] \in Seq(Msgs) BY Here
    <3>2. m \in Range(s2c[w]) \/ m \in Range(msgs) BY <1>4, <2>3, <3>1, RangeConcat
    <3> QED BY <2>1, <2>3, <3>2
  <2> QED BY <2>2, <2>3
<1>5. ASSUME NEW v \in Conns PROVE WorkOk(wk', store', v, wk'[v])
  <2>1. CASE v = w BY <2>1
  <2>2. CASE v # w
    <3>1. wk'[v] = wk[v] /\ WorkOk(wk, store, v, wk[v]) BY <2>2 DEF Only, NamesInv
    <3> QED BY <3>1 DEF WorkOk, GoodStays
  <2> QED BY <2>1, <2>2
<1> QED BY <1>1, <1>2, <1>3, <1>4, <1>5 DEF NamesInv

(* A worker that keeps its session and its game.                           *)
Keeps(w) ==
  /\ wk'[w].sid = wk[w].sid /\ wk'[w].st = wk[w].st
  /\ \A s \in Conns : store'[s].valid = store[s].valid /\ store'[s].st = store[s].st

(* A worker that keeps its session and its game keeps NamesInv.            *)
LEMMA NamesMoves ==
  ASSUME TInv, NamesInv, NEW w \in Conns, Only(w), Stays, Reads(w), Keeps(w),
         wk'[w].pc \in InSession \/ wk'[w].pc = "hs" \/ wk'[w].pc = "done",
         wk'[w].pc \in InSession => wk[w].sid = wk[w].st.sid /\ Good(wk, store, wk[w].sid),
         wk'[w].pc = "hs" => wk[w].pc = "hs",
         NEW msgs \in Seq(Msgs), s2c'[w] = s2c[w] \/ s2c'[w] = s2c[w] \o msgs,
         \A m \in Range(msgs) : MsgOk(wk, store, wk[w].sid, m)
  PROVE  NamesInv'
<1>1. wk'[w].sid = wk[w].sid /\ wk'[w].st = wk[w].st BY DEF Keeps
<1>2. GoodStays BY <1>1, GoodKept DEF Keeps
<1>3. WorkOk(wk', store', w, wk'[w])
  <2>1. WorkOk(wk, store, w, wk[w]) BY DEF NamesInv
  <2>2. CASE wk'[w].pc \in InSession BY <1>1, <1>2, <2>2 DEF WorkOk, GoodStays, InSession
  <2>3. CASE wk'[w].pc = "hs" BY <1>1, <2>1, <2>3 DEF WorkOk, InSession
  <2>4. CASE wk'[w].pc = "done" BY <1>1, <2>4 DEF WorkOk, InSession
  <2> QED BY <2>2, <2>3, <2>4
<1>4. \A m \in Range(msgs) : MsgOk(wk', store', wk'[w].sid, m) BY <1>1, <1>2 DEF MsgOk, GoodStays
<1> QED BY <1>1, <1>2, <1>3, <1>4, NamesWorker

(* What NamesInv says of a worker.                                         *)
LEMMA NamesHere ==
  ASSUME NamesInv, NEW w \in Conns
  PROVE  /\ wk[w].pc \in {"none", "hs"} => wk[w].sid = 0
         /\ wk[w].pc \in InSession => wk[w].st.sid = wk[w].sid
         /\ wk[w].pc \in InSession /\ wk[w].pc # "save_st" => Good(wk, store, wk[w].sid)
BY DEF NamesInv, WorkOk

(* The handshake keeps NamesInv: a resume names the session the client     *)
(* named.                                                                  *)
LEMMA HsNames ==
  ASSUME TInv, NamesInv, NEW w \in Conns, Only(w), Stays, Reads(w),
         HsLogin(w) \/ HsResume(w) \/ HsOther(w)
  PROVE  NamesInv'
<1>0. <<>> \in Seq(Msgs) /\ Range(<<>>) = {} BY EmptySeq, RangeShort
<1>1. w # 0 BY DEF Conns
<1>2. CASE HsLogin(w)
  <2>1. /\ wk[w].pc = "hs" /\ s2c' = s2c /\ wk'[w].pc = "save_st" /\ wk'[w].then = "hello"
        /\ wk'[w].sid = w /\ wk'[w].st = NewGame(w) /\ Session(w)
    BY <1>2, HsLoginIs
  <2>2. wk[w].sid = 0 BY <2>1, NamesHere
  <2>3. \A s \in Conns : wk[s].sid # s \/ store'[s] = store[s] BY <1>1, <2>1, <2>2 DEF Session
  <2>4. GoodStays BY <2>2, <2>3, GoodKept
  <2>5. NewGame(w).sid = w BY NewGameFacts
  <2>6. WorkOk(wk', store', w, wk'[w]) BY <2>1, <2>5 DEF WorkOk
  <2> QED BY <1>0, <2>1, <2>2, <2>4, <2>6, NamesWorker
<1>3. CASE HsOther(w)
  <2>1. wk[w].pc = "hs" /\ s2c' = s2c /\ store' = store /\ Moves(w, "hs") BY <1>3, HsOtherIs
  <2>2. Keeps(w) /\ wk'[w].pc = "hs" BY <2>1 DEF Keeps, Moves
  <2>3. wk'[w].pc \notin InSession BY <2>2 DEF InSession
  <2> QED BY <1>0, <2>1, <2>2, <2>3, NamesMoves
<1>4. CASE HsResume(w)
  <2> DEFINE sid == Head(c2s[w]).sid
  <2>1. /\ wk[w].pc = "hs" /\ store' = store /\ sid \in Conns
        /\ c2s[w] # <<>> /\ Head(c2s[w]).op = "RESUME_REQ"
        /\ \/ /\ store[sid].valid /\ s2c' = s2c
              /\ wk'[w].pc = "load_hand" /\ wk'[w].sid = sid
              /\ wk'[w].st = store[sid].st
           \/ ~store[sid].valid /\ Sent(w, <<NoSession>>, "hs")
    BY <1>4, HsResumeIs
  <2>2. wk[w].sid = 0 BY <2>1, NamesHere
  <2>3. Good(wk, store, sid)
    <3>1. c2s[w] \in Seq(Reqs) BY Here
    <3>2. Head(c2s[w]) \in Range(c2s[w]) BY <2>1, <3>1, RangeTail
    <3> QED BY <2>1, <3>2 DEF NamesInv, ReqOk
  <2> HIDE DEF sid
  <2>4. CASE /\ store[sid].valid /\ s2c' = s2c
             /\ wk'[w].pc = "load_hand" /\ wk'[w].sid = sid
             /\ wk'[w].st = store[sid].st
    <3>1. GoodStays BY <2>1, <2>2, GoodKept
    <3>2. WorkOk(wk', store', w, wk'[w]) BY <2>3, <2>4, <3>1 DEF WorkOk, GoodStays, Good
    <3> QED BY <1>0, <2>2, <2>4, <3>1, <3>2, NamesWorker
  <2>5. CASE Sent(w, <<NoSession>>, "hs")
    <3>1. /\ wk'[w].pc \in {"hs", "done"} /\ Keeps(w)
          /\ s2c'[w] = s2c[w] \/ s2c'[w] = s2c[w] \o <<NoSession>>
      BY <2>1, <2>5 DEF Sent, Moves, Keeps
    <3>2. wk'[w].pc \notin InSession BY <3>1 DEF InSession
    <3>3. NoSession \in Msgs /\ NoSession.op = "RESUME_RESP" /\ NoSession.sid = 0
      BY SessionsAssumption DEF NoSession, Msgs, Answers
    <3>4. <<NoSession>> \in Seq(Msgs) /\ Range(<<NoSession>>) = {NoSession} BY <3>3, RangeShort
    <3>5. \A m \in Range(<<NoSession>>) : MsgOk(wk, store, wk[w].sid, m) BY <3>3, <3>4 DEF MsgOk
    <3> QED BY <2>1, <3>1, <3>2, <3>4, <3>5, NamesMoves
  <2> QED BY <2>1, <2>4, <2>5
<1> QED BY <1>2, <1>3, <1>4

(* Saving and loading keep NamesInv: the first save names the slot.        *)
LEMMA SaveNames ==
  ASSUME TInv, NamesInv, NEW w \in Conns, Only(w), Stays, Reads(w),
         SaveSt(w) \/ SaveHand(w) \/ LoadHand(w)
  PROVE  NamesInv'
<1> DEFINE sid == wk[w].sid
<1>0. <<>> \in Seq(Msgs) /\ Range(<<>>) = {} BY EmptySeq, RangeShort
<1>1. ASSUME wk[w].pc \in {"save_st", "save_hand"}
      PROVE  wk[w].then \in InSession /\ wk[w].then # "save_st"
  <2>1. wk[w] \in WorkRec /\ wk[w].then # "none" BY <1>1, Here
  <2> QED BY <2>1 DEF WorkRec, InSession
<1>2. CASE SaveSt(w)
  <2>1. /\ wk[w].pc = "save_st" /\ s2c' = s2c /\ sid \in Conns
        /\ \/ /\ store[sid].valid /\ Moves(w, "save_hand")
              /\ store'[sid].valid = store[sid].valid /\ store'[sid].st = wk[w].st
              /\ Session(sid)
           \/ ~store[sid].valid /\ Moves(w, wk[w].then) /\ store' = store
    BY <1>2, SaveStIs
  <2>2. /\ wk[w].st.sid = sid
        /\ Good(wk, store, sid) \/ sid = w
    BY <2>1 DEF NamesInv, WorkOk, InSession
  <2>3. wk[sid].sid = sid BY <2>2 DEF Good
  <2>4. CASE store[sid].valid
    <3>1. /\ Moves(w, "save_hand") /\ store'[sid].st = wk[w].st /\ Session(sid) BY <2>1, <2>4
    <3>2. wk'[w].sid = sid /\ wk'[w].st = wk[w].st /\ wk'[w].pc = "save_hand" BY <3>1 DEF Moves
    <3>3. \A s \in Conns : s = sid \/ store'[s] = store[s] BY <3>1 DEF Session
    <3>4. store'[sid].st.sid = sid BY <2>2, <3>1
    <3>5. GoodStays BY <3>2, <3>3, <3>4, GoodKept
    <3>6. wk'[sid].sid = sid
      <4>1. CASE sid = w BY <3>2, <4>1
      <4>2. CASE sid # w BY <2>1, <2>3, <4>2 DEF Only
      <4> QED BY <4>1, <4>2
    <3>7. Good(wk', store', sid) BY <2>1, <3>4, <3>6 DEF Good
    <3>8. WorkOk(wk', store', w, wk'[w]) BY <2>2, <3>2, <3>7 DEF WorkOk
    <3> QED BY <1>0, <2>1, <3>2, <3>5, <3>8, NamesWorker
  <2>5. CASE ~store[sid].valid
    <3>1. Moves(w, wk[w].then) /\ store' = store BY <2>1, <2>5
    <3>2. Good(wk, store, sid) BY <2>1, <2>3, <2>5 DEF Good
    <3>3. Keeps(w) /\ wk'[w].pc = wk[w].then BY <3>1 DEF Keeps, Moves
    <3>4. wk'[w].pc \in InSession /\ wk'[w].pc # "hs" BY <1>1, <2>1, <3>3 DEF InSession
    <3> QED BY <1>0, <2>1, <2>2, <3>2, <3>3, <3>4, NamesMoves
  <2> QED BY <2>4, <2>5
<1>3. CASE SaveHand(w)
  <2>1. /\ wk[w].pc = "save_hand" /\ s2c' = s2c /\ sid \in Conns /\ Moves(w, wk[w].then)
        /\ store'[sid].valid = store[sid].valid /\ store'[sid].st = store[sid].st
        /\ Session(sid)
    BY <1>3, SaveHandIs
  <2>2. wk[w].st.sid = sid /\ Good(wk, store, sid) BY <2>1, NamesHere DEF InSession
  <2>3. Keeps(w) /\ wk'[w].pc = wk[w].then BY <2>1 DEF Keeps, Moves, Session
  <2>4. wk'[w].pc \in InSession /\ wk'[w].pc # "hs" BY <1>1, <2>1, <2>3 DEF InSession
  <2> QED BY <1>0, <2>1, <2>2, <2>3, <2>4, NamesMoves
<1>4. CASE LoadHand(w)
  <2>1. /\ wk[w].pc = "load_hand" /\ s2c' = s2c /\ store' = store /\ wk'[w].pc = "hello"
        /\ wk'[w].sid = sid /\ wk'[w].st = wk[w].st
    BY <1>4, LoadHandIs
  <2>2. wk[w].st.sid = sid /\ Good(wk, store, sid) BY <2>1, NamesHere DEF InSession
  <2>3. Keeps(w) BY <2>1 DEF Keeps
  <2>4. wk'[w].pc \in InSession /\ wk'[w].pc # "hs" BY <2>1 DEF InSession
  <2> QED BY <1>0, <2>1, <2>2, <2>3, <2>4, NamesMoves
<1> QED BY <1>2, <1>3, <1>4

(* A board carries the name of the worker's session.                       *)
LEMMA SendNames ==
  ASSUME TInv, NamesInv, NEW w \in Conns, Only(w), Stays, Reads(w),
         Hello(w) \/ RecvOver(w) \/ ReplyBoard(w)
  PROVE  NamesInv'
<1> DEFINE x == wk[w]
<1>1. PICK next \in {"recv", "ai_entry"} :
        \/ Sent(w, Greeting(x), next)
        \/ Sent(w, Board(x.st, x.hand, 1), next)
  BY HelloIs, BoardIs DEF LoopPc
<1>2. store' = store /\ x.pc \in {"hello", "recv", "reply"} BY HelloIs, BoardIs
<1>3. x.st.sid = x.sid /\ Good(wk, store, x.sid) BY <1>2, NamesHere DEF InSession
<1>4. x \in WorkRec /\ x.st \in Games /\ x.hand \in Deals BY Here
<1>5. PICK msgs \in {Greeting(x), Board(x.st, x.hand, 1)} : Sent(w, msgs, next) BY <1>1
<1>6. /\ msgs \in Seq(Msgs)
      /\ \A m \in Range(msgs) : \/ m.op = "RESUME_RESP" /\ m.sid = x.sid
                                \/ m.op = "STATE" /\ m.st = x.st
                                \/ m.op = "HAND"
  BY <1>4, GreetingMsgs, BoardMsgs
<1>7. \A m \in Range(msgs) : MsgOk(wk, store, x.sid, m) BY <1>3, <1>6 DEF MsgOk
<1>8. /\ wk'[w].pc \in {"recv", "ai_entry", "done"} /\ Keeps(w)
      /\ s2c'[w] = s2c[w] \/ s2c'[w] = s2c[w] \o msgs
  BY <1>2, <1>5 DEF Sent, Moves, Keeps
<1>9. (wk'[w].pc \in InSession \/ wk'[w].pc = "done") /\ wk'[w].pc # "hs" BY <1>8 DEF InSession
<1> QED BY <1>3, <1>6, <1>7, <1>8, <1>9, NamesMoves

(* The game keeps the name of its session.                                 *)
LEMMA GameNames ==
  ASSUME TInv, NamesInv, NEW w \in Conns, Only(w), Stays, Reads(w),
         AiOnEntry(w) \/ AiTurn(w) \/ RecvPlay(w) \/ RecvEndTurn(w)
  PROVE  NamesInv'
<1>0. <<>> \in Seq(Msgs) /\ Range(<<>>) = {} BY EmptySeq, RangeShort
<1>1. GoesOn(w) /\ wk[w].pc \in {"ai_entry", "ai", "recv"} BY GameIs
<1>2. wk[w].st.sid = wk[w].sid /\ Good(wk, store, wk[w].sid) BY <1>1, NamesHere DEF InSession
<1>3. /\ wk'[w].pc = "save_st" /\ wk'[w].sid = wk[w].sid /\ wk'[w].st.sid = wk[w].st.sid
      /\ s2c' = s2c /\ store' = store
  BY <1>1 DEF GoesOn
<1>4. GoodStays BY <1>3, GoodKept
<1>5. WorkOk(wk', store', w, wk'[w]) BY <1>2, <1>3, <1>4 DEF WorkOk, GoodStays
<1> QED BY <1>0, <1>3, <1>4, <1>5, NamesWorker

(* A worker that ends keeps NamesInv.                                      *)
LEMMA StopNames ==
  ASSUME TInv, NamesInv, NEW w \in Conns, Only(w), Stays, Reads(w), WorkerEof(w) \/ HsFull(w) \/ Kill(w)
  PROVE  NamesInv'
<1>0. <<>> \in Seq(Msgs) /\ Range(<<>>) = {} BY EmptySeq, RangeShort
<1>1. s2c' = s2c /\ store' = store /\ Moves(w, "done") BY StopIs
<1>2. Keeps(w) /\ wk'[w].pc = "done" BY <1>1 DEF Keeps, Moves
<1>3. wk'[w].pc \notin InSession BY <1>2 DEF InSession
<1> QED BY <1>0, <1>1, <1>2, <1>3, NamesMoves

(* The steps of the client.                                                *)
LEMMA NamesClient ==
  ASSUME NamesInv, wk' = wk, store' = store,
         cl'.sid = 0 \/ Good(wk, store, cl'.sid),
         cl'.has_state => Good(wk, store, cl'.st.sid),
         \A v \in Conns : \A m \in Range(c2s'[v]) : m \in Range(c2s[v]) \/ m.op \in Kinds,
         \A v \in Conns : Range(s2c'[v]) \subseteq Range(s2c[v])
  PROVE  NamesInv'
<1>1. ASSUME NEW v \in Conns, NEW m \in Range(c2s'[v]) PROVE ReqOk(wk, store, m)
  <2>1. CASE m \in Range(c2s[v]) BY <2>1 DEF NamesInv
  <2>2. CASE m.op \in Kinds BY <2>2 DEF ReqOk, Kinds
  <2> QED BY <2>1, <2>2
<1>2. ASSUME NEW v \in Conns, NEW m \in Range(s2c'[v]) PROVE MsgOk(wk, store, wk[v].sid, m)
  BY DEF NamesInv
<1>3. \A v \in Conns : WorkOk(wk, store, v, wk[v]) BY DEF NamesInv
<1> QED BY <1>1, <1>2, <1>3 DEF NamesInv

(* Closing the connection keeps NamesInv.                                  *)
LEMMA CloseNames ==
  ASSUME TInv, NamesInv, NEW c \in ClientRec, cl.cur # 0, Close(c), UNCHANGED srvVars,
         c.sid = 0 \/ c.sid = cl.sid, c.st = cl.st, c.has_state = cl.has_state
  PROVE  NamesInv'
<1>1. /\ s2c' = [s2c EXCEPT ![cl.cur] = <<>>] /\ cl'.st = c.st /\ cl'.has_state = c.has_state
      /\ cl'.sid = c.sid
  BY CloseFacts
<1>2. PICK n \in 0..Len(c2s[cl.cur]) : c2s' = [c2s EXCEPT ![cl.cur] = SubSeq(c2s[cl.cur], 1, n)]
  BY CloseFacts
<1>3. cl.cur \in Conns /\ c2s[cl.cur] \in Seq(Reqs) BY ClientHere, Here
<1>4. Range(SubSeq(c2s[cl.cur], 1, n)) \subseteq Range(c2s[cl.cur]) BY <1>3, RangePrefix
<1>5. \A v \in Conns : Range(c2s'[v]) \subseteq Range(c2s[v]) BY <1>2, <1>4 DEF TInv, Types
<1>6. \A v \in Conns : s2c'[v] = s2c[v] \/ s2c'[v] = <<>> BY <1>1 DEF TInv, Types
<1>7. \A v \in Conns : Range(s2c'[v]) \subseteq Range(s2c[v]) BY <1>6, RangeShort
<1>8. (cl.sid # 0 => Good(wk, store, cl.sid)) /\ (cl.has_state => Good(wk, store, cl.st.sid))
  BY DEF NamesInv
<1> QED BY <1>1, <1>5, <1>7, <1>8, NamesClient DEF srvVars

(* A connection asks for the session the client knows.                     *)
LEMMA ConnectNames ==
  ASSUME TInv, NamesInv, Connect
  PROVE  NamesInv'
<1> DEFINE w == nconn + 1
<1>1. /\ w \in Conns /\ wk' = [wk EXCEPT ![w] = [wk[w] EXCEPT !.pc = "hs"]] /\ wk[w].pc = "none"
      /\ c2s' = [c2s EXCEPT ![w] = <<Asks>>] /\ cl' = [cl EXCEPT !.cur = w]
      /\ store' = store /\ s2c' = s2c
  BY ConnectFacts
<1> HIDE DEF w
<1>2. Moves(w, "hs") BY <1>1, MovesFacts
<1>3. \A v \in Conns : wk'[v].sid = wk[v].sid
  <2>1. \A v \in Conns : v # w => wk'[v] = wk[v] BY <1>1 DEF TInv, Types
  <2> QED BY <1>2, <2>1 DEF Moves
<1>4. \A s : Good(wk, store, s) => Good(wk', store', s) BY <1>1, <1>3 DEF Good
<1>5. cl'.sid = cl.sid /\ cl'.st = cl.st /\ cl'.has_state = cl.has_state
  BY <1>1, ClientHere DEF ClientRec
<1>6. (cl.sid # 0 => Good(wk', store', cl.sid)) /\ (cl.has_state => Good(wk', store', cl.st.sid))
  BY <1>4 DEF NamesInv
<1>7. ReqOk(wk', store', Asks) BY <1>6 DEF ReqOk, Asks
<1>8. ASSUME NEW v \in Conns, NEW m \in Range(c2s'[v]) PROVE ReqOk(wk', store', m)
  <2>1. c2s'[v] = c2s[v] \/ c2s'[v] = <<Asks>> BY <1>1 DEF TInv, Types
  <2>2. m \in Range(c2s[v]) \/ m = Asks
    <3>1. Range(<<Asks>>) = {Asks} BY RangeShort
    <3>2. CASE c2s'[v] = c2s[v] BY <1>8, <3>2
    <3>3. CASE c2s'[v] = <<Asks>> BY <1>8, <3>1, <3>3
    <3> QED BY <2>1, <3>2, <3>3
  <2> QED BY <1>4, <1>7, <2>2 DEF NamesInv, ReqOk
<1>9. ASSUME NEW v \in Conns, NEW m \in Range(s2c'[v]) PROVE MsgOk(wk', store', wk'[v].sid, m)
  <2>1. MsgOk(wk, store, wk[v].sid, m) BY <1>1, SMTT(60) DEF NamesInv
  <2> QED BY <1>3, <1>4, <2>1 DEF MsgOk
<1>10. ASSUME NEW v \in Conns PROVE WorkOk(wk', store', v, wk'[v])
  <2>1. WorkOk(wk, store, v, wk[v]) BY DEF NamesInv
  <2>2. CASE v = w
    <3>1. wk'[w].pc = "hs" /\ wk'[w].sid = 0 BY <1>1, <1>2, NamesHere DEF Moves
    <3> QED BY <2>2, <3>1 DEF WorkOk, InSession
  <2>3. CASE v # w
    <3>1. wk'[v] = wk[v] BY <1>1, <2>3 DEF TInv, Types
    <3> QED BY <1>4, <2>1, <3>1 DEF WorkOk
  <2> QED BY <2>2, <2>3
<1> QED BY <1>5, <1>6, <1>8, <1>9, <1>10 DEF NamesInv

(* Taking a packet leaves no new ones.                                     *)
LEMMA TakenRange ==
  ASSUME TInv, cl.cur # 0, s2c[cl.cur] # <<>>, Taken
  PROVE  \A v \in Conns : Range(s2c'[v]) \subseteq Range(s2c[v])
<1>1. cl.cur \in Conns /\ s2c[cl.cur] \in Seq(Msgs) BY ClientHere, Here
<1>2. Range(Tail(s2c[cl.cur])) \subseteq Range(s2c[cl.cur]) BY <1>1, RangeTail
<1> QED BY <1>2 DEF Taken, TInv, Types

(* Every step keeps NamesInv.                                              *)
LEMMA NamesStep ==
  ASSUME TInv, NamesInv, [Next]_vars
  PROVE  NamesInv'
<1>1. ASSUME NEW w \in Conns, WorkerStep(w) \/ Kill(w) PROVE NamesInv'
  <2>1. Only(w) /\ Stays /\ Reads(w) BY <1>1, WorkerEffect, OnlyOne
  <2> QED BY <1>1, <2>1, HsNames, SaveNames, SendNames, GameNames, StopNames DEF WorkerStep
<1>2. CASE Connect BY <1>2, ConnectNames
<1>3. CASE ConnLost \/ ClientEof
  BY <1>3, ClientHere, CloseNames DEF ConnLost, ClientEof
<1>4. (cl.sid = 0 \/ Good(wk, store, cl.sid)) /\ (cl.has_state => Good(wk, store, cl.st.sid))
  BY DEF NamesInv
<1>5. CASE OnResumeResp
  <2> DEFINE m == Head(s2c[cl.cur])
  <2>1. /\ cl.cur # 0 /\ cl.cur \in Conns /\ s2c[cl.cur] # <<>> /\ s2c[cl.cur] \in Seq(Msgs)
        /\ m.op = "RESUME_RESP"
    BY <1>5, IncomingFacts DEF OnResumeResp
  <2>2. UNCHANGED srvVars BY <1>5 DEF OnResumeResp
  <2>3. CASE m.ok
    <3>1. Taken /\ cl' = [cl EXCEPT !.sid = m.sid] /\ c2s' = c2s
      BY <1>5, <2>3 DEF OnResumeResp
    <3>2. m \in Range(s2c[cl.cur]) BY <2>1, RangeTail
    <3>3. m.sid = 0 \/ Good(wk, store, m.sid) BY <2>1, <3>2 DEF NamesInv, MsgOk
    <3> HIDE DEF m
    <3>4. cl'.sid = m.sid /\ cl'.st = cl.st /\ cl'.has_state = cl.has_state
      BY <3>1, ClientHere DEF ClientRec
    <3> QED BY <1>4, <2>1, <2>2, <3>1, <3>3, <3>4, TakenRange, NamesClient DEF srvVars
  <2>4. CASE ~m.ok
    <3>1. Close([cl EXCEPT !.sid = 0]) BY <1>5, <2>4 DEF OnResumeResp
    <3>2. /\ [cl EXCEPT !.sid = 0] \in ClientRec /\ [cl EXCEPT !.sid = 0].sid = 0
          /\ [cl EXCEPT !.sid = 0].st = cl.st /\ [cl EXCEPT !.sid = 0].has_state = cl.has_state
      BY ClientHere, SessionsAssumption DEF ClientRec
    <3> QED BY <2>1, <2>2, <3>1, <3>2, CloseNames
  <2> QED BY <2>3, <2>4
<1>6. CASE OnState
  <2> DEFINE m == Head(s2c[cl.cur])
  <2>1. /\ cl.cur # 0 /\ cl.cur \in Conns /\ s2c[cl.cur] # <<>> /\ s2c[cl.cur] \in Seq(Msgs)
        /\ m.op = "STATE"
    BY <1>6, IncomingFacts DEF OnState
  <2>2. Taken /\ wk' = wk /\ store' = store /\ c2s' = c2s BY <1>6 DEF OnState, srvVars
  <2>3. m \in Range(s2c[cl.cur]) BY <2>1, RangeTail
  <2>4. Good(wk, store, m.st.sid) BY <2>1, <2>3 DEF NamesInv, MsgOk
  <2>5. cl'.sid = cl.sid /\ cl'.st = m.st BY <1>6, OnStateFacts
  <2> HIDE DEF m
  <2> QED BY <1>4, <2>1, <2>2, <2>4, <2>5, TakenRange, NamesClient
<1>7. CASE OnHand
  <2>1. cl.cur # 0 /\ s2c[cl.cur] # <<>> BY <1>7 DEF OnHand, Incoming
  <2>2. Taken /\ wk' = wk /\ store' = store /\ c2s' = c2s BY <1>7 DEF OnHand, srvVars
  <2>3. cl'.sid = cl.sid /\ cl'.st = cl.st /\ cl'.has_state = cl.has_state BY <1>7, OnHandFacts
  <2> QED BY <1>4, <2>1, <2>2, <2>3, TakenRange, NamesClient
<1>8. CASE NetSend
  <2>1. /\ cl.cur \in Conns /\ c2s[cl.cur] \in Seq(Reqs) /\ Head(pipe) \in Reqs
        /\ Head(pipe) \in Cmds
        /\ c2s' = c2s \/ c2s' = [c2s EXCEPT ![cl.cur] = Append(c2s[cl.cur], Head(pipe))]
        /\ cl'.sid = cl.sid /\ cl'.st = cl.st /\ cl'.has_state = cl.has_state
        /\ wk' = wk /\ store' = store /\ s2c' = s2c
    BY <1>8, NetSendFacts DEF srvVars
  <2>2. Range(Append(c2s[cl.cur], Head(pipe))) \subseteq Range(c2s[cl.cur]) \union {Head(pipe)}
    BY <2>1, RangeAppend
  <2>3. Head(pipe).op \in Kinds BY <2>1 DEF Cmds
  <2>4. \A v \in Conns : \A m \in Range(c2s'[v]) : m \in Range(c2s[v]) \/ m.op \in Kinds
    BY <2>1, <2>2, <2>3 DEF TInv, Types
  <2> QED BY <1>4, <2>1, <2>4, NamesClient
<1>9. ASSUME UNCHANGED <<srvVars, netVars>>, cl'.sid = cl.sid, cl'.st = cl.st,
             cl'.has_state = cl.has_state
      PROVE  NamesInv'
  <2>1. wk' = wk /\ store' = store /\ c2s' = c2s /\ s2c' = s2c BY <1>9 DEF srvVars, netVars
  <2> QED BY <1>4, <1>9, <2>1, NamesClient
<1>10. CASE PressEndTurn \/ PressSelected
  <2>1. PICK op \in Kinds : Command(op) BY <1>10 DEF PressEndTurn, PressSelected, Kinds
  <2> QED BY <1>9, <2>1, CommandFacts
<1>11. ASSUME NEW sel \in BOOLEAN, PressOther(sel) PROVE NamesInv'
  <2>1. cl' = [cl EXCEPT !.selected = sel] /\ UNCHANGED <<srvVars, netVars>> BY <1>11 DEF PressOther
  <2>2. cl'.sid = cl.sid /\ cl'.st = cl.st /\ cl'.has_state = cl.has_state
    BY <2>1, ClientHere DEF ClientRec
  <2> QED BY <1>9, <2>1, <2>2
<1>12. CASE GuiEnds
  <2> DEFINE c == [cl EXCEPT !.running = FALSE]
  <2>1. /\ c \in ClientRec /\ c.sid = cl.sid /\ c.st = cl.st /\ c.has_state = cl.has_state
        /\ UNCHANGED srvVars
    BY <1>12, GuiEndsFacts
  <2>2. CASE cl.cur # 0
    <3>1. Close(c) BY <1>12, <2>2 DEF GuiEnds
    <3> HIDE DEF c
    <3> QED BY <2>1, <2>2, <3>1, CloseNames
  <2>3. CASE cl.cur = 0
    <3>1. cl' = c /\ UNCHANGED netVars BY <1>12, <2>3 DEF GuiEnds
    <3> HIDE DEF c
    <3> QED BY <1>9, <2>1, <3>1
  <2> QED BY <2>2, <2>3
<1>13. CASE Restart
  <2>1. /\ cl' = cl /\ wk' = wk /\ c2s' = c2s /\ s2c' = s2c
        /\ store' = [s \in Conns |-> [valid |-> FALSE, st |-> NoGame, hand |-> NoHand]]
    BY <1>13 DEF Restart, netVars
  <2>2. \A s \in Conns : store'[s].valid = FALSE BY <2>1
  <2>3. GoodStays BY <2>1, <2>2 DEF GoodStays, Good
  <2>4. ASSUME NEW w \in Conns
        PROVE  /\ \A m \in Range(c2s[w]) : ReqOk(wk', store', m)
               /\ \A m \in Range(s2c[w]) : MsgOk(wk', store', wk[w].sid, m)
    <3>1. /\ \A m \in Range(c2s[w]) : ReqOk(wk, store, m)
          /\ \A m \in Range(s2c[w]) : MsgOk(wk, store, wk[w].sid, m)
      BY DEF NamesInv
    <3>2. \A m \in Range(c2s[w]) : ReqOk(wk', store', m) BY <2>3, <3>1 DEF GoodStays, ReqOk
    <3>3. \A m \in Range(s2c[w]) : MsgOk(wk', store', wk[w].sid, m)
      BY <2>3, <3>1 DEF GoodStays, MsgOk
    <3> QED BY <3>2, <3>3
  <2>5. \A w \in Conns : WorkOk(wk', store', w, wk[w])
    BY <2>3 DEF NamesInv, GoodStays, WorkOk
  <2>6. /\ cl.sid # 0 => Good(wk', store', cl.sid)
        /\ cl.has_state => Good(wk', store', cl.st.sid)
    BY <2>3 DEF NamesInv, GoodStays
  <2> QED BY <2>1, <2>4, <2>5, <2>6 DEF NamesInv
<1>14. CASE UNCHANGED vars BY <1>9, <1>14 DEF vars, srvVars, netVars
<1> QED BY <1>1, <1>2, <1>3, <1>5, <1>6, <1>7, <1>8, <1>10, <1>11, <1>12, <1>13, <1>14
        DEF Next, ClientStep

(* At the start nothing is named.                                          *)
LEMMA NamesInit == Init => NamesInv
<1> SUFFICES ASSUME Init PROVE NamesInv OBVIOUS
<1>1. cl.sid = 0 /\ cl.has_state = FALSE BY DEF Init
<1>2. \A w \in Conns : c2s[w] = <<>> /\ s2c[w] = <<>> BY DEF Init
<1>3. \A w \in Conns : wk[w].pc = "none" /\ wk[w].sid = 0 BY DEF Init
<1>4. \A w \in Conns : WorkOk(wk, store, w, wk[w]) BY <1>3 DEF WorkOk, InSession
<1> QED BY <1>1, <1>2, <1>4, RangeShort DEF NamesInv
-----------------------------------------------------------------------------
(* The boards on the screen, on their way, in the worker and in the store. *)

(* No two workers are in the same session.                                 *)
OnePerSession ==
  \A v, w \in Conns :
    wk[v].pc \in InSession /\ wk[w].pc \in InSession /\ wk[v].sid = wk[w].sid => v = w

(* The boards of a queue come in the order of the game.                    *)
Boards(q) == {m \in Range(q) : m.op = "STATE"}
Sorted(q) ==
  \A i, j \in DOMAIN q :
    i < j /\ q[i].op = "STATE" /\ q[j].op = "STATE" => NotBefore(q[i].st, q[j].st)

(* c: the client, x: a worker, t: the store, q: the packets to the client. *)
(* What the screen shows comes first, then what is on its way from the     *)
(* newest worker, then what that worker has and what is stored.  The store *)
(* is never ahead of a worker in the session, and past a save they are the *)
(* same.  Nothing is stored yet for a connection that has not logged in.   *)
Durable(c, t) == c.has_state /\ t[c.st.sid].valid => NotBefore(c.st, t[c.st.sid].st)
Follows(c, x, g) == c.has_state /\ c.st.sid = x.sid => NotBefore(c.st, g)
InOrder(c, x, t, q) ==
  /\ Follows(c, x, x.st)
  /\ \A m \in Boards(q) : /\ NotBefore(m.st, x.st)
                          /\ t[x.sid].valid => NotBefore(m.st, t[x.sid].st)
                          /\ Follows(c, x, m.st)
  /\ Sorted(q)
Current(x, t) ==
  x.pc \in InSession /\ t[x.sid].valid =>
    NotBefore(t[x.sid].st, x.st) /\ (x.pc # "save_st" => t[x.sid].st = x.st)
SeenInv ==
  /\ Durable(cl, store)
  /\ \A w \in Conns : w = nconn => InOrder(cl, wk[w], store, s2c[w])
  /\ \A w \in Conns : Current(wk[w], store)
  /\ \A w \in Conns : wk[w].pc \in {"none", "hs"} => store[w].st = NoGame

(* Taking a packet keeps the boards sorted; a board taken comes before the *)
(* rest.                                                                   *)
LEMMA SortedTail ==
  ASSUME NEW q \in Seq(Msgs), q # <<>>, Sorted(q)
  PROVE  /\ Sorted(Tail(q)) /\ Boards(Tail(q)) \subseteq Boards(q)
         /\ Head(q).op = "STATE" => \A m \in Boards(Tail(q)) : NotBefore(Head(q).st, m.st)
<1> DEFINE p == Tail(q)
<1>1. /\ p \in Seq(Msgs) /\ Len(p) = Len(q) - 1 /\ Len(q) \in Nat
      /\ \A i \in 1..Len(p) : p[i] = q[i + 1]
  BY HeadTailProperties, LenProperties
<1>2. DOMAIN q = 1..Len(q) /\ DOMAIN p = 1..Len(p) BY <1>1, LenProperties
<1>3. Head(q) = q[1] /\ Len(q) # 0 BY EmptySeq
<1>4. Range(p) \subseteq Range(q) BY RangeTail
<1> HIDE DEF p
<1>5. \A i \in DOMAIN p : /\ i + 1 \in DOMAIN q /\ p[i] = q[i + 1] /\ i \in Nat
                          /\ 1 < i + 1 /\ 1 \in DOMAIN q
  BY <1>1, <1>2
<1>6. Sorted(p)
  <2> SUFFICES ASSUME NEW i \in DOMAIN p, NEW j \in DOMAIN p, i < j,
                      p[i].op = "STATE", p[j].op = "STATE"
               PROVE  NotBefore(p[i].st, p[j].st)
    BY DEF Sorted
  <2>1. i + 1 < j + 1 BY <1>5
  <2> QED BY <1>5, <2>1 DEF Sorted
<1>7. ASSUME Head(q).op = "STATE", NEW m \in Boards(p) PROVE NotBefore(Head(q).st, m.st)
  <2>1. PICK i \in DOMAIN p : m = p[i] BY DEF Boards, Range
  <2>2. m.op = "STATE" BY DEF Boards
  <2>3. q[i + 1].op = "STATE" /\ q[1].op = "STATE" /\ m = q[i + 1] BY <1>3, <1>5, <1>7, <2>1, <2>2
  <2> QED BY <1>3, <1>5, <2>3 DEF Sorted
<1> QED BY <1>4, <1>6, <1>7 DEF Boards, p

(* A queue stays sorted when the newest board is put behind it.            *)
LEMMA SortedConcat ==
  ASSUME NEW q \in Seq(Msgs), NEW r \in Seq(Msgs), NEW g \in Games, Sorted(q),
         \A m \in Boards(q) : NotBefore(m.st, g), \A m \in Boards(r) : m.st = g
  PROVE  /\ Sorted(q \o r)
         /\ \A m \in Boards(q \o r) : m \in Boards(q) \/ m.st = g
<1> DEFINE p == q \o r
<1>1. /\ Len(p) = Len(q) + Len(r) /\ p \in Seq(Msgs) /\ Len(q) \in Nat /\ Len(r) \in Nat
      /\ \A i \in 1..Len(p) : p[i] = IF i <= Len(q) THEN q[i] ELSE r[i - Len(q)]
  BY ConcatProperties, LenProperties
<1>2. DOMAIN q = 1..Len(q) /\ DOMAIN p = 1..Len(p) /\ DOMAIN r = 1..Len(r) BY <1>1, LenProperties
<1>3. Range(p) \subseteq Range(q) \union Range(r) BY RangeConcat
<1>4. NotBefore(g, g) BY NotBeforeRefl
<1> HIDE DEF p
<1>5. ASSUME NEW i \in DOMAIN p, p[i].op = "STATE"
      PROVE  /\ i <= Len(q) => i \in DOMAIN q /\ p[i] = q[i] /\ NotBefore(p[i].st, g)
             /\ ~(i <= Len(q)) => p[i].st = g
  <2>1. CASE i <= Len(q)
    <3>1. i \in DOMAIN q /\ p[i] = q[i] BY <1>1, <1>2, <2>1
    <3> QED BY <1>5, <2>1, <3>1 DEF Boards, Range
  <2>2. CASE ~(i <= Len(q))
    <3>1. i - Len(q) \in DOMAIN r /\ p[i] = r[i - Len(q)] BY <1>1, <1>2, <2>2
    <3> QED BY <1>5, <2>2, <3>1 DEF Boards, Range
  <2> QED BY <2>1, <2>2
<1>6. Sorted(p)
  <2> SUFFICES ASSUME NEW i \in DOMAIN p, NEW j \in DOMAIN p, i < j,
                      p[i].op = "STATE", p[j].op = "STATE"
               PROVE  NotBefore(p[i].st, p[j].st)
    BY DEF Sorted
  <2>1. CASE j <= Len(q)
    <3>1. i <= Len(q) BY <1>1, <1>2, <2>1
    <3> QED BY <1>5, <2>1, <3>1 DEF Sorted
  <2>2. CASE ~(j <= Len(q))
    <3>1. p[j].st = g BY <1>5, <2>2
    <3>2. p[i].st = g \/ NotBefore(p[i].st, g) BY <1>5
    <3> QED BY <1>4, <3>1, <3>2
  <2> QED BY <2>1, <2>2
<1> QED BY <1>3, <1>6 DEF Boards, p

(* What a step of the worker w may do to the store: the slot of its login  *)
(* becomes valid, or it stores its game.                                   *)
Stores(w) ==
  \A s \in Conns :
    /\ store'[s].valid => store[s].valid \/ (wk[w].pc = "hs" /\ s = w)
    /\ \/ store'[s].st = store[s].st
       \/ wk[w].pc = "save_st" /\ s = wk[w].sid /\ store'[s].st = wk[w].st

(* The boards of a queue are games.                                        *)
LEMMA BoardGames ==
  ASSUME TInv, NEW w \in Conns, NEW m \in Boards(s2c[w])
  PROVE  m.st \in Games
<1>1. m \in Range(s2c[w]) /\ m.op = "STATE" /\ s2c[w] \in Seq(Msgs) BY Here DEF Boards
<1>2. m \in Msgs BY <1>1, ElementOfSeq, LenProperties DEF Range
<1> QED BY <1>1, <1>2, MessageKinds DEF States

(* A session that others name keeps its validity, and its game only moves  *)
(* forward, when w takes a step.                                           *)
LEMMA StoredForward ==
  ASSUME TInv, TInv', SeenInv, NEW w \in Conns, Stores(w),
         NEW s \in Conns, wk[w].pc = "hs" => s # w, store'[s].valid
  PROVE  store[s].valid /\ NotBefore(store[s].st, store'[s].st)
<1>1. store[s].valid BY DEF Stores
<1>2. store[s].st \in Games BY Here DEF StoreRec
<1>3. CASE store'[s].st = store[s].st BY <1>1, <1>2, <1>3, NotBeforeRefl
<1>4. CASE wk[w].pc = "save_st" /\ s = wk[w].sid /\ store'[s].st = wk[w].st
  BY <1>1, <1>4 DEF SeenInv, Current, InSession
<1> QED BY <1>1, <1>3, <1>4 DEF Stores

(* Then what others have seen stays stored, and they stay as they are.     *)
LEMMA OthersSeen ==
  ASSUME TInv, TInv', NamesInv, OnePerSession, SeenInv, NEW w \in Conns, Only(w), Stores(w),
         wk'[w].pc \in {"none", "hs"} => wk[w].pc = "hs"
  PROVE  /\ Durable(cl, store')
         /\ \A v \in Conns : v # w => /\ Current(wk[v], store')
                                      /\ v = nconn => InOrder(cl, wk[v], store', s2c[v])
         /\ \A v \in Conns : wk'[v].pc \in {"none", "hs"} => store'[v].st = NoGame
<1>0. /\ \A s \in Conns : store[s].st \in Games /\ store'[s].st \in Games
      /\ cl.st \in Games /\ w # 0
  <2>1. \A s \in Conns : store[s] \in StoreRec /\ store'[s] \in StoreRec BY DEF TInv, Types
  <2> QED BY <2>1, ClientHere DEF StoreRec, Conns
<1>1. ASSUME NEW s, Good(wk, store, s) PROVE s \in Conns /\ (wk[w].pc = "hs" => s # w)
  BY <1>0, <1>1, NamesHere DEF Good
<1>2. Durable(cl, store')
  <2> SUFFICES ASSUME cl.has_state, store'[cl.st.sid].valid
               PROVE  NotBefore(cl.st, store'[cl.st.sid].st)
    BY DEF Durable
  <2> DEFINE s == cl.st.sid
  <2>1. s \in Conns /\ (wk[w].pc = "hs" => s # w) BY <1>1 DEF NamesInv
  <2>2. store[s].valid /\ NotBefore(store[s].st, store'[s].st) BY <2>1, StoredForward
  <2>3. NotBefore(cl.st, store[s].st) BY <2>2 DEF SeenInv, Durable
  <2> HIDE DEF s
  <2>4. NotBefore(cl.st, store'[s].st) BY <1>0, <2>1, <2>2, <2>3, NotBeforeTrans
  <2> QED BY <2>4 DEF s
<1>3. ASSUME NEW v \in Conns, v # w PROVE Current(wk[v], store')
  <2> SUFFICES ASSUME wk[v].pc \in InSession, store'[wk[v].sid].valid
               PROVE  /\ NotBefore(store'[wk[v].sid].st, wk[v].st)
                      /\ wk[v].pc # "save_st" => store'[wk[v].sid].st = wk[v].st
    BY DEF Current
  <2> DEFINE s == wk[v].sid
  <2>1. s \in Conns BY Here
  <2>2. Good(wk, store, s) \/ s = v BY DEF NamesInv, WorkOk
  <2>3. wk[w].pc = "hs" => s # w BY <1>1, <1>3, <2>2
  <2>4. store[s].valid BY <2>1, <2>3 DEF Stores
  <2>5. wk[w].pc \in InSession => s # wk[w].sid BY <1>3 DEF OnePerSession
  <2>6. store'[s].st = store[s].st BY <2>1, <2>5 DEF Stores, InSession
  <2>7. Current(wk[v], store) BY DEF SeenInv
  <2> QED BY <2>4, <2>6, <2>7 DEF Current
<1>4. ASSUME NEW v \in Conns, v # w, v = nconn PROVE InOrder(cl, wk[v], store', s2c[v])
  <2>1. InOrder(cl, wk[v], store, s2c[v]) BY <1>4 DEF SeenInv
  <2> DEFINE s == wk[v].sid
  <2>2. ASSUME NEW m \in Boards(s2c[v]), store'[s].valid PROVE NotBefore(m.st, store'[s].st)
    <3>1. Good(wk, store, s) BY DEF NamesInv, MsgOk, Boards
    <3>2. s \in Conns /\ (wk[w].pc = "hs" => s # w) BY <1>1, <3>1
    <3>3. store[s].valid /\ NotBefore(store[s].st, store'[s].st) BY <2>2, <3>2, StoredForward
    <3>4. NotBefore(m.st, store[s].st) BY <2>1, <3>3 DEF InOrder
    <3>5. m.st \in Games BY BoardGames
    <3> HIDE DEF s
    <3> QED BY <1>0, <3>2, <3>3, <3>4, <3>5, NotBeforeTrans
  <2> QED BY <2>1, <2>2 DEF InOrder
<1>5. ASSUME NEW v \in Conns, wk'[v].pc \in {"none", "hs"} PROVE store'[v].st = NoGame
  <2>1. wk[v].pc \in {"none", "hs"} BY <1>5 DEF Only
  <2>2. store[v].st = NoGame /\ wk[v].sid = 0 BY <2>1, NamesHere DEF SeenInv
  <2>3. ASSUME wk[w].pc = "save_st", v = wk[w].sid PROVE FALSE
    <3>1. Good(wk, store, v) \/ v = w BY <2>3 DEF NamesInv, WorkOk, InSession
    <3>2. v # w BY <2>1, <2>3
    <3> QED BY <2>2, <3>1, <3>2 DEF Good, Conns
  <2> QED BY <2>2, <2>3 DEF Stores
<1> QED BY <1>2, <1>3, <1>4, <1>5

(* What a step of the worker w has to show for SeenInv.                    *)
SeenBy(w) ==
  /\ Stores(w) /\ Current(wk'[w], store')
  /\ wk'[w].pc \in {"none", "hs"} => wk[w].pc = "hs"
  /\ w = nconn => InOrder(cl, wk'[w], store', s2c'[w])

(* A worker that keeps its session and its game.                           *)
LEMMA SeenKept ==
  ASSUME TInv, NamesInv, SeenInv, NEW w \in Conns, Keeps(w),
         NEW msgs \in Seq(Msgs), s2c'[w] = s2c[w] \/ s2c'[w] = s2c[w] \o msgs,
         \A m \in Boards(msgs) : m.st = wk[w].st,
         Boards(msgs) # {} => wk[w].pc \in InSession \ {"save_st"},
         wk'[w].pc \in InSession =>
           wk[w].pc \in InSession \ {"save_st"} \/ ~store[wk[w].sid].valid,
         wk[w].pc \in InSession \/ store' = store,
         wk'[w].pc \in {"none", "hs"} => wk[w].pc = "hs"
  PROVE  SeenBy(w)
<1> DEFINE x == wk[w]
<1>1. Durable(cl, store) /\ Current(x, store) BY DEF SeenInv
<1>2. wk'[w].sid = x.sid /\ wk'[w].st = x.st BY DEF Keeps
<1>3. \A s \in Conns : store'[s].valid = store[s].valid /\ store'[s].st = store[s].st BY DEF Keeps
<1>4. store'[x.sid].valid = store[x.sid].valid /\ store'[x.sid].st = store[x.sid].st
  BY <1>3, Here
<1>5. Stores(w) BY <1>3 DEF Stores
<1>6. x.st \in Games /\ s2c[w] \in Seq(Msgs) BY Here
<1>7. NotBefore(x.st, x.st) BY <1>6, NotBeforeRefl
<1>8. Current(wk'[w], store') BY <1>1, <1>2, <1>4, <1>7 DEF Current
<1>9. ASSUME w = nconn PROVE InOrder(cl, wk'[w], store', s2c'[w])
  <2>1. InOrder(cl, x, store, s2c[w]) BY <1>9 DEF SeenInv
  <2>2. /\ Sorted(s2c'[w])
        /\ \A m \in Boards(s2c'[w]) :
             \/ m \in Boards(s2c[w])
             \/ m.st = x.st /\ x.pc \in InSession \ {"save_st"}
    <3>1. CASE s2c'[w] = s2c[w] BY <2>1, <3>1 DEF InOrder
    <3>2. CASE s2c'[w] = s2c[w] \o msgs
      <4>1. Sorted(s2c[w]) /\ \A m \in Boards(s2c[w]) : NotBefore(m.st, x.st) BY <2>1 DEF InOrder
      <4> HIDE DEF x
      <4>2. \A m \in Boards(msgs) : m.st = x.st BY DEF x
      <4>3. Sorted(s2c[w] \o msgs) BY <1>6, <4>1, <4>2, SortedConcat
      <4>4. Range(s2c[w] \o msgs) \subseteq Range(s2c[w]) \union Range(msgs) BY <1>6, RangeConcat
      <4>5. \A m \in Boards(s2c[w] \o msgs) : m \in Boards(s2c[w]) \/ m \in Boards(msgs)
        BY <4>4 DEF Boards
      <4> QED BY <3>2, <4>2, <4>3, <4>5 DEF x
    <3> QED BY <3>1, <3>2
  <2>3. Follows(cl, wk'[w], wk'[w].st) BY <1>2, <2>1 DEF InOrder, Follows
  <2>4. ASSUME NEW m \in Boards(s2c'[w])
        PROVE  /\ NotBefore(m.st, x.st)
               /\ store'[x.sid].valid => NotBefore(m.st, store'[x.sid].st)
               /\ Follows(cl, wk'[w], m.st)
    <3>1. CASE m \in Boards(s2c[w]) BY <1>2, <1>4, <2>1, <3>1 DEF InOrder, Follows
    <3>2. CASE m.st = x.st /\ x.pc \in InSession \ {"save_st"}
      <4>1. store[x.sid].valid => store[x.sid].st = x.st BY <1>1, <3>2 DEF Current
      <4> QED BY <1>2, <1>4, <1>7, <2>1, <3>2, <4>1 DEF InOrder, Follows
    <3> QED BY <2>2, <3>1, <3>2, SMTT(60)
  <2> QED BY <1>2, <2>2, <2>3, <2>4 DEF InOrder
<1> QED BY <1>5, <1>8, <1>9 DEF SeenBy

(* In the handshake no board has been sent.                                *)
LEMMA NoBoardYet ==
  ASSUME NamesInv, NEW w \in Conns, wk[w].pc = "hs"
  PROVE  wk[w].sid = 0 /\ Boards(s2c[w]) = {}
<1>1. wk[w].sid = 0 BY NamesHere
<1>2. \A m \in Boards(s2c[w]) : Good(wk, store, 0) BY <1>1 DEF NamesInv, MsgOk, Boards
<1> QED BY <1>1, <1>2 DEF Good, Conns

(* No boards among no packets, nor in a refused resume.                    *)
LEMMA ShortBoards ==
  /\ <<>> \in Seq(Msgs) /\ Boards(<<>>) = {}
  /\ <<NoSession>> \in Seq(Msgs) /\ Boards(<<NoSession>>) = {}
<1>1. <<>> \in Seq(Msgs) /\ Range(<<>>) = {} BY EmptySeq, RangeShort
<1>2. NoSession \in Msgs /\ NoSession.op = "RESUME_RESP"
  BY SessionsAssumption DEF NoSession, Msgs, Answers
<1>3. <<NoSession>> \in Seq(Msgs) /\ Range(<<NoSession>>) = {NoSession} BY <1>2, RangeShort
<1> QED BY <1>1, <1>2, <1>3 DEF Boards

(* A new game comes after the empty slot.                                  *)
LEMMA NewAfterNone == \A w \in Conns : NotBefore(NoGame, NewGame(w))
<1> SUFFICES ASSUME NEW w \in Conns PROVE NotBefore(NoGame, NewGame(w)) OBVIOUS
<1>1. NoGame.log = <<>> /\ NewGame(w).log = <<>> /\ NewGame(w) \in Games /\ NewGame(w).over = 0
  BY NewGameFacts
<1>2. NoGame.over = 0 /\ NoGame.deal[2] = 0 BY DEF NoGame
<1>3. NewGame(w).deal[2] \in Nat /\ <<>> \in Seq(Entries) BY <1>1, GameFields, EmptySeq
<1>4. ASSUME NEW e \in Seq(Entries) PROVE IsPrefix(e, e) BY PrefixMeans, LenProperties
<1>5. IsPrefix(NoGame.log, NewGame(w).log) BY <1>1, <1>3, <1>4
<1>6. NoGame.deal[2] <= NewGame(w).deal[2] /\ NoGame.over <= NewGame(w).over BY <1>1, <1>2, <1>3
<1> QED BY <1>5, <1>6 DEF NotBefore

(* The handshake keeps SeenInv: a resumed game is the stored one.          *)
LEMMA HsSeen ==
  ASSUME TInv, NamesInv, SeenInv, NEW w \in Conns, Only(w), Stays,
         HsLogin(w) \/ HsResume(w) \/ HsOther(w)
  PROVE  SeenBy(w)
<1>0. Durable(cl, store) BY DEF SeenInv
<1>1. wk[w].pc = "hs" BY HsLoginIs, HsResumeIs, HsOtherIs, ZenonT(60)
<1>2. wk[w].sid = 0 /\ Boards(s2c[w]) = {} /\ store[w].st = NoGame
  BY <1>1, NoBoardYet DEF SeenInv
<1>3. w # 0 BY DEF Conns
<1>4. cl.has_state => Good(wk, store, cl.st.sid) BY DEF NamesInv
<1>5. w = nconn => Sorted(s2c[w]) BY DEF SeenInv, InOrder
<1>6. CASE HsLogin(w)
  <2>1. /\ s2c' = s2c /\ wk'[w].pc = "save_st" /\ wk'[w].sid = w /\ Session(w)
        /\ wk'[w].st = NewGame(w) /\ store'[w].st = NoGame
    BY <1>2, <1>6, HsLoginIs
  <2>2. cl.has_state => cl.st.sid # w /\ cl.st.sid \in Conns BY <1>2, <1>3, <1>4 DEF Good
  <2>3. \A g : Follows(cl, wk'[w], g) BY <2>1, <2>2 DEF Follows
  <2>4. Stores(w) BY <1>1, <1>2, <2>1 DEF Stores, Session
  <2>5. Current(wk'[w], store') BY <2>1, NewAfterNone DEF Current
  <2>6. w = nconn => InOrder(cl, wk'[w], store', s2c'[w])
    BY <1>2, <1>5, <2>1, <2>3 DEF InOrder
  <2> QED BY <2>1, <2>4, <2>5, <2>6 DEF SeenBy
<1>7. CASE HsOther(w)
  <2>1. s2c' = s2c /\ store' = store /\ Moves(w, "hs") BY <1>7, HsOtherIs
  <2>2. Keeps(w) /\ wk'[w].pc \notin InSession BY <2>1 DEF Keeps, Moves, InSession
  <2> QED BY <1>1, <2>1, <2>2, ShortBoards, SeenKept
<1>8. CASE HsResume(w)
  <2> DEFINE sid == Head(c2s[w]).sid
  <2>1. /\ store' = store /\ sid \in Conns
        /\ \/ /\ store[sid].valid /\ s2c' = s2c
              /\ wk'[w].pc = "load_hand" /\ wk'[w].sid = sid
              /\ wk'[w].st = store[sid].st
           \/ ~store[sid].valid /\ Sent(w, <<NoSession>>, "hs")
    BY <1>8, HsResumeIs
  <2> HIDE DEF sid
  <2>2. CASE /\ store[sid].valid /\ s2c' = s2c
             /\ wk'[w].pc = "load_hand" /\ wk'[w].sid = sid
             /\ wk'[w].st = store[sid].st
    <3>1. Follows(cl, wk'[w], wk'[w].st) BY <1>0, <2>2, SMTT(60) DEF Follows, Durable
    <3>2. store[sid].st \in Games BY <2>1, Here DEF StoreRec
    <3>3. Current(wk'[w], store') BY <2>1, <2>2, <3>2, NotBeforeRefl DEF Current
    <3>4. w = nconn => InOrder(cl, wk'[w], store', s2c'[w])
      BY <1>2, <1>5, <2>1, <2>2, <3>1, SMTT(60) DEF InOrder
    <3>5. Stores(w) BY <2>1 DEF Stores
    <3> QED BY <2>2, <3>3, <3>4, <3>5 DEF SeenBy
  <2>3. CASE Sent(w, <<NoSession>>, "hs")
    <3>1. /\ wk'[w].pc \in {"hs", "done"} /\ Keeps(w)
          /\ s2c'[w] = s2c[w] \/ s2c'[w] = s2c[w] \o <<NoSession>>
      BY <2>1, <2>3 DEF Sent, Moves, Keeps
    <3>2. wk'[w].pc \notin InSession BY <3>1 DEF InSession
    <3> QED BY <1>1, <2>1, <3>1, <3>2, ShortBoards, SeenKept
  <2> QED BY <2>1, <2>2, <2>3
<1> QED BY <1>6, <1>7, <1>8

(* Saving keeps SeenInv: the stored game only moves forward.               *)
LEMMA SaveSeen ==
  ASSUME TInv, TInv', NamesInv, SeenInv, NEW w \in Conns,
         SaveSt(w) \/ SaveHand(w) \/ LoadHand(w)
  PROVE  SeenBy(w)
<1> DEFINE sid == wk[w].sid
<1>0. wk'[w].pc \in Pcs /\ wk[w].st \in Games BY Here DEF TInv, Types, WorkRec
<1>1. CASE SaveSt(w)
  <2>1. /\ wk[w].pc = "save_st" /\ s2c' = s2c /\ sid \in Conns
        /\ \/ /\ store[sid].valid /\ Moves(w, "save_hand")
              /\ store'[sid].valid = store[sid].valid /\ store'[sid].st = wk[w].st
              /\ Session(sid)
           \/ ~store[sid].valid /\ Moves(w, wk[w].then) /\ store' = store
    BY <1>1, SaveStIs
  <2>2. CASE store[sid].valid
    <3>1. /\ Moves(w, "save_hand") /\ store'[sid].st = wk[w].st /\ Session(sid)
          /\ store'[sid].valid = store[sid].valid
      BY <2>1, <2>2
    <3>2. wk'[w].sid = sid /\ wk'[w].st = wk[w].st /\ wk'[w].pc = "save_hand" BY <3>1 DEF Moves
    <3>3. Stores(w) BY <2>1, <3>1 DEF Stores, Session
    <3>4. Current(wk'[w], store') BY <1>0, <3>1, <3>2, NotBeforeRefl DEF Current
    <3>5. ASSUME w = nconn PROVE InOrder(cl, wk'[w], store', s2c'[w])
      <4>1. InOrder(cl, wk[w], store, s2c[w]) BY <3>5 DEF SeenInv
      <4> QED BY <2>1, <3>1, <3>2, <4>1 DEF InOrder, Follows
    <3> QED BY <3>2, <3>3, <3>4, <3>5 DEF SeenBy
  <2>3. CASE ~store[sid].valid
    <3>1. Moves(w, wk[w].then) /\ store' = store BY <2>1, <2>3
    <3>2. Keeps(w) BY <3>1 DEF Keeps, Moves
    <3>3. wk'[w].pc \notin {"none", "hs"} BY <2>1, <3>1, Here DEF Moves, WorkRec
    <3> QED BY <2>1, <2>3, <3>1, <3>2, <3>3, ShortBoards, SeenKept
  <2> QED BY <2>2, <2>3
<1>2. CASE SaveHand(w)
  <2>1. /\ wk[w].pc = "save_hand" /\ s2c' = s2c /\ sid \in Conns /\ Moves(w, wk[w].then)
        /\ store'[sid].valid = store[sid].valid /\ store'[sid].st = store[sid].st
        /\ Session(sid)
    BY <1>2, SaveHandIs
  <2>2. Keeps(w) BY <2>1 DEF Keeps, Moves, Session
  <2>3. wk[w].pc \in InSession \ {"save_st"} BY <2>1 DEF InSession
  <2>4. wk'[w].pc \notin {"none", "hs"} BY <2>1, Here DEF Moves, WorkRec
  <2> QED BY <2>1, <2>2, <2>3, <2>4, ShortBoards, SeenKept
<1>3. CASE LoadHand(w)
  <2>1. /\ wk[w].pc = "load_hand" /\ s2c' = s2c /\ store' = store /\ wk[w].sid \in Conns
        /\ wk'[w].sid = sid /\ wk'[w].st = wk[w].st /\ wk'[w].pc = "hello"
    BY <1>3, LoadHandIs
  <2>2. Keeps(w) BY <2>1 DEF Keeps
  <2>3. wk[w].pc \in InSession \ {"save_st"} BY <2>1 DEF InSession
  <2> QED BY <2>1, <2>2, <2>3, ShortBoards, SeenKept
<1> QED BY <1>1, <1>2, <1>3

(* Sending keeps SeenInv: the board that is sent is the stored one.        *)
LEMMA SendSeen ==
  ASSUME TInv, NamesInv, SeenInv, NEW w \in Conns,
         Hello(w) \/ RecvOver(w) \/ ReplyBoard(w)
  PROVE  SeenBy(w)
<1> DEFINE x == wk[w]
<1>1. PICK next \in {"recv", "ai_entry"} :
        \/ Sent(w, Greeting(x), next)
        \/ Sent(w, Board(x.st, x.hand, 1), next)
  BY HelloIs, BoardIs DEF LoopPc
<1>2. store' = store /\ x.pc \in {"hello", "recv", "reply"} BY HelloIs, BoardIs
<1>3. x \in WorkRec /\ x.st \in Games /\ x.hand \in Deals BY Here
<1>4. PICK msgs \in {Greeting(x), Board(x.st, x.hand, 1)} : Sent(w, msgs, next) BY <1>1
<1>5. msgs \in Seq(Msgs) /\ \A m \in Boards(msgs) : m.st = x.st
  BY <1>3, GreetingMsgs, BoardMsgs DEF Boards
<1>6. /\ Keeps(w) /\ (s2c'[w] = s2c[w] \/ s2c'[w] = s2c[w] \o msgs)
      /\ wk'[w].pc \notin {"none", "hs"}
  BY <1>2, <1>4 DEF Sent, Moves, Keeps
<1>7. x.pc \in InSession \ {"save_st"} BY <1>2 DEF InSession
<1> QED BY <1>2, <1>5, <1>6, <1>7, SeenKept

(* The game keeps SeenInv: the worker gets ahead of the store, never       *)
(* behind.                                                                 *)
LEMMA GameSeen ==
  ASSUME TInv, NamesInv, SeenInv, NEW w \in Conns,
         AiOnEntry(w) \/ AiTurn(w) \/ RecvPlay(w) \/ RecvEndTurn(w)
  PROVE  SeenBy(w)
<1> DEFINE x == wk[w]
           y == wk'[w]
<1>0. Current(x, store) /\ (w = nconn => InOrder(cl, x, store, s2c[w])) BY DEF SeenInv
<1>1. /\ y.pc = "save_st" /\ y.sid = x.sid /\ y.st \in Games /\ NotBefore(x.st, y.st)
      /\ s2c' = s2c /\ store' = store /\ x.pc \in {"ai_entry", "ai", "recv"}
  BY GameIs DEF GoesOn
<1>2. x.st \in Games /\ cl.st \in Games BY Here, ClientHere
<1> HIDE DEF x, y
<1>3. Current(y, store) BY <1>0, <1>1 DEF Current, InSession
<1>4. ASSUME w = nconn PROVE InOrder(cl, y, store, s2c[w])
  <2>0. InOrder(cl, x, store, s2c[w]) BY <1>0, <1>4
  <2>1. Follows(cl, y, y.st)
    <3> SUFFICES ASSUME cl.has_state, cl.st.sid = x.sid PROVE NotBefore(cl.st, y.st)
      BY <1>1 DEF Follows
    <3>1. NotBefore(cl.st, x.st) BY <2>0 DEF InOrder, Follows
    <3> QED BY <1>1, <1>2, <3>1, NotBeforeTrans
  <2>2. ASSUME NEW m \in Boards(s2c[w]) PROVE NotBefore(m.st, y.st)
    <3>1. NotBefore(m.st, x.st) /\ m.st \in Games BY <2>0, BoardGames DEF InOrder
    <3> QED BY <1>1, <1>2, <3>1, NotBeforeTrans
  <2> QED BY <1>1, <2>0, <2>1, <2>2 DEF InOrder, Follows
<1> QED BY <1>1, <1>3, <1>4 DEF y, SeenBy, Stores

(* A worker that ends keeps SeenInv.                                       *)
LEMMA StopSeen ==
  ASSUME TInv, NamesInv, SeenInv, NEW w \in Conns, WorkerEof(w) \/ HsFull(w) \/ Kill(w)
  PROVE  SeenBy(w)
<1>1. s2c' = s2c /\ store' = store /\ Moves(w, "done") BY StopIs
<1>2. Keeps(w) /\ wk'[w].pc = "done" /\ wk'[w].pc \notin InSession
  BY <1>1 DEF Keeps, Moves, InSession
<1> QED BY <1>1, <1>2, ShortBoards, SeenKept

(* Every step of a worker keeps SeenInv.                                   *)
LEMMA SeenWorker ==
  ASSUME TInv, NamesInv, OnePerSession, SeenInv, NEW w \in Conns, WorkerStep(w) \/ Kill(w)
  PROVE  SeenInv'
<1>1. Only(w) /\ Stays /\ TInv' BY WorkerEffect, OnlyOne
<1>2. SeenBy(w)
  BY <1>1, HsSeen, SaveSeen, SendSeen, GameSeen, StopSeen DEF WorkerStep
<1>3. /\ Durable(cl, store')
      /\ \A v \in Conns : v # w => /\ Current(wk[v], store')
                                   /\ v = nconn => InOrder(cl, wk[v], store', s2c[v])
      /\ \A v \in Conns : wk'[v].pc \in {"none", "hs"} => store'[v].st = NoGame
  BY <1>1, <1>2, OthersSeen DEF SeenBy
<1>4. cl' = cl /\ nconn' = nconn BY <1>1 DEF Stays
<1>5. \A v \in Conns : Current(wk'[v], store') BY <1>1, <1>2, <1>3 DEF Only, SeenBy
<1>6. \A v \in Conns : v = nconn => InOrder(cl, wk'[v], store', s2c'[v])
  BY <1>1, <1>2, <1>3 DEF Only, SeenBy
<1> QED BY <1>3, <1>4, <1>5, <1>6 DEF SeenInv

(* The steps of the client.                                                *)
LEMMA SeenClient ==
  ASSUME TInv, SeenInv, wk' = wk, store' = store, nconn' = nconn,
         cl'.st = cl.st, cl'.has_state = cl.has_state,
         \A v \in Conns : \/ s2c'[v] = s2c[v] \/ s2c'[v] = <<>>
                          \/ s2c[v] # <<>> /\ s2c'[v] = Tail(s2c[v])
  PROVE  SeenInv'
<1>1. Durable(cl', store) /\ \A w \in Conns : Current(wk[w], store) BY DEF SeenInv, Durable
<1>2. ASSUME NEW w \in Conns, w = nconn PROVE InOrder(cl', wk[w], store, s2c'[w])
  <2>1. InOrder(cl, wk[w], store, s2c[w]) BY <1>2 DEF SeenInv
  <2>2. Sorted(s2c'[w]) /\ Boards(s2c'[w]) \subseteq Boards(s2c[w])
    <3>1. Sorted(s2c[w]) /\ s2c[w] \in Seq(Msgs) BY <2>1, Here DEF InOrder
    <3>2. CASE s2c'[w] = s2c[w] BY <3>1, <3>2
    <3>3. CASE s2c'[w] = <<>> BY <3>3, ShortBoards DEF Sorted
    <3>4. CASE s2c[w] # <<>> /\ s2c'[w] = Tail(s2c[w]) BY <3>1, <3>4, SortedTail
    <3> QED BY <3>2, <3>3, <3>4
  <2> QED BY <2>1, <2>2 DEF InOrder, Follows
<1> QED BY <1>1, <1>2 DEF SeenInv

(* Taking a packet touches one queue.                                      *)
LEMMA TakenIs ==
  ASSUME TInv, cl.cur # 0, s2c[cl.cur] # <<>>, Taken
  PROVE  \A v \in Conns : \/ s2c'[v] = s2c[v]
                          \/ s2c[v] # <<>> /\ s2c'[v] = Tail(s2c[v])
BY DEF Taken, TInv, Types

(* Closing the connection keeps SeenInv.                                   *)
LEMMA CloseSeen ==
  ASSUME TInv, SeenInv, NEW c \in ClientRec, cl.cur # 0, Close(c), UNCHANGED srvVars,
         nconn' = nconn, c.st = cl.st, c.has_state = cl.has_state
  PROVE  SeenInv'
<1>1. /\ s2c' = [s2c EXCEPT ![cl.cur] = <<>>] /\ cl'.st = c.st /\ cl'.has_state = c.has_state
  BY CloseFacts
<1>2. \A v \in Conns : s2c'[v] = s2c[v] \/ s2c'[v] = <<>> BY <1>1 DEF TInv, Types
<1> QED BY <1>1, <1>2, SeenClient DEF srvVars

(* A new connection has nothing in flight yet.                             *)
LEMMA ConnectSeen ==
  ASSUME TInv, NamesInv, SeenInv, Connect
  PROVE  SeenInv'
<1> DEFINE w == nconn + 1
<1>1. /\ w \in Conns /\ wk' = [wk EXCEPT ![w] = [wk[w] EXCEPT !.pc = "hs"]] /\ wk[w].pc = "none"
      /\ cl' = [cl EXCEPT !.cur = w] /\ store' = store /\ s2c' = s2c /\ nconn' = w /\ cl.cur = 0
  BY ConnectFacts
<1> HIDE DEF w
<1>2. Moves(w, "hs") BY <1>1, MovesFacts
<1>3. wk'[w].pc = "hs" /\ wk'[w].sid = 0 BY <1>1, <1>2, NamesHere DEF Moves
<1>4. cl'.st = cl.st /\ cl'.has_state = cl.has_state BY <1>1, ClientHere DEF ClientRec
<1>5. cl.has_state => cl.st.sid # 0 BY DEF NamesInv, Good, Conns
<1>6. \A g : Follows(cl', wk'[w], g) BY <1>3, <1>4, <1>5 DEF Follows
<1>7. s2c[w] = <<>> BY <1>1 DEF TInv, ConnInv, Conns
<1>8. Boards(s2c'[w]) = {} /\ Sorted(s2c'[w]) BY <1>1, <1>7, ShortBoards DEF Sorted
<1>9. wk'[w].pc \notin InSession BY <1>3 DEF InSession
<1>10. InOrder(cl', wk'[w], store, s2c'[w]) BY <1>6, <1>8, <1>9 DEF InOrder
<1>11. Durable(cl', store) BY <1>4 DEF SeenInv, Durable
<1>12. \A v \in Conns : v # w => wk'[v] = wk[v] BY <1>1 DEF TInv, Types
<1>13. \A v \in Conns : Current(wk'[v], store) BY <1>9, <1>12 DEF SeenInv, Current
<1>14. \A v \in Conns : wk'[v].pc \in {"none", "hs"} => store[v].st = NoGame
  BY <1>1, <1>12 DEF SeenInv
<1> QED BY <1>1, <1>10, <1>11, <1>13, <1>14 DEF SeenInv

(* The board that arrives is not before the one on the screen, and not     *)
(* after the ones behind it, the worker's and the stored one.              *)
LEMMA StateSeen ==
  ASSUME TInv, NamesInv, SeenInv, OnState
  PROVE  /\ SeenInv'
         /\ cl.has_state /\ cl'.st.sid = cl.st.sid => NotBefore(cl.st, cl'.st)
<1> DEFINE m == Head(s2c[cl.cur])
<1>1. /\ cl.cur # 0 /\ cl.cur \in Conns /\ s2c[cl.cur] # <<>> /\ s2c[cl.cur] \in Seq(Msgs)
      /\ m.op = "STATE" /\ cl.cur = nconn
  BY IncomingFacts, ClientHere DEF OnState
<1>2. /\ s2c' = [s2c EXCEPT ![cl.cur] = Tail(s2c[cl.cur])] /\ wk' = wk /\ store' = store
      /\ nconn' = nconn
  BY DEF OnState, Taken, srvVars, bounds
<1>3. m \in Range(s2c[cl.cur]) BY <1>1, RangeTail
<1>4. m \in Boards(s2c[cl.cur]) BY <1>1, <1>3 DEF Boards
<1>5. m.st.sid = wk[cl.cur].sid BY <1>1, <1>3 DEF NamesInv, MsgOk
<1>6. cl'.st = m.st /\ cl'.has_state = TRUE BY OnStateFacts
<1>7. InOrder(cl, wk[cl.cur], store, s2c[cl.cur]) BY <1>1 DEF SeenInv
<1>8. Sorted(s2c[cl.cur]) BY <1>7 DEF InOrder
<1>9. /\ Sorted(Tail(s2c[cl.cur])) /\ Boards(Tail(s2c[cl.cur])) \subseteq Boards(s2c[cl.cur])
      /\ \A b \in Boards(Tail(s2c[cl.cur])) : NotBefore(m.st, b.st)
  BY <1>1, <1>8, SortedTail
<1>10. s2c'[cl.cur] = Tail(s2c[cl.cur]) BY <1>1, <1>2 DEF TInv, Types
<1> HIDE DEF m
<1>11. /\ NotBefore(m.st, wk[cl.cur].st)
       /\ store[wk[cl.cur].sid].valid => NotBefore(m.st, store[wk[cl.cur].sid].st)
       /\ Follows(cl, wk[cl.cur], m.st)
  BY <1>4, <1>7, SMTT(60) DEF InOrder
<1>12. Durable(cl', store) BY <1>5, <1>6, <1>11 DEF Durable
<1>13. InOrder(cl', wk[cl.cur], store, s2c'[cl.cur])
  BY <1>6, <1>7, <1>9, <1>10, <1>11 DEF InOrder, Follows
<1>14. SeenInv' BY <1>1, <1>2, <1>12, <1>13 DEF SeenInv
<1>15. cl.has_state /\ cl'.st.sid = cl.st.sid => NotBefore(cl.st, cl'.st)
  BY <1>5, <1>6, <1>11 DEF Follows
<1> QED BY <1>14, <1>15

(* Every step keeps SeenInv, and the screen does not go back.              *)
LEMMA SeenStep ==
  ASSUME TInv, NamesInv, OnePerSession, SeenInv, [Next]_vars
  PROVE  SeenInv' /\ (cl.has_state /\ cl'.st.sid = cl.st.sid => NotBefore(cl.st, cl'.st))
<1> DEFINE Forward == cl.has_state /\ cl'.st.sid = cl.st.sid => NotBefore(cl.st, cl'.st)
<1>0. ASSUME cl'.st = cl.st PROVE Forward
  <2>1. cl.st \in Games BY ClientHere
  <2> QED BY <1>0, <2>1, NotBeforeRefl
<1>1. ASSUME NEW w \in Conns, WorkerStep(w) \/ Kill(w) PROVE SeenInv' /\ Forward
  <2>1. cl' = cl BY <1>1, WorkerEffect, OnlyOne DEF Stays
  <2> QED BY <1>0, <1>1, <2>1, SeenWorker
<1>2. CASE Connect
  <2>1. cl' = [cl EXCEPT !.cur = nconn + 1] BY <1>2, ConnectFacts
  <2>2. cl'.st = cl.st BY <2>1, ClientHere DEF ClientRec
  <2> QED BY <1>0, <1>2, <2>2, ConnectSeen
<1>3. ASSUME NEW c \in ClientRec, cl.cur # 0, Close(c), UNCHANGED <<srvVars, bounds>>,
             c.st = cl.st, c.has_state = cl.has_state
      PROVE  SeenInv' /\ Forward
  <2>1. cl'.st = cl.st BY <1>3, CloseFacts
  <2>2. nconn' = nconn /\ UNCHANGED srvVars BY <1>3 DEF bounds
  <2> QED BY <1>0, <1>3, <2>1, <2>2, CloseSeen
<1>4. CASE ConnLost \/ ClientEof
  BY <1>3, <1>4, ClientHere DEF ConnLost, ClientEof
<1>5. CASE OnResumeResp
  <2> DEFINE m == Head(s2c[cl.cur])
  <2>1. cl.cur # 0 /\ s2c[cl.cur] # <<>> BY <1>5, IncomingFacts DEF OnResumeResp
  <2>2. UNCHANGED <<srvVars, bounds>> BY <1>5 DEF OnResumeResp
  <2>3. CASE m.ok
    <3>1. Taken /\ cl' = [cl EXCEPT !.sid = m.sid] BY <1>5, <2>3 DEF OnResumeResp
    <3> HIDE DEF m
    <3>2. cl'.st = cl.st /\ cl'.has_state = cl.has_state BY <3>1, ClientHere DEF ClientRec
    <3>3. wk' = wk /\ store' = store /\ nconn' = nconn BY <2>2 DEF srvVars, bounds
    <3> QED BY <1>0, <2>1, <3>1, <3>2, <3>3, TakenIs, SeenClient
  <2>4. CASE ~m.ok
    <3>1. Close([cl EXCEPT !.sid = 0]) BY <1>5, <2>4 DEF OnResumeResp
    <3>2. /\ [cl EXCEPT !.sid = 0] \in ClientRec
          /\ [cl EXCEPT !.sid = 0].st = cl.st /\ [cl EXCEPT !.sid = 0].has_state = cl.has_state
      BY ClientHere, SessionsAssumption DEF ClientRec
    <3> QED BY <1>3, <2>1, <2>2, <3>1, <3>2
  <2> QED BY <2>3, <2>4
<1>6. CASE OnState BY <1>6, StateSeen
<1>7. CASE OnHand
  <2>1. cl.cur # 0 /\ s2c[cl.cur] # <<>> BY <1>7 DEF OnHand, Incoming
  <2>2. Taken /\ wk' = wk /\ store' = store /\ nconn' = nconn BY <1>7 DEF OnHand, srvVars, bounds
  <2>3. cl'.st = cl.st /\ cl'.has_state = cl.has_state BY <1>7, OnHandFacts
  <2> QED BY <1>0, <2>1, <2>2, <2>3, TakenIs, SeenClient
<1>8. ASSUME wk' = wk, store' = store, nconn' = nconn, s2c' = s2c, cl'.st = cl.st,
             cl'.has_state = cl.has_state
      PROVE  SeenInv' /\ Forward
  BY <1>0, <1>8, SeenClient
<1>9. CASE NetSend BY <1>8, <1>9, NetSendFacts DEF srvVars, bounds
<1>10. CASE PressEndTurn \/ PressSelected
  <2>1. PICK op \in Kinds : Command(op) BY <1>10 DEF PressEndTurn, PressSelected, Kinds
  <2> QED BY <1>8, <2>1, CommandFacts DEF srvVars, netVars
<1>11. ASSUME NEW sel \in BOOLEAN, PressOther(sel) PROVE SeenInv' /\ Forward
  <2>1. cl' = [cl EXCEPT !.selected = sel] /\ UNCHANGED <<srvVars, netVars, bounds>>
    BY <1>11 DEF PressOther
  <2>2. cl'.st = cl.st /\ cl'.has_state = cl.has_state BY <2>1, ClientHere DEF ClientRec
  <2> QED BY <1>8, <2>1, <2>2 DEF srvVars, netVars, bounds
<1>12. CASE GuiEnds
  <2> DEFINE c == [cl EXCEPT !.running = FALSE]
  <2>1. /\ c \in ClientRec /\ c.st = cl.st /\ c.has_state = cl.has_state
        /\ UNCHANGED <<srvVars, bounds>>
    BY <1>12, GuiEndsFacts
  <2>2. CASE cl.cur # 0
    <3>1. Close(c) BY <1>12, <2>2 DEF GuiEnds
    <3> HIDE DEF c
    <3> QED BY <1>3, <2>1, <2>2, <3>1
  <2>3. CASE cl.cur = 0
    <3>1. cl' = c /\ UNCHANGED netVars BY <1>12, <2>3 DEF GuiEnds
    <3> HIDE DEF c
    <3> QED BY <1>8, <2>1, <3>1 DEF srvVars, netVars, bounds
  <2> QED BY <2>2, <2>3
<1>13. CASE Restart
  <2>1. /\ cl' = cl /\ wk' = wk /\ s2c' = s2c /\ nconn' = nconn
        /\ store' = [s \in Conns |-> [valid |-> FALSE, st |-> NoGame, hand |-> NoHand]]
    BY <1>13 DEF Restart, netVars
  <2>2. \A s \in Conns : store'[s].valid = FALSE /\ store'[s].st = NoGame BY <2>1
  <2>3. cl.has_state => cl.st.sid \in Conns BY DEF NamesInv, Good
  <2>4. Durable(cl, store') BY <2>2, <2>3 DEF Durable
  <2>5. ASSUME NEW w \in Conns, w = nconn PROVE InOrder(cl, wk[w], store', s2c[w])
    <3>1. InOrder(cl, wk[w], store, s2c[w]) BY <2>5 DEF SeenInv
    <3>2. \A m \in Boards(s2c[w]) : wk[w].sid \in Conns BY DEF Boards, NamesInv, MsgOk, Good
    <3> QED BY <2>2, <3>1, <3>2 DEF InOrder
  <2>6. \A w \in Conns : Current(wk[w], store') BY <2>2, Here DEF Current
  <2>7. SeenInv' BY <2>1, <2>2, <2>4, <2>5, <2>6 DEF SeenInv
  <2> QED BY <1>0, <2>1, <2>7
<1>14. CASE UNCHANGED vars BY <1>8, <1>14 DEF vars
<1> QED BY <1>1, <1>2, <1>4, <1>5, <1>6, <1>7, <1>9, <1>10, <1>11, <1>12, <1>13, <1>14
        DEF Next, ClientStep

(* Screen, packets, workers and store are in this order, as long as no two *)
(* workers are in the same session.                                        *)
LEMMA OrderInvariance == Spec /\ []OnePerSession => [](TInv /\ NamesInv /\ SeenInv)
<1>1. Init => TInv /\ NamesInv /\ SeenInv
  <2> SUFFICES ASSUME Init PROVE TInv /\ NamesInv /\ SeenInv OBVIOUS
  <2>1. TInv /\ NamesInv BY InitTypes, NamesInit
  <2>2. nconn = 0 /\ cl.has_state = FALSE BY DEF Init
  <2>3. \A w \in Conns : wk[w].pc = "none" /\ store[w].st = NoGame BY DEF Init
  <2>4. SeenInv BY <2>2, <2>3 DEF SeenInv, Durable, Current, InSession, Conns
  <2> QED BY <2>1, <2>4
<1>2. TInv /\ NamesInv /\ SeenInv /\ OnePerSession /\ [Next]_vars => (TInv /\ NamesInv /\ SeenInv)'
  BY TypesStep, NamesStep, SeenStep
<1> QED BY <1>1, <1>2, PTL DEF Spec

(* With any number of workers at once, as long as no two of them are in    *)
(* the same session, what the player has seen is stored, whatever is       *)
(* killed, lost or restarted.                                              *)
THEOREM SeenIfApart == Spec /\ []OnePerSession => []SeenIsDurable
<1>1. SeenInv => SeenIsDurable BY DEF SeenInv, Durable, SeenIsDurable
<1> QED BY <1>1, OrderInvariance, PTL

(* Nor does the board on the screen go back in its game then: a resume     *)
(* that does not wait for the session's old worker is the only way to      *)
(* that.                                                                   *)
THEOREM OnlyTwinsRollBack == Spec /\ []OnePerSession => NoRollback
<1>1. TInv /\ NamesInv /\ SeenInv /\ OnePerSession /\ [Next]_vars
        => [cl.has_state /\ cl'.st.sid = cl.st.sid => NotBefore(cl.st, cl'.st)]_vars
  BY SeenStep
<1>2. Spec /\ []OnePerSession
        => [][cl.has_state /\ cl'.st.sid = cl.st.sid => NotBefore(cl.st, cl'.st)]_vars
  BY <1>1, OrderInvariance, PTL DEF Spec
<1> QED BY <1>2 DEF NoRollback

-----------------------------------------------------------------------------
(* Each board is followed by its hand.                                     *)

(* u: is the hand known to be the one dealt for the board?                 *)
HandNext(q) == q # <<>> /\ q[1].op = "HAND"
QueueOk(q, u) ==
  \A i \in DOMAIN q :
    /\ q[i].op = "STATE" =>
         i + 1 \in DOMAIN q /\ q[i + 1].op = "HAND" /\ (u => q[i + 1].hand = q[i].st.deal)
    /\ i + 1 \in DOMAIN q /\ q[i + 1].op = "HAND" => q[i].op = "STATE"
ScreenOk(c, q, u) ==
  /\ c.connected => c.has_state
  /\ HandNext(q) => (u => q[1].hand = c.st.deal)
  /\ c.connected /\ ~HandNext(q) => c.has_hand /\ (u => c.hand = c.st.deal)
ShowInv ==
  /\ cl.cur = 0 => ~cl.connected
  /\ cl.cur # 0 => /\ QueueOk(s2c[cl.cur], Undisturbed)
                   /\ ScreenOk(cl, s2c[cl.cur], Undisturbed)

(* The hand of a worker, and of the store, is the one dealt for the game   *)
(* next to it, but for the session whose save is under way.                *)
HandsOk(x, t) ==
  /\ x.pc \in InSession \ {"load_hand"} => x.hand = x.st.deal
  /\ x.pc = "load_hand" => t[x.sid].hand = x.st.deal
  /\ x.pc = "save_hand" => t[x.sid].st = x.st
Paired(r) == r.hand = r.st.deal
HandsInv ==
  Undisturbed =>
    /\ \A s \in Conns : Paired(store[s]) \/ \E w \in Conns : wk[w].pc = "save_hand" /\ wk[w].sid = s
    /\ \A w \in Conns : HandsOk(wk[w], store)

(* An empty queue.                                                         *)
LEMMA QueueEmpty ==
  ASSUME NEW u
  PROVE  QueueOk(<<>>, u) /\ ~HandNext(<<>>)
BY DEF QueueOk, HandNext

(* What holds of an undisturbed run holds of a disturbed one, less the     *)
(* deals.                                                                  *)
LEMMA QueueWeaker ==
  ASSUME NEW q, NEW u \in BOOLEAN, NEW v \in BOOLEAN, v => u, NEW c
  PROVE  /\ QueueOk(q, u) => QueueOk(q, v)
         /\ ScreenOk(c, q, u) => ScreenOk(c, q, v)
BY DEF QueueOk, ScreenOk

(* Taking a packet keeps boards and hands paired; behind a board is its    *)
(* hand.                                                                   *)
LEMMA QueueTail ==
  ASSUME NEW q \in Seq(Msgs), q # <<>>, NEW u \in BOOLEAN, QueueOk(q, u)
  PROVE  /\ QueueOk(Tail(q), u) /\ Head(q) = q[1]
         /\ HandNext(Tail(q)) <=> Head(q).op = "STATE"
         /\ Head(q).op = "STATE" => (u => Tail(q)[1].hand = Head(q).st.deal)
<1> DEFINE p == Tail(q)
<1>1. /\ p \in Seq(Msgs) /\ Len(p) = Len(q) - 1 /\ Len(q) \in Nat
      /\ \A i \in 1..Len(p) : p[i] = q[i + 1]
  BY HeadTailProperties, LenProperties
<1>2. DOMAIN q = 1..Len(q) /\ DOMAIN p = 1..Len(p) BY <1>1, LenProperties
<1>3. Head(q) = q[1] /\ Len(q) # 0 BY EmptySeq
<1>4. p = <<>> <=> Len(p) = 0 BY <1>1, EmptySeq
<1> HIDE DEF p
<1>5. \A i \in DOMAIN p : /\ i + 1 \in DOMAIN q /\ p[i] = q[i + 1]
                          /\ i + 1 \in DOMAIN p <=> (i + 1) + 1 \in DOMAIN q
                          /\ i + 1 \in DOMAIN p => p[i + 1] = q[(i + 1) + 1]
  BY <1>1, <1>2
<1>6. QueueOk(p, u)
  <2> SUFFICES ASSUME NEW i \in DOMAIN p
               PROVE  /\ p[i].op = "STATE" =>
                           /\ i + 1 \in DOMAIN p /\ p[i + 1].op = "HAND"
                           /\ u => p[i + 1].hand = p[i].st.deal
                      /\ i + 1 \in DOMAIN p /\ p[i + 1].op = "HAND" => p[i].op = "STATE"
    BY DEF QueueOk
  <2> DEFINE k == i + 1
  <2>1. k \in DOMAIN q BY <1>5
  <2> HIDE DEF k
  <2>2. /\ q[k].op = "STATE" =>
             k + 1 \in DOMAIN q /\ q[k + 1].op = "HAND" /\ (u => q[k + 1].hand = q[k].st.deal)
        /\ k + 1 \in DOMAIN q /\ q[k + 1].op = "HAND" => q[k].op = "STATE"
    BY <2>1 DEF QueueOk
  <2> QED BY <1>5, <2>2 DEF k
<1>7. 1 \in DOMAIN q /\ (1 \in DOMAIN p <=> 2 \in DOMAIN q) /\ (1 \in DOMAIN p => p[1] = q[2])
  BY <1>1, <1>2, <1>3
<1>8. p # <<>> <=> 1 \in DOMAIN p BY <1>1, <1>2, <1>4, <1>3
<1>9. 1 + 1 = 2 OBVIOUS
<1>10. /\ q[1].op = "STATE" => 2 \in DOMAIN q /\ q[2].op = "HAND" /\ (u => q[2].hand = q[1].st.deal)
       /\ 2 \in DOMAIN q /\ q[2].op = "HAND" => q[1].op = "STATE"
  BY <1>7, <1>9 DEF QueueOk
<1>11. /\ HandNext(p) <=> Head(q).op = "STATE"
       /\ Head(q).op = "STATE" => (u => p[1].hand = Head(q).st.deal)
  BY <1>3, <1>7, <1>8, <1>10 DEF HandNext
<1> QED BY <1>3, <1>6, <1>11 DEF p

(* Two queues of paired boards and hands, one behind the other.            *)
LEMMA QueueConcat ==
  ASSUME NEW q \in Seq(Msgs), NEW r \in Seq(Msgs), NEW u \in BOOLEAN,
         QueueOk(q, u), QueueOk(r, u), ~HandNext(r)
  PROVE  /\ QueueOk(q \o r, u) /\ (HandNext(q \o r) <=> HandNext(q))
         /\ HandNext(q) => (q \o r)[1] = q[1]
<1> DEFINE p == q \o r
           n == Len(q)
<1>1. /\ Len(p) = n + Len(r) /\ p \in Seq(Msgs) /\ n \in Nat /\ Len(r) \in Nat
      /\ \A i \in 1..Len(p) : p[i] = IF i <= n THEN q[i] ELSE r[i - n]
  BY ConcatProperties, LenProperties
<1>2. DOMAIN q = 1..n /\ DOMAIN p = 1..Len(p) /\ DOMAIN r = 1..Len(r) BY <1>1, LenProperties
<1>3. (p = <<>> <=> Len(p) = 0) /\ (q = <<>> <=> n = 0) /\ (r = <<>> <=> Len(r) = 0)
  BY <1>1, EmptySeq
<1> HIDE DEF p, n
<1>4. \A i \in DOMAIN p : i <= n => i \in DOMAIN q /\ p[i] = q[i] BY <1>1, <1>2
<1>5. \A i \in DOMAIN p : ~(i <= n) => i - n \in DOMAIN r /\ p[i] = r[i - n] BY <1>1, <1>2
<1>6. r # <<>> => 1 \in DOMAIN r BY <1>1, <1>2, <1>3
<1>7. n + 1 \in DOMAIN p => p[n + 1].op # "HAND"
  <2> SUFFICES ASSUME n + 1 \in DOMAIN p PROVE p[n + 1].op # "HAND" OBVIOUS
  <2>1. ~(n + 1 <= n) /\ (n + 1) - n = 1 BY <1>1
  <2>2. 1 \in DOMAIN r /\ p[n + 1] = r[1] BY <1>5, <2>1
  <2>3. r # <<>> BY <1>1, <1>2, <1>3, <2>2
  <2> QED BY <2>2, <2>3 DEF HandNext
<1>8. ASSUME NEW i \in DOMAIN p
      PROVE  /\ p[i].op = "STATE" =>
                  i + 1 \in DOMAIN p /\ p[i + 1].op = "HAND" /\ (u => p[i + 1].hand = p[i].st.deal)
             /\ i + 1 \in DOMAIN p /\ p[i + 1].op = "HAND" => p[i].op = "STATE"
  <2>1. CASE i <= n
    <3>1. i \in DOMAIN q /\ p[i] = q[i] BY <1>4, <2>1
    <3>2. CASE i = n
      <4>1. i + 1 \notin DOMAIN q BY <1>1, <1>2, <3>2
      <4>2. p[i].op # "STATE" BY <3>1, <4>1 DEF QueueOk
      <4> QED BY <1>7, <3>2, <4>2
    <3>3. CASE i # n
      <4>1. i + 1 \in DOMAIN q /\ i + 1 \in DOMAIN p /\ i + 1 <= n
        BY <1>1, <1>2, <2>1, <3>1, <3>3
      <4>2. p[i + 1] = q[i + 1] BY <1>4, <4>1
      <4> QED BY <3>1, <4>1, <4>2 DEF QueueOk
    <3> QED BY <3>2, <3>3
  <2>2. CASE ~(i <= n)
    <3> DEFINE k == i - n
    <3>1. k \in DOMAIN r /\ p[i] = r[k] BY <1>5, <2>2
    <3>2. i + 1 \in DOMAIN p <=> k + 1 \in DOMAIN r BY <1>1, <1>2, <2>2, SMTT(60)
    <3>3. ~(i + 1 <= n) /\ (i + 1) - n = k + 1 BY <1>1, <1>2, <2>2
    <3>4. i + 1 \in DOMAIN p => p[i + 1] = r[k + 1] BY <1>5, <3>3
    <3> HIDE DEF k
    <3> QED BY <3>1, <3>2, <3>4 DEF QueueOk
  <2> QED BY <2>1, <2>2
<1>9. QueueOk(p, u) BY <1>8 DEF QueueOk
<1>10. CASE n = 0
  <2>1. 1 \in DOMAIN p => p[1].op # "HAND" BY <1>7, <1>10
  <2>2. p # <<>> => 1 \in DOMAIN p BY <1>1, <1>2, <1>3
  <2>3. ~HandNext(p) /\ ~HandNext(q) BY <1>3, <1>10, <2>1, <2>2 DEF HandNext
  <2> QED BY <1>9, <2>3 DEF p
<1>11. CASE n # 0
  <2>1. 1 \in DOMAIN p /\ 1 <= n /\ p # <<>> /\ q # <<>> BY <1>1, <1>2, <1>3, <1>11
  <2>2. p[1] = q[1] BY <1>4, <2>1
  <2> QED BY <1>9, <2>1, <2>2 DEF HandNext, p
<1> QED BY <1>10, <1>11

(* What a worker sends is a board with its hand behind it.                 *)
LEMMA QueueAnswers ==
  ASSUME NEW x \in WorkRec, NEW u \in BOOLEAN, u => x.hand = x.st.deal, NEW ack \in {0, 1}
  PROVE  /\ QueueOk(Board(x.st, x.hand, ack), u) /\ ~HandNext(Board(x.st, x.hand, ack))
         /\ QueueOk(Greeting(x), u) /\ ~HandNext(Greeting(x))
<1>0. x.st \in Games /\ x.hand \in Deals /\ x.sid \in 0..MaxConns BY DEF WorkRec
<1>1. ASSUME NEW a \in {0, 1}
      PROVE  /\ Board(x.st, x.hand, a) \in Seq(Msgs)
             /\ QueueOk(Board(x.st, x.hand, a), u) /\ ~HandNext(Board(x.st, x.hand, a))
  <2> DEFINE b == Board(x.st, x.hand, a)
             g == x.st
             h == x.hand
  <2>0. g \in Games /\ h \in Deals BY <1>0
  <2>1. /\ b \in Seq(Msgs) /\ Len(b) = 2 /\ b[1] = [op |-> "STATE", st |-> x.st, ack |-> a]
        /\ b[2] = [op |-> "HAND", hand |-> x.hand]
    <3> HIDE DEF g, h
    <3>1. /\ Board(g, h, a) \in Seq(Msgs) /\ Len(Board(g, h, a)) = 2
          /\ Board(g, h, a)[1] = [op |-> "STATE", st |-> g, ack |-> a]
          /\ Board(g, h, a)[2] = [op |-> "HAND", hand |-> h]
      BY <2>0, BoardFacts, ZenonT(60)
    <3> QED BY <3>1 DEF g, h
  <2>2. DOMAIN b = 1..2 BY <2>1, LenProperties
  <2> HIDE DEF b
  <2>3. /\ b[1].op = "STATE" /\ b[1].st = x.st /\ b[2].op = "HAND" /\ b[2].hand = x.hand BY <2>1
  <2>4. /\ \A i \in DOMAIN b : i = 1 \/ i = 2
        /\ 1 + 1 = 2 /\ 2 \in DOMAIN b /\ 2 + 1 \notin DOMAIN b
    BY <2>2
  <2>5. QueueOk(b, u) /\ ~HandNext(b) BY <2>3, <2>4 DEF QueueOk, HandNext
  <2> QED BY <2>1, <2>5 DEF b
<1> DEFINE m == [op |-> "RESUME_RESP", ok |-> TRUE, sid |-> x.sid]
           b == Board(x.st, x.hand, 0)
           a == <<m>>
<1>2. m \in Answers /\ m.op = "RESUME_RESP" BY <1>0 DEF Answers
<1>3. Greeting(x) = <<m>> \o Board(x.st, x.hand, 0) BY DEF Greeting
<1>4. m \in Msgs BY <1>2 DEF Msgs
<1> HIDE DEF m
<1>5. DOMAIN <<m>> = {1} /\ <<m>>[1] = m /\ <<m>> \in Seq(Msgs) BY <1>4
<1>6. QueueOk(<<m>>, u) /\ ~HandNext(<<m>>) BY <1>2, <1>5 DEF QueueOk, HandNext
<1>7. b \in Seq(Msgs) /\ QueueOk(b, u) /\ ~HandNext(b) BY <1>1
<1>8. Greeting(x) = a \o b /\ a \in Seq(Msgs) /\ QueueOk(a, u) /\ ~HandNext(a) BY <1>3, <1>5, <1>6
<1> HIDE DEF a, b
<1>9. QueueOk(a \o b, u) /\ ~HandNext(a \o b) BY <1>7, <1>8, QueueConcat
<1>10. QueueOk(Greeting(x), u) /\ ~HandNext(Greeting(x)) BY <1>8, <1>9
<1> QED BY <1>1, <1>10

(* A refused resume has neither a board nor a hand.                        *)
LEMMA QueueNoSession ==
  ASSUME NEW u \in BOOLEAN
  PROVE  QueueOk(<<NoSession>>, u) /\ ~HandNext(<<NoSession>>)
<1>1. NoSession.op = "RESUME_RESP" BY DEF NoSession
<1>2. DOMAIN <<NoSession>> = {1} /\ <<NoSession>>[1] = NoSession OBVIOUS
<1> QED BY <1>1, <1>2 DEF QueueOk, HandNext

(* The stored game and hand of session s stay.                             *)
Alike(s) == store'[s].st = store[s].st /\ store'[s].hand = store[s].hand

(* The steps of the worker: hands.                                         *)
LEMMA HandsWorker ==
  ASSUME TInv, OnePerSession, HandsInv, NEW w \in Conns, Only(w), Undisturbed,
         HandsOk(wk'[w], store'),
         \A s \in Conns : \/ Alike(s)
                          \/ wk[w].pc \in InSession /\ wk[w].sid = s,
         \A s \in Conns : \/ Paired(store'[s]) \/ (wk'[w].pc = "save_hand" /\ wk'[w].sid = s)
                          \/ Alike(s) /\ ~(wk[w].pc = "save_hand" /\ wk[w].sid = s)
  PROVE  HandsInv'
<1>1. ASSUME NEW s \in Conns
      PROVE  Paired(store'[s]) \/ \E v \in Conns : wk'[v].pc = "save_hand" /\ wk'[v].sid = s
  <2>1. CASE Alike(s) /\ ~(wk[w].pc = "save_hand" /\ wk[w].sid = s)
    <3>1. CASE Paired(store[s]) BY <2>1, <3>1 DEF Alike, Paired
    <3>2. ASSUME NEW v \in Conns, wk[v].pc = "save_hand", wk[v].sid = s
          PROVE  wk'[v].pc = "save_hand" /\ wk'[v].sid = s
      BY <2>1, <3>2 DEF Only
    <3> QED BY <3>1, <3>2 DEF HandsInv
  <2> QED BY <2>1
<1>2. ASSUME NEW v \in Conns PROVE HandsOk(wk'[v], store')
  <2>1. CASE v = w BY <2>1
  <2>2. CASE v # w
    <3>1. wk'[v] = wk[v] /\ HandsOk(wk[v], store) BY <2>2 DEF Only, HandsInv
    <3>2. ASSUME wk[v].pc \in InSession PROVE Alike(wk[v].sid)
      <4>1. wk[v].sid \in Conns BY <3>2, Here
      <4>2. ~(wk[w].pc \in InSession /\ wk[w].sid = wk[v].sid) BY <2>2, <3>2 DEF OnePerSession
      <4> QED BY <4>1, <4>2
    <3> QED BY <3>1, <3>2 DEF HandsOk, InSession, Alike
  <2> QED BY <2>1, <2>2
<1> QED BY <1>1, <1>2 DEF HandsInv

(* A worker that keeps its game and its hand, away from the saves.         *)
LEMMA HandsKept ==
  ASSUME TInv, OnePerSession, HandsInv, NEW w \in Conns, Only(w), Undisturbed,
         wk'[w].st = wk[w].st, wk'[w].hand = wk[w].hand, store' = store,
         wk[w].pc # "save_hand", wk'[w].pc \notin {"save_hand", "load_hand"},
         wk'[w].pc \in InSession => wk[w].pc \in InSession \ {"load_hand"}
  PROVE  HandsInv'
<1>1. HandsOk(wk[w], store) BY DEF HandsInv
<1>2. HandsOk(wk'[w], store') BY <1>1 DEF HandsOk, InSession
<1>3. \A s \in Conns : Alike(s) BY DEF Alike
<1> QED BY <1>2, <1>3, HandsWorker

(* Every step of a worker keeps HandsInv.                                  *)
LEMMA HandsStep ==
  ASSUME TInv, OnePerSession, OnePerSession', HandsInv, NEW w \in Conns, WorkerStep(w) \/ Kill(w)
  PROVE  HandsInv'
<1>1. Only(w) /\ Stays BY WorkerEffect, OnlyOne
<1>2. SUFFICES ASSUME Undisturbed' PROVE HandsInv' BY DEF HandsInv
<1>3. ~killed' /\ nrestart = 0 BY <1>1, <1>2 DEF Undisturbed, Stays
<1>4. ASSUME killed' = killed PROVE Undisturbed BY <1>3, <1>4 DEF Undisturbed
<1>5. CASE HsLogin(w)
  <2>1. /\ wk[w].pc = "hs" /\ killed' = killed /\ wk'[w].pc = "save_st"
        /\ wk'[w].st = NewGame(w) /\ wk'[w].hand = NewGame(w).deal
        /\ store'[w].st = store[w].st /\ store'[w].hand = store[w].hand /\ Session(w)
    BY <1>5, HsLoginIs
  <2>2. HandsOk(wk'[w], store') BY <2>1 DEF HandsOk
  <2>3. Undisturbed BY <1>4, <2>1
  <2>4. \A s \in Conns : Alike(s) BY <2>1 DEF Session, Alike
  <2> QED BY <1>1, <2>1, <2>2, <2>3, <2>4, HandsWorker
<1>6. CASE HsResume(w)
  <2> DEFINE sid == Head(c2s[w]).sid
  <2>1. /\ wk[w].pc = "hs" /\ store' = store /\ killed' = killed /\ sid \in Conns
        /\ \/ /\ wk'[w].pc = "load_hand" /\ wk'[w].sid = sid /\ wk'[w].st = store[sid].st
           \/ Sent(w, <<NoSession>>, "hs")
    BY <1>6, HsResumeIs
  <2> HIDE DEF sid
  <2>2. Undisturbed BY <1>4, <2>1
  <2>3. CASE wk'[w].pc = "load_hand" /\ wk'[w].sid = sid /\ wk'[w].st = store[sid].st
    <3>1. \A v \in Conns : ~(wk[v].pc = "save_hand" /\ wk[v].sid = sid)
      <4> SUFFICES ASSUME NEW v \in Conns, wk[v].pc = "save_hand", wk[v].sid = sid PROVE FALSE
        OBVIOUS
      <4>1. v # w BY <2>1
      <4>2. wk'[v].pc = "save_hand" /\ wk'[v].sid = sid BY <1>1, <4>1 DEF Only
      <4> QED BY <2>3, <4>1, <4>2 DEF OnePerSession, InSession
    <3>2. Paired(store[sid]) BY <2>1, <2>2, <3>1 DEF HandsInv
    <3>3. HandsOk(wk'[w], store') BY <2>1, <2>3, <3>2 DEF HandsOk, Paired
    <3>4. \A s \in Conns : Alike(s) BY <2>1 DEF Alike
    <3> QED BY <1>1, <2>1, <2>2, <3>3, <3>4, HandsWorker
  <2>4. CASE Sent(w, <<NoSession>>, "hs")
    <3>1. /\ wk'[w].pc \in {"hs", "done"} /\ wk'[w].st = wk[w].st /\ wk'[w].hand = wk[w].hand
      BY <2>4 DEF Sent, Moves
    <3>2. wk'[w].pc \notin InSession BY <3>1 DEF InSession
    <3> QED BY <1>1, <2>1, <2>2, <3>1, <3>2, HandsKept
  <2> QED BY <2>1, <2>3, <2>4
<1>7. CASE HsOther(w)
  <2>1. wk[w].pc = "hs" /\ store' = store /\ killed' = killed /\ Moves(w, "hs")
    BY <1>7, HsOtherIs
  <2>2. wk'[w].pc = "hs" /\ wk'[w].st = wk[w].st /\ wk'[w].hand = wk[w].hand BY <2>1 DEF Moves
  <2>3. wk'[w].pc \notin InSession BY <2>2 DEF InSession
  <2> QED BY <1>1, <1>4, <2>1, <2>2, <2>3, HandsKept
<1>8. CASE LoadHand(w)
  <2>1. /\ wk[w].pc = "load_hand" /\ store' = store /\ killed' = killed /\ wk'[w].pc = "hello"
        /\ wk'[w].st = wk[w].st /\ wk'[w].hand = store[wk[w].sid].hand
    BY <1>8, LoadHandIs
  <2>2. Undisturbed BY <1>4, <2>1
  <2>3. HandsOk(wk[w], store) BY <2>2 DEF HandsInv
  <2>4. HandsOk(wk'[w], store') BY <2>1, <2>3 DEF HandsOk
  <2>5. \A s \in Conns : Alike(s) BY <2>1 DEF Alike
  <2> QED BY <1>1, <2>1, <2>2, <2>4, <2>5, HandsWorker
<1>9. CASE Hello(w) \/ RecvOver(w) \/ ReplyBoard(w)
  <2>1. PICK next \in {"recv", "ai_entry"} :
          \/ Sent(w, Greeting(wk[w]), next)
          \/ Sent(w, Board(wk[w].st, wk[w].hand, 1), next)
    BY <1>9, HelloIs, BoardIs DEF LoopPc
  <2>2. store' = store /\ killed' = killed /\ wk[w].pc \in {"hello", "recv", "reply"}
    BY <1>9, HelloIs, BoardIs
  <2>3. /\ wk'[w].pc \in {"recv", "ai_entry", "done"} /\ wk'[w].st = wk[w].st
        /\ wk'[w].hand = wk[w].hand
    BY <2>1 DEF Sent, Moves
  <2>4. wk[w].pc \in InSession \ {"load_hand"} BY <2>2 DEF InSession
  <2> QED BY <1>1, <1>4, <2>2, <2>3, <2>4, HandsKept
<1>10. CASE SaveSt(w)
  <2> DEFINE sid == wk[w].sid
  <2>1. /\ wk[w].pc = "save_st" /\ killed' = killed /\ sid \in Conns
        /\ \/ /\ Moves(w, "save_hand") /\ store'[sid].st = wk[w].st /\ Session(sid)
           \/ Moves(w, wk[w].then) /\ store' = store
    BY <1>10, SaveStIs
  <2>2. Undisturbed BY <1>4, <2>1
  <2>3. HandsOk(wk[w], store) BY <2>2 DEF HandsInv
  <2>4. wk[w].hand = wk[w].st.deal BY <2>1, <2>3 DEF HandsOk, InSession
  <2>5. CASE Moves(w, "save_hand") /\ store'[sid].st = wk[w].st /\ Session(sid)
    <3>1. /\ wk'[w].pc = "save_hand" /\ wk'[w].sid = sid /\ wk'[w].st = wk[w].st
          /\ wk'[w].hand = wk[w].hand
      BY <2>5 DEF Moves
    <3>2. HandsOk(wk'[w], store') BY <2>4, <2>5, <3>1 DEF HandsOk
    <3>3. \A s \in Conns : s = sid \/ Alike(s) BY <2>5 DEF Session, Alike
    <3>4. wk[w].pc \in InSession BY <2>1 DEF InSession
    <3> QED BY <1>1, <2>1, <2>2, <3>1, <3>2, <3>3, <3>4, HandsWorker
  <2>6. CASE Moves(w, wk[w].then) /\ store' = store
    <3>1. wk'[w].pc = wk[w].then /\ wk'[w].st = wk[w].st /\ wk'[w].hand = wk[w].hand
      BY <2>6 DEF Moves
    <3>2. wk[w].then \in {"none", "hello", "recv", "reply", "ai"} BY Here DEF WorkRec
    <3>3. wk[w].pc \in InSession \ {"load_hand"} BY <2>1 DEF InSession
    <3> QED BY <1>1, <2>1, <2>2, <2>6, <3>1, <3>2, <3>3, HandsKept
  <2> QED BY <2>1, <2>5, <2>6
<1>11. CASE SaveHand(w)
  <2> DEFINE sid == wk[w].sid
  <2>1. /\ wk[w].pc = "save_hand" /\ killed' = killed /\ sid \in Conns /\ Moves(w, wk[w].then)
        /\ store'[sid].st = store[sid].st /\ store'[sid].hand = wk[w].hand /\ Session(sid)
    BY <1>11, SaveHandIs
  <2>2. Undisturbed BY <1>4, <2>1
  <2>3. HandsOk(wk[w], store) BY <2>2 DEF HandsInv
  <2>4. wk[w].hand = wk[w].st.deal /\ store[sid].st = wk[w].st BY <2>1, <2>3 DEF HandsOk, InSession
  <2>5. Paired(store'[sid]) BY <2>1, <2>4 DEF Paired
  <2>6. \A s \in Conns : s # sid => Alike(s) BY <2>1 DEF Session, Alike
  <2>7. wk'[w].pc = wk[w].then /\ wk'[w].st = wk[w].st /\ wk'[w].hand = wk[w].hand
    BY <2>1 DEF Moves
  <2>8. wk[w].then \in {"none", "hello", "recv", "reply", "ai"} BY Here DEF WorkRec
  <2>9. HandsOk(wk'[w], store') BY <2>4, <2>7, <2>8 DEF HandsOk, InSession
  <2>10. wk[w].pc \in InSession BY <2>1 DEF InSession
  <2> QED BY <1>1, <2>2, <2>5, <2>6, <2>9, <2>10, HandsWorker
<1>12. CASE AiOnEntry(w) \/ AiTurn(w) \/ RecvPlay(w) \/ RecvEndTurn(w)
  <2>1. GoesOn(w) /\ wk[w].pc \in {"ai_entry", "ai", "recv"} BY <1>12, GameIs
  <2>2. /\ wk'[w].pc = "save_st" /\ store' = store /\ killed' = killed
        /\ wk'[w].hand = IF wk'[w].st.deal = wk[w].st.deal THEN wk[w].hand ELSE wk'[w].st.deal
    BY <2>1 DEF GoesOn
  <2>3. Undisturbed BY <1>4, <2>2
  <2>4. HandsOk(wk[w], store) BY <2>3 DEF HandsInv
  <2>5. wk[w].hand = wk[w].st.deal BY <2>1, <2>4 DEF HandsOk, InSession
  <2>6. HandsOk(wk'[w], store') BY <2>2, <2>5 DEF HandsOk
  <2>7. \A s \in Conns : Alike(s) BY <2>2 DEF Alike
  <2> QED BY <1>1, <2>1, <2>2, <2>3, <2>6, <2>7, HandsWorker
<1>13. CASE WorkerEof(w) \/ HsFull(w) \/ Kill(w)
  <2>1. /\ store' = store /\ Moves(w, "done")
        /\ killed' = killed /\ wk[w].pc \in {"hs", "recv"}
    BY <1>3, <1>13, StopIs
  <2>2. wk'[w].pc = "done" /\ wk'[w].st = wk[w].st /\ wk'[w].hand = wk[w].hand BY <2>1 DEF Moves
  <2>3. wk'[w].pc \notin InSession BY <2>2 DEF InSession
  <2> QED BY <1>1, <1>4, <2>1, <2>2, <2>3, HandsKept
<1> QED BY <1>5, <1>6, <1>7, <1>8, <1>9, <1>10, <1>11, <1>12, <1>13 DEF WorkerStep

(* Killed once is killed for good.                                         *)
LEMMA KilledStays ==
  ASSUME TInv, NEW w \in Conns, WorkerStep(w) \/ Kill(w)
  PROVE  (killed' = killed \/ killed') /\ nrestart' = nrestart
<1>1. nrestart' = nrestart BY WorkerEffect DEF Effect, Stays
<1>2. CASE HsLogin(w) \/ HsResume(w) \/ LoadHand(w) \/ HsOther(w) \/ Hello(w)
  BY <1>1, <1>2 DEF HsLogin, HsResume, LoadHand, HsOther, Hello, bounds
<1>3. CASE SaveSt(w) \/ SaveHand(w) \/ AiOnEntry(w) \/ AiTurn(w)
  BY <1>1, <1>3 DEF SaveSt, SaveHand, AiOnEntry, AiTurn, bounds
<1>4. CASE RecvOver(w) \/ RecvPlay(w) \/ RecvEndTurn(w) \/ ReplyBoard(w)
  BY <1>1, <1>4 DEF RecvOver, RecvPlay, RecvEndTurn, ReplyBoard, bounds
<1>5. CASE WorkerEof(w) \/ HsFull(w) \/ Kill(w) BY <1>1, <1>5, StopIs
<1> QED BY <1>2, <1>3, <1>4, <1>5 DEF WorkerStep

(* A disturbance is for good.                                              *)
LEMMA DisturbedStays ==
  ASSUME TInv, [Next]_vars, Undisturbed'
  PROVE  Undisturbed
<1>1. nrestart \in Nat /\ killed \in BOOLEAN BY DEF TInv, Types
<1>2. ~killed' /\ nrestart' = 0 BY DEF Undisturbed
<1>3. (killed' = killed \/ killed') /\ (nrestart' = nrestart \/ nrestart' = nrestart + 1)
  <2>1. ASSUME NEW w \in Conns, WorkerStep(w) \/ Kill(w)
        PROVE  (killed' = killed \/ killed') /\ nrestart' = nrestart
    BY <2>1, KilledStays
  <2>2. CASE \/ Connect \/ ClientEof \/ OnResumeResp \/ OnState \/ OnHand \/ NetSend \/ ConnLost
             \/ GuiEnds \/ Restart
    BY <2>2 DEF Connect, ClientEof, OnResumeResp, OnState, OnHand, NetSend, ConnLost, GuiEnds,
                Restart, bounds
  <2>3. CASE PressEndTurn \/ PressSelected BY <2>3 DEF PressEndTurn, PressSelected, Command
  <2>4. ASSUME NEW sel \in BOOLEAN, PressOther(sel) PROVE killed' = killed /\ nrestart' = nrestart
    BY <2>4 DEF PressOther, bounds
  <2>5. CASE UNCHANGED vars BY <2>5 DEF vars
  <2> QED BY <2>1, <2>2, <2>3, <2>4, <2>5 DEF Next, ClientStep
<1> QED BY <1>1, <1>2, <1>3 DEF Undisturbed

(* Undisturbed is true or false.                                           *)
LEMMA DisturbedBoolean ==
  ASSUME TInv, TInv'
  PROVE  Undisturbed \in BOOLEAN /\ Undisturbed' \in BOOLEAN
BY DEF TInv, Types, Undisturbed

(* What a worker sends.                                                    *)
LEMMA ShowSends ==
  ASSUME TInv, TInv', HandsInv, NEW w \in Conns, WorkerStep(w) \/ Kill(w),
         Undisturbed' => Undisturbed
  PROVE  \/ s2c' = s2c
         \/ \E msgs \in Seq(Msgs) : /\ s2c'[w] = s2c[w] \/ s2c'[w] = s2c[w] \o msgs
                                    /\ QueueOk(msgs, Undisturbed') /\ ~HandNext(msgs)
<1>0. Undisturbed' \in BOOLEAN BY DisturbedBoolean
<1>1. CASE HsResume(w)
  <2>1. s2c' = s2c \/ Sent(w, <<NoSession>>, "hs") BY <1>1, HsResumeIs
  <2>2. CASE Sent(w, <<NoSession>>, "hs")
    <3>1. s2c'[w] = s2c[w] \/ s2c'[w] = s2c[w] \o <<NoSession>> BY <2>2 DEF Sent
    <3>2. QueueOk(<<NoSession>>, Undisturbed') /\ ~HandNext(<<NoSession>>)
      BY <1>0, QueueNoSession
    <3> QED BY <3>1, <3>2, ShortBoards
  <2> QED BY <2>1, <2>2
<1>2. CASE Hello(w) \/ RecvOver(w) \/ ReplyBoard(w)
  <2> DEFINE x == wk[w]
  <2>1. PICK next \in {"recv", "ai_entry"} :
          \/ Sent(w, Greeting(x), next)
          \/ Sent(w, Board(x.st, x.hand, 1), next)
    BY <1>2, HelloIs, BoardIs DEF LoopPc
  <2>2. x.pc \in {"hello", "recv", "reply"} BY <1>2, HelloIs, BoardIs
  <2>3. PICK msgs \in {Greeting(x), Board(x.st, x.hand, 1)} : Sent(w, msgs, next) BY <2>1
  <2>4. x \in WorkRec /\ x.st \in Games /\ x.hand \in Deals BY Here
  <2>5. msgs \in Seq(Msgs) BY <2>4, GreetingMsgs, BoardMsgs
  <2>6. Undisturbed' => x.hand = x.st.deal
    <3>1. Undisturbed => HandsOk(wk[w], store) BY DEF HandsInv
    <3> QED BY <2>2, <3>1 DEF HandsOk, InSession
  <2> HIDE DEF x
  <2>7. QueueOk(msgs, Undisturbed') /\ ~HandNext(msgs) BY <1>0, <2>4, <2>6, QueueAnswers
  <2>8. s2c'[w] = s2c[w] \/ s2c'[w] = s2c[w] \o msgs BY <2>3 DEF Sent
  <2> QED BY <2>5, <2>7, <2>8
<1>3. CASE AiOnEntry(w) \/ AiTurn(w) \/ RecvPlay(w) \/ RecvEndTurn(w)
  BY <1>3, GameIs, SMTT(60) DEF GoesOn
<1>4. CASE HsLogin(w) \/ LoadHand(w) \/ HsOther(w) BY <1>4, HsLoginIs, LoadHandIs, HsOtherIs
<1>5. CASE SaveSt(w) \/ SaveHand(w) BY <1>5, SaveStIs, SaveHandIs
<1>6. CASE WorkerEof(w) \/ HsFull(w) \/ Kill(w) BY <1>6, StopIs
<1> QED BY <1>1, <1>2, <1>3, <1>4, <1>5, <1>6 DEF WorkerStep

(* Every step of a worker keeps ShowInv.                                   *)
LEMMA ShowWorker ==
  ASSUME TInv, TInv', HandsInv, ShowInv, NEW w \in Conns, WorkerStep(w) \/ Kill(w),
         Undisturbed' => Undisturbed
  PROVE  ShowInv'
<1>0. Undisturbed \in BOOLEAN /\ Undisturbed' \in BOOLEAN BY DisturbedBoolean
<1> DEFINE u == Undisturbed
           v == Undisturbed'
<1>1. cl' = cl /\ Only(w) BY WorkerEffect, OnlyOne DEF Stays
<1>2. CASE cl.cur = 0 BY <1>1, <1>2 DEF ShowInv
<1>3. CASE cl.cur # 0 /\ cl.cur # w
  <2>1. cl.cur \in Conns /\ s2c'[cl.cur] = s2c[cl.cur] BY <1>1, <1>3, ClientHere DEF Only
  <2>2. QueueOk(s2c[cl.cur], u) /\ ScreenOk(cl, s2c[cl.cur], u) BY <1>3 DEF ShowInv
  <2> HIDE DEF u
  <2>3. u \in BOOLEAN /\ v \in BOOLEAN /\ (v => u) BY <1>0 DEF u
  <2> HIDE DEF v
  <2>4. QueueOk(s2c[cl.cur], v) /\ ScreenOk(cl, s2c[cl.cur], v) BY <2>2, <2>3, QueueWeaker
  <2> QED BY <1>1, <1>3, <2>1, <2>4 DEF ShowInv, v
<1>4. CASE cl.cur # 0 /\ cl.cur = w
  <2>1. cl.cur = w /\ s2c[w] \in Seq(Msgs) BY <1>4, Here
  <2>2. QueueOk(s2c[w], u) /\ ScreenOk(cl, s2c[w], u) BY <1>4, <2>1 DEF ShowInv
  <2> HIDE DEF u
  <2>3. u \in BOOLEAN /\ v \in BOOLEAN /\ (v => u) BY <1>0 DEF u
  <2> HIDE DEF v
  <2>4. QueueOk(s2c[w], v) /\ ScreenOk(cl, s2c[w], v) BY <2>2, <2>3, QueueWeaker
  <2>5. QueueOk(s2c'[w], v) /\ ScreenOk(cl, s2c'[w], v)
    <3>1. CASE s2c'[w] = s2c[w] BY <2>4, <3>1
    <3>2. ASSUME NEW msgs \in Seq(Msgs), s2c'[w] = s2c[w] \o msgs,
                 QueueOk(msgs, v), ~HandNext(msgs)
          PROVE  QueueOk(s2c'[w], v) /\ ScreenOk(cl, s2c'[w], v)
      <4> DEFINE q == s2c[w]
      <4>1. /\ QueueOk(q \o msgs, v) /\ (HandNext(q \o msgs) <=> HandNext(q))
            /\ HandNext(q) => (q \o msgs)[1] = q[1]
        BY <2>1, <2>3, <2>4, <3>2, QueueConcat
      <4> QED BY <2>4, <3>2, <4>1 DEF ScreenOk
    <3>3. \/ s2c' = s2c
          \/ \E msgs \in Seq(Msgs) : /\ s2c'[w] = s2c[w] \/ s2c'[w] = s2c[w] \o msgs
                                     /\ QueueOk(msgs, v) /\ ~HandNext(msgs)
      BY ShowSends DEF v
    <3> QED BY <3>1, <3>2, <3>3
  <2> QED BY <1>1, <1>4, <2>1, <2>5 DEF ShowInv, v
<1> QED BY <1>2, <1>3, <1>4

(* The steps of the client.                                                *)
LEMMA ShowClosed ==
  ASSUME cl'.cur = 0, cl'.connected = FALSE
  PROVE  ShowInv'
BY DEF ShowInv

(* What taking a packet has to show for ShowInv.                           *)
LEMMA ShowTaken ==
  ASSUME TInv, TInv', ShowInv, cl.cur # 0, s2c[cl.cur] # <<>>, Taken, killed' = killed,
         nrestart' = nrestart, cl'.cur = cl.cur,
         QueueOk(s2c[cl.cur], Undisturbed) /\ ScreenOk(cl, s2c[cl.cur], Undisturbed)
           => ScreenOk(cl', Tail(s2c[cl.cur]), Undisturbed)
  PROVE  ShowInv'
<1>0. Undisturbed \in BOOLEAN /\ Undisturbed' = Undisturbed
  BY DisturbedBoolean DEF Undisturbed
<1>1. cl.cur \in Conns /\ s2c[cl.cur] \in Seq(Msgs) BY ClientHere, Here
<1>2. s2c'[cl.cur] = Tail(s2c[cl.cur]) BY <1>1 DEF Taken, TInv, Types
<1>3. QueueOk(s2c[cl.cur], Undisturbed) /\ ScreenOk(cl, s2c[cl.cur], Undisturbed) BY DEF ShowInv
<1>4. QueueOk(Tail(s2c[cl.cur]), Undisturbed) BY <1>0, <1>1, <1>3, QueueTail
<1> QED BY <1>0, <1>2, <1>3, <1>4 DEF ShowInv

(* A step that leaves the screen and the queue alone keeps ShowInv.        *)
LEMMA ShowKept ==
  ASSUME ShowInv, s2c' = s2c, killed' = killed, nrestart' = nrestart, cl'.cur = cl.cur,
         cl'.connected = cl.connected, cl'.has_state = cl.has_state, cl'.has_hand = cl.has_hand,
         cl'.st = cl.st, cl'.hand = cl.hand
  PROVE  ShowInv'
BY DEF ShowInv, ScreenOk, Undisturbed

(* Receiving a packet keeps ShowInv.                                       *)
LEMMA ShowReceives ==
  ASSUME TInv, TInv', ShowInv, OnResumeResp \/ OnState \/ OnHand
  PROVE  ShowInv'
<1> DEFINE q == s2c[cl.cur]
           m == Head(q)
           u == Undisturbed
<1>0. u \in BOOLEAN BY DisturbedBoolean
<1>1. /\ cl.cur # 0 /\ cl.cur \in Conns /\ q # <<>> /\ q \in Seq(Msgs)
      /\ m.op \in {"RESUME_RESP", "STATE", "HAND"}
      /\ OnResumeResp => m.op = "RESUME_RESP"
      /\ OnState => m.op = "STATE"
      /\ OnHand => m.op = "HAND"
  BY IncomingFacts DEF OnResumeResp, OnState, OnHand
<1>2. killed' = killed /\ nrestart' = nrestart BY DEF OnResumeResp, OnState, OnHand, bounds
<1>3. QueueOk(q, u) /\ ScreenOk(cl, q, u) BY <1>1 DEF ShowInv
<1>4. /\ m = q[1] /\ (HandNext(Tail(q)) <=> m.op = "STATE")
      /\ m.op = "STATE" => (u => Tail(q)[1].hand = m.st.deal)
  BY <1>0, <1>1, <1>3, QueueTail
<1>5. CASE OnResumeResp
  <2>1. CASE m.ok
    <3>1. Taken /\ cl' = [cl EXCEPT !.sid = m.sid] BY <1>5, <2>1 DEF OnResumeResp
    <3>2. m.op = "RESUME_RESP" BY <1>1, <1>5
    <3>3. ~HandNext(q) /\ ~HandNext(Tail(q)) BY <1>4, <3>2 DEF HandNext
    <3> HIDE DEF m, q, u
    <3>4. /\ cl'.cur = cl.cur /\ cl'.connected = cl.connected /\ cl'.has_state = cl.has_state
          /\ cl'.has_hand = cl.has_hand /\ cl'.st = cl.st /\ cl'.hand = cl.hand
      BY <3>1, ClientHere DEF ClientRec
    <3>5. ScreenOk(cl', Tail(q), u) BY <1>3, <3>3, <3>4 DEF ScreenOk
    <3> QED BY <1>1, <1>2, <3>1, <3>4, <3>5, ShowTaken DEF q, u
  <2>2. CASE ~m.ok
    <3>1. Close([cl EXCEPT !.sid = 0]) BY <1>5, <2>2 DEF OnResumeResp
    <3>2. [cl EXCEPT !.sid = 0] \in ClientRec BY ClientHere, SessionsAssumption DEF ClientRec
    <3> QED BY <1>1, <3>1, <3>2, CloseFacts, ShowClosed
  <2> QED BY <2>1, <2>2
<1>6. CASE OnState
  <2>1. /\ cl'.cur = cl.cur /\ cl'.st = m.st /\ cl'.has_state = TRUE BY <1>6, OnStateFacts
  <2>2. Taken BY <1>6 DEF OnState
  <2>3. m.op = "STATE" BY <1>1, <1>6
  <2> HIDE DEF m, q, u
  <2>4. ScreenOk(cl', Tail(q), u) BY <1>4, <2>1, <2>3 DEF ScreenOk
  <2> QED BY <1>1, <1>2, <2>1, <2>2, <2>4, ShowTaken DEF q, u
<1>7. CASE OnHand
  <2>1. /\ cl'.cur = cl.cur /\ cl'.st = cl.st /\ cl'.has_state = cl.has_state
        /\ cl'.connected = cl.connected /\ cl'.hand = m.hand /\ cl'.has_hand = TRUE
    BY <1>7, OnHandFacts
  <2>2. Taken BY <1>7 DEF OnHand
  <2>3. m.op = "HAND" BY <1>1, <1>7
  <2>4. HandNext(q) /\ ~HandNext(Tail(q)) BY <1>1, <1>4, <2>3, SMTT(60) DEF HandNext
  <2> HIDE DEF m, q, u
  <2>5. ScreenOk(cl', Tail(q), u) BY <1>3, <1>4, <2>1, <2>4 DEF ScreenOk
  <2> QED BY <1>1, <1>2, <2>1, <2>2, <2>5, ShowTaken DEF q, u
<1> QED BY <1>5, <1>6, <1>7

(* Connecting keeps HandsInv and ShowInv.                                  *)
LEMMA ConnectShow ==
  ASSUME TInv, HandsInv, ShowInv, Connect
  PROVE  HandsInv' /\ ShowInv'
<1> DEFINE w == nconn + 1
<1>1. /\ w \in Conns /\ wk' = [wk EXCEPT ![w] = [wk[w] EXCEPT !.pc = "hs"]] /\ wk[w].pc = "none"
      /\ cl' = [cl EXCEPT !.cur = w] /\ cl.cur = 0
      /\ UNCHANGED <<store, s2c, killed, nrestart>>
  BY ConnectFacts
<1> HIDE DEF w
<1>3. wk'[w].pc = "hs"
  <2>1. Moves(w, "hs") BY <1>1, MovesFacts
  <2> QED BY <2>1 DEF Moves
<1>4. \A v \in Conns : v # w => wk'[v] = wk[v] BY <1>1 DEF TInv, Types
<1>5. ASSUME Undisturbed, NEW v \in Conns PROVE HandsOk(wk'[v], store)
  <2>1. CASE v = w BY <1>3, <2>1 DEF HandsOk, InSession
  <2>2. CASE v # w BY <1>4, <1>5, <2>2 DEF HandsInv
  <2> QED BY <2>1, <2>2
<1>6. ASSUME Undisturbed, NEW s \in Conns
      PROVE  Paired(store[s]) \/ \E v \in Conns : wk'[v].pc = "save_hand" /\ wk'[v].sid = s
  <2>1. Paired(store[s]) \/ \E v \in Conns : wk[v].pc = "save_hand" /\ wk[v].sid = s
    BY <1>6 DEF HandsInv
  <2>2. \A v \in Conns : wk[v].pc = "save_hand" => wk'[v] = wk[v] BY <1>1, <1>4
  <2> QED BY <2>1, <2>2
<1>7. HandsInv' BY <1>1, <1>5, <1>6 DEF HandsInv, Undisturbed
<1>8. cl'.cur = w /\ cl'.connected = cl.connected BY <1>1, ClientHere DEF ClientRec
<1>9. s2c[w] = <<>> BY <1>1, SMTT(60) DEF TInv, ConnInv, Conns
<1>10. ~cl.connected BY <1>1 DEF ShowInv
<1>11. QueueOk(s2c'[w], Undisturbed') /\ ScreenOk(cl', s2c'[w], Undisturbed')
  BY <1>1, <1>8, <1>9, <1>10, QueueEmpty DEF ScreenOk
<1>12. ShowInv' BY <1>1, <1>8, <1>11 DEF ShowInv, Conns
<1> QED BY <1>7, <1>12

(* Every step keeps HandsInv and ShowInv.                                  *)
LEMMA ShowStep ==
  ASSUME TInv, TInv', OnePerSession, OnePerSession', HandsInv, ShowInv, [Next]_vars
  PROVE  HandsInv' /\ ShowInv'
<1>1. ASSUME NEW w \in Conns, WorkerStep(w) \/ Kill(w) PROVE HandsInv' /\ ShowInv'
  <2>1. Undisturbed' => Undisturbed BY DisturbedStays
  <2> QED BY <1>1, <2>1, HandsStep, ShowWorker
<1>2. CASE Connect BY <1>2, ConnectShow
<1>3. ASSUME UNCHANGED <<srvVars, bounds>> PROVE HandsInv'
  BY <1>3 DEF HandsInv, Undisturbed, srvVars, bounds
<1>4. CASE ConnLost \/ ClientEof
  <2>1. UNCHANGED <<srvVars, bounds>> /\ cl.cur # 0 /\ Close(cl)
    BY <1>4 DEF ConnLost, ClientEof
  <2>2. cl \in ClientRec BY ClientHere
  <2> QED BY <1>3, <2>1, <2>2, CloseFacts, ShowClosed
<1>5. CASE OnResumeResp \/ OnState \/ OnHand
  <2>1. UNCHANGED <<srvVars, bounds>> BY <1>5 DEF OnResumeResp, OnState, OnHand
  <2> QED BY <1>3, <1>5, <2>1, ShowReceives
<1>6. CASE NetSend
  <2>1. UNCHANGED <<srvVars, bounds>> BY <1>6 DEF NetSend
  <2> QED BY <1>3, <1>6, <2>1, NetSendFacts, ShowKept DEF bounds
<1>7. CASE PressEndTurn \/ PressSelected
  <2>1. PICK op \in Kinds : Command(op) BY <1>7 DEF PressEndTurn, PressSelected, Kinds
  <2>2. wk' = wk /\ store' = store /\ killed' = killed /\ nrestart' = nrestart /\ s2c' = s2c
    BY <2>1, CommandFacts DEF srvVars, netVars
  <2>3. HandsInv' BY <2>2 DEF HandsInv, Undisturbed
  <2> QED BY <2>1, <2>2, <2>3, CommandFacts, ShowKept
<1>8. ASSUME NEW sel \in BOOLEAN, PressOther(sel) PROVE HandsInv' /\ ShowInv'
  <2>1. cl' = [cl EXCEPT !.selected = sel] /\ UNCHANGED <<srvVars, netVars, bounds>>
    BY <1>8 DEF PressOther
  <2>2. /\ cl'.cur = cl.cur /\ cl'.connected = cl.connected /\ cl'.has_state = cl.has_state
        /\ cl'.has_hand = cl.has_hand /\ cl'.st = cl.st /\ cl'.hand = cl.hand
    BY <2>1, ClientHere DEF ClientRec
  <2> QED BY <1>3, <2>1, <2>2, ShowKept DEF netVars, bounds
<1>9. CASE GuiEnds
  <2> DEFINE c == [cl EXCEPT !.running = FALSE]
  <2>1. /\ c \in ClientRec /\ c.cur = cl.cur /\ c.connected = cl.connected
        /\ UNCHANGED <<srvVars, bounds>>
    BY <1>9, GuiEndsFacts, SMTT(60)
  <2>2. CASE cl.cur # 0
    <3>1. Close(c) BY <1>9, <2>2 DEF GuiEnds
    <3> HIDE DEF c
    <3> QED BY <1>3, <2>1, <2>2, <3>1, CloseFacts, ShowClosed
  <2>3. CASE cl.cur = 0
    <3>1. cl' = c BY <1>9, <2>3 DEF GuiEnds
    <3> HIDE DEF c
    <3>2. cl'.cur = 0 /\ ~cl'.connected BY <2>1, <2>3, <3>1 DEF ShowInv
    <3>3. ShowInv' BY <3>2 DEF ShowInv
    <3> QED BY <1>3, <2>1, <3>3
  <2> QED BY <2>2, <2>3
<1>10. CASE Restart
  <2>1. /\ cl' = cl /\ s2c' = s2c /\ nrestart' = nrestart + 1 /\ nrestart \in Nat
    BY <1>10 DEF Restart, netVars, TInv, Types
  <2>2. ~Undisturbed' BY <2>1 DEF Undisturbed
  <2>3. HandsInv' BY <2>2 DEF HandsInv
  <2>4. ASSUME cl.cur # 0
        PROVE QueueOk(s2c[cl.cur], Undisturbed') /\ ScreenOk(cl, s2c[cl.cur], Undisturbed')
    <3>1. QueueOk(s2c[cl.cur], Undisturbed) /\ ScreenOk(cl, s2c[cl.cur], Undisturbed)
      BY <2>4 DEF ShowInv
    <3>2. Undisturbed \in BOOLEAN /\ Undisturbed' \in BOOLEAN BY DisturbedBoolean
    <3> QED BY <2>2, <3>1, <3>2, QueueWeaker
  <2>5. ShowInv' BY <2>1, <2>4 DEF ShowInv
  <2> QED BY <2>3, <2>5
<1>11. CASE UNCHANGED vars
  <2>1. UNCHANGED <<srvVars, bounds>> /\ cl' = cl /\ s2c' = s2c BY <1>11 DEF vars, srvVars, bounds
  <2> QED BY <1>3, <2>1, ShowKept DEF bounds
<1> QED BY <1>1, <1>2, <1>4, <1>5, <1>6, <1>7, <1>8, <1>9, <1>10, <1>11 DEF Next, ClientStep

PInv == TInv /\ NamesInv /\ SeenInv /\ HandsInv /\ ShowInv

(* Boards and hands are paired, always.                                    *)
LEMMA ShowInvariance == Spec /\ []OnePerSession => []PInv
<1>1. Init => HandsInv /\ ShowInv
  <2> SUFFICES ASSUME Init PROVE HandsInv /\ ShowInv OBVIOUS
  <2>1. \A s \in Conns : store[s].hand = NoHand /\ store[s].st = NoGame BY DEF Init
  <2>2. NoGame.deal = NoHand BY DEF NoGame, NoHand
  <2>3. \A w \in Conns : wk[w].pc = "none" BY DEF Init
  <2>4. \A w \in Conns : HandsOk(wk[w], store) BY <2>3 DEF HandsOk, InSession
  <2>5. HandsInv BY <2>1, <2>2, <2>4 DEF HandsInv, Paired
  <2>6. cl.cur = 0 /\ ~cl.connected BY DEF Init
  <2> QED BY <2>5, <2>6 DEF ShowInv
<1>2. /\ TInv /\ TInv' /\ OnePerSession /\ OnePerSession' /\ HandsInv /\ ShowInv /\ [Next]_vars
      => HandsInv' /\ ShowInv'
  BY ShowStep
<1> QED BY <1>1, <1>2, OrderInvariance, PTL DEF Spec, PInv

(* If undisturbed, the hand shown once everything has arrived is the one   *)
(* dealt for the board next to it, as long as no two workers are in the    *)
(* same session.                                                           *)
THEOREM PairIfApart == Spec /\ []OnePerSession => []PairShown
<1>1. PInv => PairShown
  <2> SUFFICES ASSUME PInv, Undisturbed, cl.connected, cl.cur # 0, s2c[cl.cur] = <<>>
               PROVE  cl.hand = cl.st.deal
    BY DEF PairShown
  <2>1. ScreenOk(cl, s2c[cl.cur], Undisturbed) BY DEF PInv, ShowInv
  <2>2. ~HandNext(s2c[cl.cur]) BY DEF HandNext
  <2> QED BY <2>1, <2>2 DEF ScreenOk
<1> QED BY <1>1, ShowInvariance, PTL
-----------------------------------------------------------------------------
(* The player's turn.                                                      *)

(* A worker that receives does so in the player's turn or after the end,   *)
(* and so does one that resumes: only while a worker is in mid END_TURN is *)
(* the AI's turn in its game or in the store.                              *)
Ready(g) == g.turn = 0 \/ g.over = 1
Busy(x)  == x.pc \in {"save_st", "ai"} \/ (x.pc = "save_hand" /\ x.then = "ai")
TurnOk(x) ==
  /\ x.pc # "ai_entry"
  /\ x.pc \in {"load_hand", "hello", "recv", "reply"} => Ready(x.st)
  /\ x.pc \in {"save_st", "save_hand"} =>
       x.then # "recv" /\ (IF x.then = "ai" THEN x.st.turn = 1 ELSE Ready(x.st))
  /\ x.pc = "ai" => x.st.turn = 1
TurnInv ==
  ~killed =>
    /\ \A s \in Conns : store[s].valid =>
         Ready(store[s].st) \/ \E w \in Conns : wk[w].sid = s /\ Busy(wk[w])
    /\ \A w \in Conns : TurnOk(wk[w])

(* The last board sent is the game the worker has when it receives.        *)
LastBoard(q, i) ==
  q[i].op = "STATE" /\ \A j \in DOMAIN q : j > i => q[j].op # "STATE"
Shown(c, q, g) ==
  /\ Boards(q) = {} => c.connected /\ c.st = g
  /\ \A i \in DOMAIN q : LastBoard(q, i) => q[i].st = g
LatestInv ==
  ~killed /\ cl.cur # 0 /\ wk[cl.cur].pc = "recv" => Shown(cl, s2c[cl.cur], wk[cl.cur].st)

(* The loop goes to recv exactly when the player can act or the game is    *)
(* over.                                                                   *)
LEMMA ReadyLoops ==
  ASSUME NEW g \in Games
  PROVE  (LoopPc(g) = "recv" <=> Ready(g)) /\ (~Ready(g) => g.turn = 1)
<1>1. g.turn \in {0, 1} /\ g.over \in {0, 1} BY GameFields
<1> QED BY <1>1 DEF LoopPc, Ready

(* What the step of a worker has to show for TurnInv.                      *)
LEMMA TurnWorker ==
  ASSUME TInv, TurnInv, NEW w \in Conns, Only(w), ~killed,
         TurnOk(wk'[w]),
         \A s \in Conns : \/ store'[s].valid => Ready(store'[s].st)
                          \/ wk'[w].sid = s /\ Busy(wk'[w])
                          \/ /\ store'[s].valid = store[s].valid /\ store'[s].st = store[s].st
                             /\ ~(wk[w].sid = s /\ Busy(wk[w]))
  PROVE  TurnInv'
<1>1. \A v \in Conns : v # w => wk'[v] = wk[v] BY DEF Only
<1>2. ASSUME NEW s \in Conns, store'[s].valid
      PROVE  Ready(store'[s].st) \/ \E v \in Conns : wk'[v].sid = s /\ Busy(wk'[v])
  <2>1. CASE /\ store'[s].valid = store[s].valid /\ store'[s].st = store[s].st
             /\ ~(wk[w].sid = s /\ Busy(wk[w]))
    <3>1. store[s].valid BY <1>2, <2>1
    <3>2. Ready(store[s].st) \/ \E v \in Conns : wk[v].sid = s /\ Busy(wk[v])
      BY <3>1 DEF TurnInv
    <3> QED BY <1>1, <2>1, <3>2
  <2>2. CASE store'[s].valid => Ready(store'[s].st) BY <1>2, <2>2
  <2>3. CASE wk'[w].sid = s /\ Busy(wk'[w]) BY <2>3
  <2> QED BY <2>1, <2>2, <2>3
<1>3. ASSUME NEW v \in Conns PROVE TurnOk(wk'[v])
  <2>1. CASE v = w BY <2>1
  <2>2. CASE v # w BY <1>1, <2>2 DEF TurnInv
  <2> QED BY <2>1, <2>2
<1> QED BY <1>2, <1>3 DEF TurnInv

(* A worker that is not busy, and leaves the stored games alone.           *)
LEMMA TurnIdle ==
  ASSUME TInv, TurnInv, NEW w \in Conns, Only(w), ~killed,
         ~Busy(wk[w]), store' = store, TurnOk(wk'[w])
  PROVE  TurnInv'
BY TurnWorker

(* Every step of a worker keeps TurnInv.                                   *)
LEMMA TurnStep ==
  ASSUME TInv, OnePerSession', SeenInv, TurnInv, NEW w \in Conns, WorkerStep(w) \/ Kill(w)
  PROVE  TurnInv'
<1>1. Only(w) /\ Stays BY WorkerEffect, OnlyOne
<1>2. SUFFICES ASSUME ~killed' PROVE TurnInv' BY DEF TurnInv
<1>3. ASSUME killed' = killed PROVE ~killed /\ TurnOk(wk[w]) BY <1>2, <1>3 DEF TurnInv
<1>4. wk[w] \in WorkRec /\ wk[w].st \in Games BY Here
<1>5. CASE HsLogin(w)
  <2>1. /\ wk[w].pc = "hs" /\ killed' = killed /\ wk'[w].pc = "save_st" /\ wk'[w].then = "hello"
        /\ wk'[w].sid = w /\ wk'[w].st = NewGame(w) /\ Session(w)
    BY <1>5, HsLoginIs
  <2>2. NewGame(w).turn = 0 BY NewGameFacts
  <2>3. TurnOk(wk'[w]) BY <2>1, <2>2 DEF TurnOk, Ready
  <2>4. Busy(wk'[w]) /\ ~Busy(wk[w]) BY <2>1 DEF Busy
  <2>5. \A s \in Conns : s = w \/ store'[s] = store[s] BY <2>1, SMTT(60) DEF Session
  <2> QED BY <1>1, <1>3, <2>1, <2>3, <2>4, <2>5, TurnWorker, SMTT(60)
<1>6. CASE HsResume(w)
  <2> DEFINE sid == Head(c2s[w]).sid
  <2>1. /\ wk[w].pc = "hs" /\ store' = store /\ killed' = killed /\ sid \in Conns
        /\ \/ /\ store[sid].valid /\ wk'[w].pc = "load_hand" /\ wk'[w].sid = sid
              /\ wk'[w].st = store[sid].st
           \/ Sent(w, <<NoSession>>, "hs")
    BY <1>6, HsResumeIs
  <2> HIDE DEF sid
  <2>2. ~Busy(wk[w]) BY <2>1 DEF Busy
  <2>3. CASE /\ store[sid].valid /\ wk'[w].pc = "load_hand" /\ wk'[w].sid = sid
             /\ wk'[w].st = store[sid].st
    <3>1. \A v \in Conns : ~(wk[v].sid = sid /\ Busy(wk[v]))
      <4> SUFFICES ASSUME NEW v \in Conns, wk[v].sid = sid, Busy(wk[v]) PROVE FALSE OBVIOUS
      <4>1. v # w BY <2>2
      <4>2. wk'[v] = wk[v] BY <1>1, <4>1 DEF Only
      <4>3. wk'[v].pc \in InSession /\ wk'[w].pc \in InSession BY <2>3, <4>2 DEF Busy, InSession
      <4> QED BY <2>3, <4>1, <4>2, <4>3 DEF OnePerSession
    <3>2. Ready(store[sid].st) BY <1>3, <2>1, <2>3, <3>1 DEF TurnInv
    <3>3. TurnOk(wk'[w]) BY <2>3, <3>2 DEF TurnOk
    <3> QED BY <1>1, <1>3, <2>1, <2>2, <3>3, TurnIdle
  <2>4. CASE Sent(w, <<NoSession>>, "hs")
    <3>1. wk'[w].pc \in {"hs", "done"} BY <2>4 DEF Sent, Moves
    <3>2. TurnOk(wk'[w]) BY <3>1 DEF TurnOk
    <3> QED BY <1>1, <1>3, <2>1, <2>2, <3>2, TurnIdle
  <2> QED BY <2>1, <2>3, <2>4, SMTT(60)
<1>7. CASE HsOther(w)
  <2>1. wk[w].pc = "hs" /\ store' = store /\ killed' = killed /\ wk'[w].pc = "hs"
    BY <1>7, HsOtherIs DEF Moves
  <2>2. TurnOk(wk'[w]) /\ ~Busy(wk[w]) BY <2>1 DEF TurnOk, Busy
  <2> QED BY <1>1, <1>3, <2>1, <2>2, TurnIdle
<1>8. CASE LoadHand(w)
  <2>1. /\ wk[w].pc = "load_hand" /\ store' = store /\ killed' = killed /\ wk'[w].pc = "hello"
        /\ wk'[w].st = wk[w].st
    BY <1>8, LoadHandIs
  <2>2. TurnOk(wk'[w]) /\ ~Busy(wk[w]) BY <1>3, <2>1 DEF TurnOk, Busy
  <2> QED BY <1>1, <1>3, <2>1, <2>2, TurnIdle
<1>9. CASE Hello(w) \/ RecvOver(w) \/ ReplyBoard(w)
  <2>1. PICK next \in {"recv", LoopPc(wk[w].st)} :
          \/ Sent(w, Greeting(wk[w]), next)
          \/ Sent(w, Board(wk[w].st, wk[w].hand, 1), next)
    BY <1>9, HelloIs, BoardIs
  <2>2. store' = store /\ killed' = killed /\ wk[w].pc \in {"hello", "recv", "reply"}
    BY <1>9, HelloIs, BoardIs
  <2>3. Ready(wk[w].st) BY <1>3, <2>2 DEF TurnOk
  <2>4. next = "recv" BY <1>4, <2>1, <2>3, ReadyLoops
  <2>5. wk'[w].pc \in {"recv", "done"} /\ wk'[w].st = wk[w].st BY <2>1, <2>4 DEF Sent, Moves
  <2>6. TurnOk(wk'[w]) /\ ~Busy(wk[w]) BY <2>2, <2>3, <2>5 DEF TurnOk, Busy
  <2> QED BY <1>1, <1>3, <2>2, <2>6, TurnIdle
<1>10. CASE SaveSt(w)
  <2> DEFINE sid == wk[w].sid
  <2>1. /\ wk[w].pc = "save_st" /\ killed' = killed /\ sid \in Conns
        /\ \/ /\ Moves(w, "save_hand") /\ store'[sid].st = wk[w].st /\ Session(sid)
           \/ ~store[sid].valid /\ Moves(w, wk[w].then) /\ store' = store
    BY <1>10, SaveStIs
  <2>2. ~killed /\ TurnOk(wk[w]) BY <1>3, <2>1
  <2>3. wk[w].then \in {"hello", "reply", "ai"}
    <3>1. wk[w].then # "none" BY <2>1, Here
    <3> QED BY <1>4, <2>1, <2>2, <3>1 DEF WorkRec, TurnOk
  <2>4. CASE Moves(w, "save_hand") /\ store'[sid].st = wk[w].st /\ Session(sid)
    <3>1. /\ wk'[w].pc = "save_hand" /\ wk'[w].then = wk[w].then /\ wk'[w].sid = sid
          /\ wk'[w].st = wk[w].st
      BY <2>4 DEF Moves
    <3>2. TurnOk(wk'[w]) BY <2>1, <2>2, <3>1 DEF TurnOk
    <3>3. Ready(store'[sid].st) \/ Busy(wk'[w]) BY <2>1, <2>2, <2>4, <3>1 DEF TurnOk, Busy
    <3>4. \A s \in Conns : s # sid => store'[s] = store[s] BY <2>4 DEF Session
    <3> QED BY <1>1, <2>2, <3>1, <3>2, <3>3, <3>4, TurnWorker
  <2>5. CASE ~store[sid].valid /\ Moves(w, wk[w].then) /\ store' = store
    <3>1. wk'[w].pc = wk[w].then /\ wk'[w].st = wk[w].st BY <2>5 DEF Moves
    <3>2. TurnOk(wk'[w]) BY <2>1, <2>2, <2>3, <3>1 DEF TurnOk
    <3>3. \A s \in Conns : s = sid => ~store'[s].valid BY <2>5
    <3> QED BY <1>1, <2>2, <2>5, <3>2, <3>3, TurnWorker
  <2> QED BY <2>1, <2>4, <2>5
<1>11. CASE SaveHand(w)
  <2> DEFINE sid == wk[w].sid
  <2>1. /\ wk[w].pc = "save_hand" /\ killed' = killed /\ sid \in Conns /\ Moves(w, wk[w].then)
        /\ store'[sid].valid = store[sid].valid /\ store'[sid].st = store[sid].st /\ Session(sid)
    BY <1>11, SaveHandIs
  <2>2. ~killed /\ TurnOk(wk[w]) BY <1>3, <2>1
  <2>3. wk[w].then \in {"hello", "reply", "ai"}
    <3>1. wk[w].then # "none" BY <2>1, Here, SMTT(60)
    <3> QED BY <1>4, <2>1, <2>2, <3>1 DEF WorkRec, TurnOk
  <2>4. wk'[w].pc = wk[w].then /\ wk'[w].st = wk[w].st /\ wk'[w].sid = sid BY <2>1 DEF Moves
  <2>5. TurnOk(wk'[w]) BY <2>1, <2>2, <2>3, <2>4 DEF TurnOk
  <2>6. store[sid].valid => store[sid].st = wk[w].st BY <1>1, <2>1, SMTT(60) DEF SeenInv, Current, InSession
  <2>7. (store'[sid].valid => Ready(store'[sid].st)) \/ Busy(wk'[w])
    BY <2>1, <2>2, <2>4, <2>6 DEF TurnOk, Busy
  <2>8. \A s \in Conns : s # sid => store'[s] = store[s] BY <2>1 DEF Session
  <2> QED BY <1>1, <2>2, <2>4, <2>5, <2>7, <2>8, TurnWorker
<1>12. CASE AiOnEntry(w) \/ AiTurn(w) \/ RecvPlay(w) \/ RecvEndTurn(w)
  <2>1. GoesOn(w) /\ Turns(w) /\ wk[w].pc \in {"ai_entry", "ai", "recv"} BY <1>12, GameIs
  <2>2. /\ wk'[w].pc = "save_st" /\ store' = store /\ killed' = killed /\ wk'[w].st \in Games
        /\ wk'[w].sid = wk[w].sid
    BY <2>1 DEF GoesOn
  <2>3. ~killed /\ TurnOk(wk[w]) BY <1>3, <2>2
  <2>4. LoopPc(wk'[w].st) = "recv" <=> Ready(wk'[w].st) BY <2>2, ReadyLoops
  <2>5. ~Ready(wk'[w].st) => wk'[w].st.turn = 1 BY <2>2, ReadyLoops
  <2>6. TurnOk(wk'[w])
    <3>1. CASE /\ wk[w].pc = "ai" /\ wk'[w].then = "reply"
               /\ wk'[w].st.over = 1 \/ wk'[w].st.turn = 1 - wk[w].st.turn
      <4>1. wk[w].st.turn = 1 BY <2>3, <3>1 DEF TurnOk
      <4>2. Ready(wk'[w].st) BY <3>1, <4>1 DEF Ready
      <4> QED BY <2>2, <3>1, <4>2 DEF TurnOk
    <3>2. CASE /\ wk[w].pc = "recv" /\ wk'[w].then = "reply" /\ wk[w].st.over = 0
               /\ wk'[w].st.turn = wk[w].st.turn
      <4>1. Ready(wk'[w].st) BY <2>3, <3>2 DEF TurnOk, Ready
      <4> QED BY <2>2, <3>2, <4>1 DEF TurnOk
    <3>3. CASE wk'[w].then = IF LoopPc(wk'[w].st) = "recv" THEN "reply" ELSE "ai"
      BY <2>2, <2>4, <2>5, <3>3 DEF TurnOk
    <3>4. wk[w].pc # "ai_entry" BY <2>3 DEF TurnOk
    <3> QED BY <2>1, <3>1, <3>2, <3>3, <3>4 DEF Turns
  <2>7. Busy(wk'[w]) BY <2>2 DEF Busy
  <2> QED BY <1>1, <2>2, <2>3, <2>6, <2>7, TurnWorker
<1>13. CASE WorkerEof(w) \/ HsFull(w) \/ Kill(w)
  <2>1. /\ store' = store /\ Moves(w, "done")
        /\ killed' = killed /\ wk[w].pc \in {"hs", "recv"}
    BY <1>2, <1>13, StopIs
  <2>2. wk'[w].pc = "done" BY <2>1 DEF Moves
  <2>3. TurnOk(wk'[w]) /\ ~Busy(wk[w]) BY <2>1, <2>2 DEF TurnOk, Busy
  <2> QED BY <1>1, <1>3, <2>1, <2>3, TurnIdle
<1> QED BY <1>5, <1>6, <1>7, <1>8, <1>9, <1>10, <1>11, <1>12, <1>13 DEF WorkerStep

(* The last board of a queue is in what was put behind it.                 *)
LEMMA ShownConcat ==
  ASSUME NEW q \in Seq(Msgs), NEW r \in Seq(Msgs), NEW g, NEW c, Boards(r) # {},
         \A m \in Boards(r) : m.st = g
  PROVE  Shown(c, q \o r, g) /\ Boards(q \o r) # {}
<1> DEFINE p == q \o r
           n == Len(q)
<1>1. /\ Len(p) = n + Len(r) /\ p \in Seq(Msgs) /\ n \in Nat /\ Len(r) \in Nat
      /\ \A i \in 1..Len(p) : p[i] = IF i <= n THEN q[i] ELSE r[i - n]
  BY ConcatProperties, LenProperties
<1>2. DOMAIN q = 1..n /\ DOMAIN p = 1..Len(p) /\ DOMAIN r = 1..Len(r) BY <1>1, LenProperties
<1> HIDE DEF p, n
<1>3. PICK k \in DOMAIN r : r[k].op = "STATE" BY DEF Boards, Range
<1>4. n + k \in DOMAIN p /\ ~(n + k <= n) /\ (n + k) - n = k BY <1>1, <1>2
<1>5. p[n + k] = r[k] BY <1>1, <1>2, <1>4
<1>6. p[n + k] \in Boards(p) BY <1>3, <1>4, <1>5 DEF Boards, Range
<1>7. ASSUME NEW i \in DOMAIN p, LastBoard(p, i) PROVE p[i].st = g
  <2>1. CASE i <= n
    <3>1. n + k > i BY <1>1, <1>2, <1>4, <2>1, SMTT(60)
    <3> QED BY <1>3, <1>4, <1>5, <1>7, <3>1 DEF LastBoard
  <2>2. CASE ~(i <= n)
    <3>1. i - n \in DOMAIN r /\ p[i] = r[i - n] BY <1>1, <1>2, <2>2, SMTT(60)
    <3>2. p[i].op = "STATE" BY <1>7 DEF LastBoard
    <3> QED BY <3>1, <3>2 DEF Boards, Range
  <2> QED BY <2>1, <2>2
<1> QED BY <1>6, <1>7 DEF Shown, p

(* Taking a packet keeps the last board, on its way or on the screen.      *)
LEMMA ShownTail ==
  ASSUME NEW q \in Seq(Msgs), q # <<>>, NEW g, NEW c, NEW d, Shown(c, q, g),
         Head(q).op = "STATE" => d.connected /\ d.st = Head(q).st,
         Head(q).op # "STATE" => d.connected = c.connected /\ d.st = c.st
  PROVE  Shown(d, Tail(q), g)
<1> DEFINE p == Tail(q)
<1>1. /\ p \in Seq(Msgs) /\ Len(p) = Len(q) - 1 /\ Len(q) \in Nat
      /\ \A i \in 1..Len(p) : p[i] = q[i + 1]
  BY HeadTailProperties, LenProperties
<1>2. DOMAIN q = 1..Len(q) /\ DOMAIN p = 1..Len(p) BY <1>1, LenProperties
<1>3. Head(q) = q[1] /\ Len(q) # 0 BY EmptySeq
<1> HIDE DEF p
<1>4. /\ 1 \in DOMAIN q
      /\ \A i \in DOMAIN p : i + 1 \in DOMAIN q /\ p[i] = q[i + 1] /\ i \in Nat
      /\ \A j \in DOMAIN q : j = 1 \/ (j - 1 \in DOMAIN p /\ p[j - 1] = q[j] /\ j \in Nat)
  BY <1>1, <1>2, <1>3
<1>5. ASSUME NEW i \in DOMAIN p, LastBoard(p, i) PROVE p[i].st = g
  <2>1. p[i] = q[i + 1] /\ i + 1 \in DOMAIN q BY <1>4
  <2>2. ASSUME NEW j \in DOMAIN q, j > i + 1 PROVE q[j].op # "STATE"
    <3>1. j # 1 /\ j \in Nat BY <1>4, <2>2
    <3>2. j - 1 \in DOMAIN p /\ p[j - 1] = q[j] /\ j - 1 > i BY <1>4, <2>2, <3>1
    <3> QED BY <1>5, <3>2 DEF LastBoard
  <2>3. LastBoard(q, i + 1) BY <1>5, <2>1, <2>2 DEF LastBoard
  <2> QED BY <2>1, <2>3 DEF Shown
<1>6. ASSUME Boards(p) = {} PROVE d.connected /\ d.st = g
  <2>1. \A j \in DOMAIN q : j > 1 => q[j].op # "STATE"
    <3> SUFFICES ASSUME NEW j \in DOMAIN q, j > 1 PROVE q[j].op # "STATE" OBVIOUS
    <3>1. j - 1 \in DOMAIN p /\ p[j - 1] = q[j] BY <1>4
    <3> QED BY <1>6, <3>1 DEF Boards, Range
  <2>2. CASE Head(q).op = "STATE"
    <3>1. LastBoard(q, 1) BY <1>3, <2>1, <2>2 DEF LastBoard
    <3> QED BY <1>3, <1>4, <2>2, <3>1 DEF Shown
  <2>3. CASE Head(q).op # "STATE"
    <3>1. \A j \in DOMAIN q : q[j].op # "STATE"
      <4> SUFFICES ASSUME NEW j \in DOMAIN q PROVE q[j].op # "STATE" OBVIOUS
      <4>1. j = 1 \/ j > 1 BY <1>2
      <4> QED BY <1>3, <2>1, <2>3, <4>1
    <3>2. Boards(q) = {} BY <3>1 DEF Boards, Range
    <3> QED BY <2>3, <3>2 DEF Shown
  <2> QED BY <2>2, <2>3
<1> QED BY <1>5, <1>6 DEF Shown, p

(* Every answer has a board.                                               *)
LEMMA AnswersShow ==
  ASSUME NEW x \in WorkRec
  PROVE  Boards(Board(x.st, x.hand, 1)) # {} /\ Boards(Greeting(x)) # {}
<1>0. x.st \in Games /\ x.hand \in Deals /\ x.sid \in 0..MaxConns BY DEF WorkRec
<1>1. ASSUME NEW a \in {0, 1}
      PROVE  [op |-> "STATE", st |-> x.st, ack |-> a] \in Boards(Board(x.st, x.hand, a))
  <2> DEFINE b == Board(x.st, x.hand, a)
  <2>1. b \in Seq(Msgs) /\ Len(b) = 2 /\ b[1] = [op |-> "STATE", st |-> x.st, ack |-> a]
    BY <1>0, BoardFacts, ZenonT(60)
  <2>2. 1 \in DOMAIN b BY <2>1, LenProperties
  <2> HIDE DEF b
  <2>3. b[1].op = "STATE" BY <2>1
  <2> QED BY <2>1, <2>2, <2>3 DEF b, Boards, Range
<1>2. Boards(Greeting(x)) # {}
  <2> DEFINE m == [op |-> "RESUME_RESP", ok |-> TRUE, sid |-> x.sid]
             b == Board(x.st, x.hand, 0)
             a == <<m>>
  <2>1. m \in Answers BY <1>0 DEF Answers
  <2>2. m \in Msgs BY <2>1 DEF Msgs
  <2> HIDE DEF m
  <2>3. a \in Seq(Msgs) BY <2>2
  <2>4. b \in Seq(Msgs) /\ Boards(b) # {} /\ \A n \in Boards(b) : n.st = x.st
    BY <1>0, <1>1, BoardMsgs DEF Boards
  <2>5. Greeting(x) = a \o b BY DEF Greeting, m
  <2> HIDE DEF a, b
  <2>6. Boards(a \o b) # {} BY <2>3, <2>4, ShownConcat
  <2> QED BY <2>5, <2>6
<1> QED BY <1>1, <1>2

(* Every step of a worker keeps LatestInv.                                 *)
LEMMA LatestWorker ==
  ASSUME TInv, TurnInv, LatestInv, NEW w \in Conns, WorkerStep(w) \/ Kill(w)
  PROVE  LatestInv'
<1>0. Only(w) /\ cl' = cl /\ up' = up BY WorkerEffect, OnlyOne DEF Stays
<1>1. CASE cl.cur # w
  <2>1. killed' = killed \/ killed' BY KilledStays
  <2>2. cl.cur # 0 => cl.cur \in Conns BY ClientHere
  <2>3. cl.cur # 0 => wk'[cl.cur] = wk[cl.cur] /\ s2c'[cl.cur] = s2c[cl.cur]
    BY <1>0, <1>1, <2>2 DEF Only
  <2> QED BY <1>0, <2>1, <2>3 DEF LatestInv
<1>2. SUFFICES ASSUME ~killed', cl.cur # 0, wk'[w].pc = "recv", cl.cur = w, w \in up
               PROVE  Shown(cl, s2c'[w], wk'[w].st)
  BY <1>0, <1>1, ClientHere DEF LatestInv
<1>3. ASSUME killed' = killed PROVE TurnOk(wk[w]) BY <1>2, <1>3 DEF TurnInv
<1>4. CASE Hello(w) \/ RecvOver(w) \/ ReplyBoard(w)
  <2> DEFINE x == wk[w]
  <2>1. PICK next \in {"recv", "ai_entry"} :
          \/ Sent(w, Greeting(x), next)
          \/ Sent(w, Board(x.st, x.hand, 1), next)
    BY <1>4, HelloIs, BoardIs DEF LoopPc
  <2>2. PICK msgs \in {Greeting(x), Board(x.st, x.hand, 1)} : Sent(w, msgs, next) BY <2>1
  <2>3. x \in WorkRec /\ x.st \in Games /\ x.hand \in Deals /\ s2c[w] \in Seq(Msgs) BY Here
  <2>4. msgs \in Seq(Msgs) /\ \A m \in Boards(msgs) : m.st = x.st
    BY <2>3, GreetingMsgs, BoardMsgs DEF Boards
  <2>5. Boards(msgs) # {} BY <2>3, AnswersShow
  <2>6. s2c'[w] = s2c[w] \o msgs /\ wk'[w].st = x.st BY <1>2, <2>2 DEF Sent, Moves
  <2> HIDE DEF x
  <2>7. Shown(cl, s2c[w] \o msgs, x.st) BY <2>3, <2>4, <2>5, ShownConcat
  <2> QED BY <2>6, <2>7
<1>5. CASE HsLogin(w) \/ HsResume(w) \/ LoadHand(w) \/ HsOther(w)
  <2>1. wk'[w].pc \in {"save_st", "load_hand", "hs", "done", "hello"}
    BY <1>5, HsLoginIs, HsResumeIs, LoadHandIs, HsOtherIs, ZenonT(60) DEF Sent, Moves
  <2> QED BY <1>2, <2>1
<1>6. CASE SaveSt(w) \/ SaveHand(w)
  <2>1. /\ wk[w].pc \in {"save_st", "save_hand"} /\ killed' = killed
        /\ wk'[w].pc \in {"save_hand", wk[w].then}
    BY <1>6, SaveStIs, SaveHandIs DEF Moves
  <2>2. wk[w].then # "recv" BY <1>3, <2>1 DEF TurnOk
  <2> QED BY <1>2, <2>1, <2>2
<1>7. CASE AiOnEntry(w) \/ AiTurn(w) \/ RecvPlay(w) \/ RecvEndTurn(w)
  <2>1. wk'[w].pc = "save_st" BY <1>7, GameIs DEF GoesOn
  <2> QED BY <1>2, <2>1
<1>8. CASE WorkerEof(w) \/ HsFull(w) \/ Kill(w)
  <2>1. wk'[w].pc = "done" BY <1>8, StopIs DEF Moves
  <2> QED BY <1>2, <2>1
<1> QED BY <1>4, <1>5, <1>6, <1>7, <1>8 DEF WorkerStep

(* Taking a packet keeps LatestInv.                                        *)
LEMMA LatestTaken ==
  ASSUME TInv, LatestInv, cl.cur # 0, s2c[cl.cur] # <<>>, Taken, wk' = wk, killed' = killed,
         cl'.cur = cl.cur,
         LET m == Head(s2c[cl.cur]) IN
           /\ m.op = "STATE" => cl'.connected /\ cl'.st = m.st
           /\ m.op # "STATE" => cl'.connected = cl.connected /\ cl'.st = cl.st
  PROVE  LatestInv'
<1>1. cl.cur \in Conns /\ s2c[cl.cur] \in Seq(Msgs) BY ClientHere, Here
<1>2. s2c'[cl.cur] = Tail(s2c[cl.cur]) BY <1>1 DEF Taken, TInv, Types
<1>3. SUFFICES ASSUME ~killed, wk[cl.cur].pc = "recv"
               PROVE  Shown(cl', Tail(s2c[cl.cur]), wk[cl.cur].st)
  BY <1>2 DEF LatestInv
<1>4. Shown(cl, s2c[cl.cur], wk[cl.cur].st) BY <1>3 DEF LatestInv
<1> QED BY <1>1, <1>4, ShownTail

(* Every step keeps TurnInv and LatestInv.                                 *)
LEMMA TurnsStep ==
  ASSUME TInv, OnePerSession', SeenInv, TurnInv, LatestInv, [Next]_vars
  PROVE  TurnInv' /\ LatestInv'
<1>1. ASSUME NEW w \in Conns, WorkerStep(w) \/ Kill(w) PROVE TurnInv' /\ LatestInv'
  BY <1>1, TurnStep, LatestWorker
<1>2. CASE Connect
  <2> DEFINE w == nconn + 1
  <2>1. /\ w \in Conns /\ wk' = [wk EXCEPT ![w] = [wk[w] EXCEPT !.pc = "hs"]] /\ wk[w].pc = "none"
        /\ cl' = [cl EXCEPT !.cur = w] /\ UNCHANGED <<store, killed>>
    BY <1>2, ConnectFacts
  <2> HIDE DEF w
  <2>3. wk'[w].pc = "hs"
    <3>1. Moves(w, "hs") BY <2>1, MovesFacts
    <3> QED BY <3>1 DEF Moves
  <2>4. \A v \in Conns : v # w => wk'[v] = wk[v] BY <2>1 DEF TInv, Types
  <2>5. ASSUME ~killed, NEW v \in Conns PROVE TurnOk(wk'[v])
    <3>1. CASE v = w BY <2>3, <3>1 DEF TurnOk
    <3>2. CASE v # w BY <2>4, <2>5, <3>2 DEF TurnInv
    <3> QED BY <3>1, <3>2
  <2>6. ~Busy(wk[w]) BY <2>1 DEF Busy
  <2>7. ASSUME ~killed, NEW s \in Conns, store[s].valid
        PROVE  Ready(store[s].st) \/ \E v \in Conns : wk'[v].sid = s /\ Busy(wk'[v])
    <3>1. Ready(store[s].st) \/ \E v \in Conns : wk[v].sid = s /\ Busy(wk[v])
      BY <2>7 DEF TurnInv
    <3>2. \A v \in Conns : Busy(wk[v]) => wk'[v] = wk[v] BY <2>4, <2>6
    <3> QED BY <3>1, <3>2
  <2>8. TurnInv' BY <2>1, <2>5, <2>7 DEF TurnInv
  <2>9. cl'.cur = w BY <2>1, ClientHere DEF ClientRec
  <2>10. LatestInv' BY <2>3, <2>9 DEF LatestInv
  <2> QED BY <2>8, <2>10
<1>3. ASSUME UNCHANGED <<srvVars, killed>> PROVE TurnInv' BY <1>3 DEF TurnInv, srvVars
<1>4. ASSUME cl'.cur = 0 PROVE LatestInv' BY <1>4 DEF LatestInv
<1>5. ASSUME UNCHANGED <<srvVars, killed, s2c>>, cl'.cur = cl.cur, cl'.connected = cl.connected,
             cl'.st = cl.st
      PROVE  TurnInv' /\ LatestInv'
  BY <1>3, <1>5 DEF LatestInv, Shown, srvVars
<1>6. CASE ConnLost \/ ClientEof
  <2>1. UNCHANGED <<srvVars, killed>> /\ cl.cur # 0 /\ Close(cl)
    BY <1>6 DEF ConnLost, ClientEof, bounds
  <2>2. cl \in ClientRec BY ClientHere
  <2> QED BY <1>3, <1>4, <2>1, <2>2, CloseFacts
<1>7. CASE OnResumeResp
  <2> DEFINE m == Head(s2c[cl.cur])
  <2>1. cl.cur # 0 /\ s2c[cl.cur] # <<>> /\ m.op = "RESUME_RESP"
    BY <1>7, IncomingFacts DEF OnResumeResp
  <2>2. UNCHANGED <<srvVars, killed>> BY <1>7 DEF OnResumeResp, bounds
  <2>3. CASE m.ok
    <3>1. Taken /\ cl' = [cl EXCEPT !.sid = m.sid] BY <1>7, <2>3 DEF OnResumeResp
    <3>2. cl'.cur = cl.cur /\ cl'.connected = cl.connected /\ cl'.st = cl.st
      <4> HIDE DEF m
      <4> QED BY <3>1, ClientHere DEF ClientRec
    <3> QED BY <1>3, <2>1, <2>2, <3>1, <3>2, LatestTaken DEF srvVars
  <2>4. CASE ~m.ok
    <3>1. Close([cl EXCEPT !.sid = 0]) BY <1>7, <2>4 DEF OnResumeResp
    <3>2. [cl EXCEPT !.sid = 0] \in ClientRec BY ClientHere, SessionsAssumption DEF ClientRec
    <3> QED BY <1>3, <1>4, <2>1, <2>2, <3>1, <3>2, CloseFacts
  <2> QED BY <2>3, <2>4
<1>8. CASE OnState
  <2> DEFINE m == Head(s2c[cl.cur])
  <2>1. cl.cur # 0 /\ s2c[cl.cur] # <<>> /\ m.op = "STATE" BY <1>8, IncomingFacts DEF OnState
  <2>2. UNCHANGED <<srvVars, killed>> /\ Taken BY <1>8 DEF OnState, bounds
  <2>3. cl'.cur = cl.cur /\ cl'.connected = TRUE /\ cl'.st = m.st BY <1>8, OnStateFacts
  <2> QED BY <1>3, <2>1, <2>2, <2>3, LatestTaken DEF srvVars
<1>9. CASE OnHand
  <2> DEFINE m == Head(s2c[cl.cur])
  <2>1. cl.cur # 0 /\ s2c[cl.cur] # <<>> /\ m.op = "HAND" BY <1>9, IncomingFacts DEF OnHand
  <2>2. UNCHANGED <<srvVars, killed>> /\ Taken BY <1>9 DEF OnHand, bounds
  <2>3. cl'.cur = cl.cur /\ cl'.connected = cl.connected /\ cl'.st = cl.st BY <1>9, OnHandFacts
  <2> QED BY <1>3, <2>1, <2>2, <2>3, LatestTaken DEF srvVars
<1>10. CASE NetSend
  <2>1. UNCHANGED <<srvVars, killed, s2c>> BY <1>10 DEF NetSend, bounds
  <2> QED BY <1>5, <1>10, <2>1, NetSendFacts
<1>11. CASE PressEndTurn \/ PressSelected
  <2>1. PICK op \in Kinds : Command(op) BY <1>11 DEF PressEndTurn, PressSelected, Kinds
  <2> QED BY <1>5, <2>1, CommandFacts DEF netVars
<1>12. ASSUME NEW sel \in BOOLEAN, PressOther(sel) PROVE TurnInv' /\ LatestInv'
  <2>1. cl' = [cl EXCEPT !.selected = sel] /\ UNCHANGED <<srvVars, netVars, bounds>>
    BY <1>12 DEF PressOther
  <2>2. cl'.cur = cl.cur /\ cl'.connected = cl.connected /\ cl'.st = cl.st
    BY <2>1, ClientHere DEF ClientRec
  <2> QED BY <1>5, <2>1, <2>2 DEF netVars, bounds
<1>13. CASE GuiEnds
  <2> DEFINE c == [cl EXCEPT !.running = FALSE]
  <2>1. /\ c \in ClientRec /\ c.cur = cl.cur /\ UNCHANGED <<srvVars, killed>>
    BY <1>13, GuiEndsFacts DEF bounds
  <2>2. CASE cl.cur # 0
    <3>1. Close(c) BY <1>13, <2>2 DEF GuiEnds
    <3> HIDE DEF c
    <3> QED BY <1>3, <1>4, <2>1, <2>2, <3>1, CloseFacts
  <2>3. CASE cl.cur = 0
    <3>1. cl' = c BY <1>13, <2>3 DEF GuiEnds
    <3> HIDE DEF c
    <3> QED BY <1>3, <1>4, <2>1, <2>3, <3>1
  <2> QED BY <2>2, <2>3
<1>14. CASE Restart
  <2>1. /\ cl' = cl /\ wk' = wk /\ s2c' = s2c /\ killed' = killed
        /\ store' = [s \in Conns |-> [valid |-> FALSE, st |-> NoGame, hand |-> NoHand]]
    BY <1>14 DEF Restart, netVars
  <2>2. \A s \in Conns : store'[s].valid = FALSE BY <2>1
  <2>3. TurnInv' BY <2>1, <2>2 DEF TurnInv
  <2> QED BY <2>1, <2>3 DEF LatestInv
<1>15. CASE UNCHANGED vars BY <1>5, <1>15 DEF vars, srvVars
<1> QED BY <1>1, <1>2, <1>6, <1>7, <1>8, <1>9, <1>10, <1>11, <1>12, <1>13, <1>14, <1>15
        DEF Next, ClientStep

(* The layers so far, the turn included.                                   *)
LEMMA TurnsInvariance == Spec /\ []OnePerSession => [](PInv /\ TurnInv /\ LatestInv)
<1>1. Init => TurnInv /\ LatestInv
  <2> SUFFICES ASSUME Init PROVE TurnInv /\ LatestInv OBVIOUS
  <2>1. \A w \in Conns : wk[w].pc = "none" BY DEF Init
  <2>2. \A w \in Conns : TurnOk(wk[w]) BY <2>1 DEF TurnOk
  <2>3. \A s \in Conns : store[s].valid = FALSE BY DEF Init
  <2>4. cl.cur = 0 BY DEF Init
  <2> QED BY <2>2, <2>3, <2>4 DEF TurnInv, LatestInv
<1>2. PInv /\ OnePerSession' /\ TurnInv /\ LatestInv /\ [Next]_vars => TurnInv' /\ LatestInv'
  BY TurnsStep DEF PInv
<1> QED BY <1>1, <1>2, ShowInvariance, PTL DEF Spec

(* The player is never locked out: with nothing in flight and both sides   *)
(* waiting, the screen shows the end of the game or a board that takes     *)
(* clicks.  That holds as long as no two workers are in the same session,  *)
(* and nobody is killed.                                                   *)
THEOREM NotStuckIfApart == Spec /\ []OnePerSession => []NobodyStuck
<1>1. PInv /\ TurnInv /\ LatestInv => NobodyStuck
  <2> SUFFICES ASSUME PInv, TurnInv, LatestInv, ~killed, cl.connected, cl.cur # 0,
                      s2c[cl.cur] = <<>>, wk[cl.cur].pc = "recv"
               PROVE  Screen = "over" \/ (Screen = "board" /\ CanClick)
    BY DEF NobodyStuck
  <2>1. TInv /\ cl.cur \in Conns BY ClientHere DEF PInv
  <2>2. ScreenOk(cl, s2c[cl.cur], Undisturbed) /\ ~HandNext(s2c[cl.cur])
    BY DEF PInv, ShowInv, HandNext
  <2>3. cl.has_state /\ cl.has_hand BY <2>2 DEF ScreenOk
  <2>4. Boards(s2c[cl.cur]) = {} BY ShortBoards
  <2>5. cl.st = wk[cl.cur].st BY <2>4 DEF LatestInv, Shown
  <2>6. Ready(cl.st) BY <2>1, <2>5 DEF TurnInv, TurnOk
  <2>7. cl.st.turn \in {0, 1} /\ cl.st.over \in {0, 1} BY <2>1, ClientHere, GameFields
  <2>8. CASE cl.st.over = 1
    <3>1. Screen = "over" BY <2>3, <2>8 DEF Screen
    <3> QED BY <3>1
  <2>9. CASE cl.st.over = 0
    <3>1. cl.st.turn = 0 BY <2>6, <2>9 DEF Ready
    <3>2. Screen = "board" BY <2>3, <2>9, <3>1 DEF Screen
    <3>3. CanClick BY <2>3, <2>9, <3>1 DEF CanClick
    <3> QED BY <3>2, <3>3
  <2> QED BY <2>7, <2>8, <2>9
<1> QED BY <1>1, TurnsInvariance, PTL
-----------------------------------------------------------------------------
(* The hand a click was made on.                                           *)

(* A hand the player has had in view: it is the hand of the player's turn  *)
(* in the game g, or an END_TURN on it is in the log, or g is over.        *)
Past(h, g) ==
  \/ h = g.deal /\ g.turn = 0
  \/ \E j \in DOMAIN g.log : g.log[j].op = "END_TURN" /\ g.log[j].onto = h
  \/ g.over = 1

(* k: the workers, t: the store.  The worker that dealt the hand d is, or  *)
(* was, one of session s.                                                  *)
Dealer(k, s, d) == d[1] \in Conns /\ k[d[1]].sid = s
Held(k, t, h) ==
  /\ h[1] \in Conns /\ k[h[1]].sid \in Conns /\ k[k[h[1]].sid].sid = k[h[1]].sid
  /\ Past(h, t[k[h[1]].sid].st)
  /\ \A w \in Conns : k[w].pc \in InSession /\ k[w].sid = k[h[1]].sid => Past(h, k[w].st)

(* The commands a log of session s has.                                    *)
AimedEntry(k, s, log, i) ==
  log[i].op = "PLAY_CARD" =>
    /\ log[i].aim[1] \in Conns /\ k[log[i].aim[1]].sid # 0
    /\ \/ log[i].aim = log[i].onto
       \/ k[log[i].aim[1]].sid # s
       \/ \E j \in 1..(i - 1) : log[j].op = "END_TURN" /\ log[j].onto = log[i].aim
Aimed(k, s, log) == \A i \in DOMAIN log : AimedEntry(k, s, log, i)

DealInv ==
  /\ \A w \in Conns : wk[w].pc \in InSession =>
       store[wk[w].sid].valid /\ Dealer(wk, wk[w].sid, wk[w].st.deal)
  /\ \A s \in Conns : store[s].st.sid = s => Dealer(wk, s, store[s].st.deal)
HeldInv ==
  /\ cl.has_hand => Held(wk, store, cl.hand)
  /\ \A m \in Range(pipe) : Held(wk, store, m.aim)
  /\ \A v \in Conns : /\ \A m \in Range(c2s[v]) : m.op \in Kinds => Held(wk, store, m.aim)
                      /\ \A m \in Range(s2c[v]) : m.op = "HAND" => Held(wk, store, m.hand)
LogInv ==
  \A w \in Conns : Aimed(wk, wk[w].sid, wk[w].st.log) /\ Aimed(wk, w, store[w].st.log)
AimInv == Undisturbed => DealInv /\ HeldInv /\ LogInv

(* A game step, seen from the hand.                                        *)
GrowsOn(w) ==
  LET x == wk[w]
      y == wk'[w]
  IN  /\ y.sid = x.sid /\ y.st \in Games /\ NotBefore(x.st, y.st)
      /\ y.st.deal = x.st.deal \/ y.st.deal[1] = w
      /\ \/ /\ x.pc = "recv" /\ y.st.deal = x.st.deal /\ y.st.turn = x.st.turn
            /\ x.st.over = 0 /\ c2s[w] # <<>> /\ Head(c2s[w]) \in Cmds
            /\ \/ y.st.log = x.st.log
               \/ y.st.log = Append(x.st.log, Entry(x.hand, Head(c2s[w])))
         \/ /\ x.pc = "recv" /\ x.st.over = 0 /\ Head(c2s[w]) \in Cmds
            /\ Head(c2s[w]).op = "END_TURN"
            /\ y.st.log = Append(x.st.log, Entry(x.hand, Head(c2s[w])))
         \/ x.pc \in {"ai", "ai_entry"} /\ y.st.log = x.st.log

(* The AI's turn, seen from the hand.                                      *)
LEMMA AiGrows ==
  ASSUME TInv, NEW w \in Conns, AiOnEntry(w) \/ AiTurn(w)
  PROVE  GrowsOn(w)
<1>1. wk[w].st \in Games BY Here
<1>2. PICK st \in AiOutcomes(w, wk[w].st) : SaveThen(w, st, "recv") \/ SaveThen(w, st, "reply")
  BY DEF AiOnEntry, AiTurn
<1>3. /\ Grown(wk[w].st, st)
      /\ st.deal = wk[w].st.deal \/ st.deal = <<w, wk[w].st.deal[2] + 1>>
  BY <1>1, AiFacts
<1>4. st \in Games /\ (st.deal = wk[w].st.deal \/ st.deal[1] = w) BY <1>3 DEF Grown
<1>5. wk'[w].st = st BY <1>2, <1>4, SaveThenIs
<1>6. GoesOn(w) /\ wk'[w].st.log = wk[w].st.log BY AiIs
<1>7. wk[w].pc \in {"ai", "ai_entry"} BY DEF AiOnEntry, AiTurn
<1> QED BY <1>4, <1>5, <1>6, <1>7 DEF GrowsOn, GoesOn

(* A click that is read, seen from the hand.                               *)
LEMMA RecvGrows ==
  ASSUME TInv, NEW w \in Conns, RecvPlay(w) \/ RecvEndTurn(w)
  PROVE  GrowsOn(w)
<1>1. wk[w].pc = "recv" /\ wk[w].st.over = 0 /\ c2s[w] # <<>>
  BY SMTT(60) DEF RecvPlay, RecvEndTurn, Packet
<1>2. CASE RecvPlay(w)
  <2>1. /\ GoesOn(w) /\ wk'[w].st.deal = wk[w].st.deal /\ Head(c2s[w]) \in Cmds
        /\ \/ wk'[w].st.log = wk[w].st.log
           \/ wk'[w].st.log = Append(wk[w].st.log, Entry(wk[w].hand, Head(c2s[w])))
    BY <1>2, RecvPlayIs
  <2>2. wk'[w].st.turn = wk[w].st.turn
    <3>1. PICK st \in PlayOutcomes(w, wk[w].st, wk[w].hand, Head(c2s[w])) : SaveThen(w, st, "reply")
      BY <1>2 DEF RecvPlay
    <3>2. wk[w].st \in Games /\ wk[w].hand \in Deals BY Here, SMTT(60)
    <3>3. Grown(wk[w].st, st) /\ st.turn = wk[w].st.turn BY <1>1, <2>1, <3>2, PlayFacts
    <3>4. st \in Games BY <3>3 DEF Grown
    <3>5. wk'[w].st = st BY <3>1, <3>4, SaveThenIs
    <3> QED BY <3>3, <3>5
  <2> QED BY <1>1, <2>1, <2>2 DEF GrowsOn, GoesOn
<1>3. CASE RecvEndTurn(w)
  <2> DEFINE m == Head(c2s[w])
             g == Executed(wk[w].st, wk[w].hand, m)
  <2>1. /\ GoesOn(w) /\ m \in Cmds /\ m.op = "END_TURN"
        /\ wk'[w].st.log = Append(wk[w].st.log, Entry(wk[w].hand, m))
    BY <1>3, RecvEndTurnIs
  <2>2. PICK st \in EndOutcomes(w, g) : SaveThen(w, st, IF LoopPc(st) = "recv" THEN "reply" ELSE "ai")
    BY <1>3 DEF RecvEndTurn
  <2>3. wk[w].st \in Games /\ wk[w].hand \in Deals BY Here
  <2>4. g \in Games /\ g.deal = wk[w].st.deal BY <2>1, <2>3, ExecutedGame
  <2> HIDE DEF g
  <2>5. Grown(g, st) /\ (st.deal = g.deal \/ st.deal = <<w, g.deal[2] + 1>>) BY <2>4, EndFacts
  <2>6. st \in Games /\ (st.deal = wk[w].st.deal \/ st.deal[1] = w) BY <2>4, <2>5 DEF Grown
  <2>7. PICK then \in {"reply", "ai"} : SaveThen(w, st, then) BY <2>2, SMTT(60)
  <2>8. wk'[w].st = st BY <2>6, <2>7, SaveThenIs, SMTT(60)
  <2> QED BY <1>1, <2>1, <2>6, <2>8 DEF GrowsOn, GoesOn
<1> QED BY <1>2, <1>3, SMTT(60)

(* A hand that was in view stays accounted for as the game goes on.        *)
LEMMA PastGrows ==
  ASSUME TInv, NEW w \in Conns, GrowsOn(w), NEW h, Past(h, wk[w].st),
         wk[w].hand = wk[w].st.deal, wk[w].pc \in {"ai", "ai_entry"} => wk[w].st.turn = 1
  PROVE  Past(h, wk'[w].st)
<1> DEFINE x == wk[w].st
           y == wk'[w].st
           e == Entry(wk[w].hand, Head(c2s[w]))
<1>1. x \in Games /\ y \in Games /\ NotBefore(x, y) /\ wk[w].hand \in Deals BY Here, SMTT(60) DEF GrowsOn
<1>2. x.over \in {0, 1} /\ y.over \in {0, 1} /\ x.log \in Seq(Entries) /\ y.log \in Seq(Entries)
  BY <1>1, GameFields, SMTT(60)
<1>3. CASE x.over = 1 BY <1>1, <1>2, <1>3, SMTT(60) DEF NotBefore, Past
<1>4. ASSUME NEW j \in DOMAIN x.log, x.log[j].op = "END_TURN", x.log[j].onto = h
      PROVE  Past(h, y)
  <2>1. Len(x.log) <= Len(y.log) /\ \A i \in 1..Len(x.log) : x.log[i] = y.log[i]
    BY <1>1, <1>2, PrefixMeans, SMTT(60) DEF NotBefore
  <2>2. /\ DOMAIN x.log = 1..Len(x.log) /\ DOMAIN y.log = 1..Len(y.log)
        /\ Len(x.log) \in Nat /\ Len(y.log) \in Nat
    BY <1>2, LenProperties
  <2>3. j \in DOMAIN y.log /\ y.log[j] = x.log[j] BY <2>1, <2>2, SMTT(60)
  <2> QED BY <1>4, <2>3 DEF Past
<1>5. ASSUME h = x.deal, x.turn = 0 PROVE Past(h, y)
  <2>1. wk[w].pc \notin {"ai", "ai_entry"} BY <1>5
  <2>2. CASE y.deal = x.deal /\ y.turn = x.turn BY <1>5, <2>2, SMTT(60) DEF Past
  <2>3. CASE /\ Head(c2s[w]) \in Cmds /\ Head(c2s[w]).op = "END_TURN" /\ y.log = Append(x.log, e)
    <3>1. e \in Entries BY <1>1, <2>3, ExecutedGame
    <3>2. e.op = "END_TURN" /\ e.onto = h BY <1>5, <2>3 DEF Entry
    <3> HIDE DEF e, x, y
    <3>3. Len(y.log) = Len(x.log) + 1 /\ y.log[Len(x.log) + 1] = e /\ Len(x.log) \in Nat
      BY <1>2, <2>3, <3>1, AppendProperties, LenProperties, SMTT(60)
    <3>4. Len(x.log) + 1 \in DOMAIN y.log BY <1>2, <3>3, LenProperties, SMTT(60)
    <3> QED BY <3>2, <3>3, <3>4 DEF Past
  <2> QED BY <2>1, <2>2, <2>3 DEF GrowsOn
<1> QED BY <1>3, <1>4, <1>5, SMTT(60) DEF Past

(* The log of a session grows with clicks whose hand was in view.          *)
LEMMA AimedGrows ==
  ASSUME TInv, NEW w \in Conns, GrowsOn(w), wk[w].hand = wk[w].st.deal,
         Aimed(wk, wk[w].sid, wk[w].st.log), wk[w].pc \in InSession,
         c2s[w] # <<>> /\ Head(c2s[w]).op \in Kinds => Held(wk, store, Head(c2s[w]).aim)
  PROVE  Aimed(wk, wk[w].sid, wk'[w].st.log)
<1> DEFINE x == wk[w].st
           y == wk'[w].st
           m == Head(c2s[w])
           e == Entry(wk[w].hand, m)
<1>1. x \in Games /\ y \in Games /\ wk[w].hand \in Deals BY Here DEF GrowsOn
<1>2. x.log \in Seq(Entries) BY <1>1, GameFields
<1>3. CASE y.log = x.log BY <1>3
<1>4. CASE m \in Cmds /\ y.log = Append(x.log, e) /\ x.over = 0
           /\ (m.op = "END_TURN" \/ c2s[w] # <<>>)
  <2>1. e \in Entries /\ e.op = m.op /\ e.aim = m.aim /\ e.onto = wk[w].hand
    BY <1>1, <1>4, ExecutedGame DEF Entry
  <2>2. m.op \in Kinds BY <1>4 DEF Cmds
  <2>3. m.op = "PLAY_CARD" => Held(wk, store, m.aim) BY <1>4, <2>2
  <2>4. wk[w].pc \in InSession /\ wk[w].hand = x.deal OBVIOUS
  <2> HIDE DEF e, m, y
  <2>5. /\ Len(y.log) = Len(x.log) + 1 /\ y.log[Len(x.log) + 1] = e
        /\ \A i \in 1..Len(x.log) : y.log[i] = x.log[i]
        /\ y.log \in Seq(Entries)
    BY <1>2, <1>4, <2>1, AppendProperties, SMTT(60)
  <2>6. /\ DOMAIN x.log = 1..Len(x.log) /\ DOMAIN y.log = 1..Len(y.log)
        /\ Len(x.log) \in Nat /\ Len(y.log) \in Nat
    BY <1>2, <2>5, LenProperties, SMTT(60)
  <2>7. ASSUME NEW i \in DOMAIN y.log, i # Len(x.log) + 1
        PROVE  AimedEntry(wk, wk[w].sid, y.log, i)
    <3>1. i \in DOMAIN x.log /\ y.log[i] = x.log[i] BY <2>5, <2>6, <2>7, SMTT(60)
    <3>2. \A j \in 1..(i - 1) : y.log[j] = x.log[j] BY <2>5, <2>6, <3>1
    <3>3. AimedEntry(wk, wk[w].sid, x.log, i) BY <3>1 DEF Aimed
    <3> QED BY <3>1, <3>2, <3>3 DEF AimedEntry
  <2>8. ASSUME e.op = "PLAY_CARD"
        PROVE  /\ e.aim[1] \in Conns /\ wk[e.aim[1]].sid # 0
               /\ \/ e.aim = e.onto \/ wk[e.aim[1]].sid # wk[w].sid
                  \/ \E j \in 1..Len(x.log) : y.log[j].op = "END_TURN" /\ y.log[j].onto = e.aim
    <3>1. Held(wk, store, e.aim) BY <2>1, <2>3, <2>8, SMTT(60)
    <3>2. e.aim[1] \in Conns /\ wk[e.aim[1]].sid # 0
      <4>1. e.aim[1] \in Conns /\ wk[e.aim[1]].sid \in Conns BY <3>1 DEF Held, Good
      <4>2. 0 \notin Conns BY DEF Conns
      <4> QED BY <4>1, <4>2, SMTT(60)
    <3>3. CASE wk[e.aim[1]].sid = wk[w].sid
      <4>1. Past(e.aim, x) BY <2>4, <3>1, <3>3, SMTT(60) DEF Held
      <4>2. \/ e.aim = x.deal
            \/ \E j \in DOMAIN x.log : x.log[j].op = "END_TURN" /\ x.log[j].onto = e.aim
        BY <1>4, <4>1 DEF Past
      <4> QED BY <2>1, <2>4, <2>5, <2>6, <3>2, <4>2, SMTT(60)
    <3> QED BY <3>2, <3>3
  <2>9. AimedEntry(wk, wk[w].sid, y.log, Len(x.log) + 1)
    <3>1. (Len(x.log) + 1) - 1 = Len(x.log) BY <2>6
    <3> QED BY <2>5, <2>8, <3>1 DEF AimedEntry
  <2>10. Aimed(wk, wk[w].sid, y.log) BY <2>7, <2>9 DEF Aimed
  <2> QED BY <2>10 DEF y
<1> QED BY <1>3, <1>4, SMTT(60) DEF GrowsOn

(* A worker belongs to one session.                                        *)
SidsStay == \A v \in Conns : wk'[v].sid = wk[v].sid \/ wk[v].sid = 0

(* No step of a worker changes the session it has.                         *)
LEMMA SidsStep ==
  ASSUME TInv, NamesInv, NEW w \in Conns, WorkerStep(w) \/ Kill(w)
  PROVE  SidsStay
<1>1. Only(w) BY WorkerEffect, OnlyOne
<1>2. wk'[w].sid = wk[w].sid \/ wk[w].pc = "hs"
  <2>1. CASE HsLogin(w) \/ HsResume(w) \/ HsOther(w) BY <2>1, HsLoginIs, HsResumeIs, HsOtherIs
  <2>2. CASE LoadHand(w) \/ SaveSt(w) \/ SaveHand(w)
    BY <2>2, LoadHandIs, SaveStIs, SaveHandIs DEF Moves
  <2>3. CASE Hello(w) \/ RecvOver(w) \/ ReplyBoard(w)
    BY <2>3, HelloIs, BoardIs DEF Sent, Moves
  <2>4. CASE AiOnEntry(w) \/ AiTurn(w) \/ RecvPlay(w) \/ RecvEndTurn(w)
    BY <2>4, GameIs DEF GoesOn
  <2>5. CASE WorkerEof(w) \/ HsFull(w) \/ Kill(w) BY <2>5, StopIs DEF Moves
  <2> QED BY <2>1, <2>2, <2>3, <2>4, <2>5 DEF WorkerStep
<1>3. wk'[w].sid = wk[w].sid \/ wk[w].sid = 0 BY <1>2, NamesHere
<1> QED BY <1>1, <1>3 DEF SidsStay, Only

(* So the sessions of dealers and of clicks stay what they are.            *)
LEMMA SidsKeep ==
  ASSUME SidsStay
  PROVE  /\ \A s, log : Aimed(wk, s, log) => Aimed(wk', s, log)
         /\ \A s \in Conns : \A d : Dealer(wk, s, d) => Dealer(wk', s, d)
<1>0. 0 \notin Conns BY DEF Conns
<1>1. ASSUME NEW s, NEW log, Aimed(wk, s, log) PROVE Aimed(wk', s, log)
  <2> SUFFICES ASSUME NEW i \in DOMAIN log PROVE AimedEntry(wk', s, log, i) BY DEF Aimed
  <2>1. AimedEntry(wk, s, log, i) BY <1>1 DEF Aimed
  <2> QED BY <2>1 DEF AimedEntry, SidsStay
<1>2. ASSUME NEW s \in Conns, NEW d, Dealer(wk, s, d) PROVE Dealer(wk', s, d)
  BY <1>0, <1>2 DEF Dealer, SidsStay
<1> QED BY <1>1, <1>2

(* What the step of a worker has to show.                                  *)
LEMMA HeldWorker ==
  ASSUME TInv, NEW w \in Conns, Only(w), SidsStay,
         \A s \in Conns : \/ store'[s].st = store[s].st
                          \/ s = wk[w].sid /\ wk[w].pc \in InSession /\ store'[s].st = wk[w].st,
         NEW h, Held(wk, store, h),
         wk'[w].pc \in InSession /\ wk'[w].sid = wk[h[1]].sid => Past(h, wk'[w].st)
  PROVE  Held(wk', store', h)
<1> DEFINE s == wk[h[1]].sid
<1>0. 0 \notin Conns BY DEF Conns
<1>1. /\ h[1] \in Conns /\ s \in Conns /\ wk[s].sid = s /\ Past(h, store[s].st)
      /\ \A v \in Conns : wk[v].pc \in InSession /\ wk[v].sid = s => Past(h, wk[v].st)
  BY DEF Held
<1>2. wk'[h[1]].sid = s BY <1>0, <1>1 DEF SidsStay
<1> HIDE DEF s
<1>3. wk'[s].sid = s BY <1>0, <1>1 DEF SidsStay
<1>4. Past(h, store'[s].st) BY <1>1
<1>5. ASSUME NEW v \in Conns, wk'[v].pc \in InSession, wk'[v].sid = s PROVE Past(h, wk'[v].st)
  <2>1. CASE v = w BY <1>5, <2>1 DEF s
  <2>2. CASE v # w
    <3>1. wk'[v] = wk[v] BY <2>2 DEF Only
    <3> QED BY <1>1, <1>5, <3>1
  <2> QED BY <2>1, <2>2
<1> QED BY <1>1, <1>2, <1>3, <1>4, <1>5 DEF Held

(* What the step of a worker has to show for the three parts of AimInv.    *)
LEMMA AimWorker ==
  ASSUME TInv, DealInv, HeldInv, LogInv, NEW w \in Conns, Only(w), Stays, Reads(w), SidsStay,
         \A s \in Conns : store[s].valid => store'[s].valid,
         wk'[w].pc \in InSession =>
           /\ wk'[w].sid \in Conns /\ store'[wk'[w].sid].valid
           /\ Dealer(wk', wk'[w].sid, wk'[w].st.deal),
         \A s \in Conns : \/ store'[s].st = store[s].st
                          \/ s = wk[w].sid /\ wk[w].pc \in InSession /\ store'[s].st = wk[w].st,
         \A h : /\ Held(wk, store, h) /\ wk'[w].pc \in InSession /\ wk'[w].sid = wk[h[1]].sid
                => Past(h, wk'[w].st),
         Aimed(wk', wk'[w].sid, wk'[w].st.log),
         NEW msgs \in Seq(Msgs), s2c'[w] = s2c[w] \/ s2c'[w] = s2c[w] \o msgs,
         \A m \in Range(msgs) : m.op = "HAND" => Held(wk, store, m.hand)
  PROVE  DealInv' /\ HeldInv' /\ LogInv'
<1>1. DealInv'
  <2>1. ASSUME NEW v \in Conns, wk'[v].pc \in InSession
        PROVE  store'[wk'[v].sid].valid /\ Dealer(wk', wk'[v].sid, wk'[v].st.deal)
    <3>1. CASE v = w BY <2>1, <3>1
    <3>2. CASE v # w
      <4>1. wk'[v] = wk[v] BY <3>2 DEF Only
      <4>2. wk[v].sid \in Conns BY <2>1, <4>1, Here
      <4>3. store[wk[v].sid].valid /\ Dealer(wk, wk[v].sid, wk[v].st.deal)
        BY <2>1, <4>1 DEF DealInv
      <4> QED BY <4>1, <4>2, <4>3, SidsKeep
    <3> QED BY <3>1, <3>2
  <2>2. ASSUME NEW s \in Conns, store'[s].st.sid = s PROVE Dealer(wk', s, store'[s].st.deal)
    <3>1. Dealer(wk, s, store'[s].st.deal)
      <4>1. CASE store'[s].st = store[s].st BY <2>2, <4>1 DEF DealInv
      <4>2. CASE s = wk[w].sid /\ wk[w].pc \in InSession /\ store'[s].st = wk[w].st
        BY <4>2 DEF DealInv
      <4> QED BY <4>1, <4>2
    <3> QED BY <3>1, SidsKeep
  <2> QED BY <2>1, <2>2 DEF DealInv
<1>2. \A h : Held(wk, store, h) => Held(wk', store', h) BY HeldWorker
<1>3. HeldInv'
  <2>1. cl' = cl /\ pipe' = pipe BY DEF Stays
  <2>2. ASSUME NEW v \in Conns, NEW m \in Range(c2s'[v]), m.op \in Kinds
        PROVE  Held(wk', store', m.aim)
    <3>1. m \in Range(c2s[v])
      <4>1. CASE c2s'[v] = c2s[v] BY <2>2, <4>1
      <4>2. CASE c2s'[v] # c2s[v]
        <5>1. /\ v = w /\ c2s[w] # <<>> /\ c2s'[w] = Tail(c2s[w])
          BY <4>2 DEF Reads, TInv, Types
        <5>2. c2s[w] \in Seq(Reqs) BY Here
        <5> QED BY <2>2, <5>1, <5>2, RangeTail
      <4> QED BY <4>1, <4>2
    <3> QED BY <1>2, <2>2, <3>1 DEF HeldInv
  <2>3. ASSUME NEW v \in Conns, NEW m \in Range(s2c'[v]), m.op = "HAND"
        PROVE  Held(wk', store', m.hand)
    <3>1. m \in Range(s2c[v]) \/ m \in Range(msgs)
      <4>1. CASE v # w BY <2>3, <4>1 DEF Only
      <4>2. CASE v = w
        <5>1. s2c[w] \in Seq(Msgs) BY Here
        <5> QED BY <2>3, <4>2, <5>1, RangeConcat
      <4> QED BY <4>1, <4>2
    <3>2. Held(wk, store, m.hand) BY <2>3, <3>1 DEF HeldInv
    <3> QED BY <1>2, <3>2
  <2> QED BY <1>2, <2>1, <2>2, <2>3 DEF HeldInv
<1>4. LogInv'
  <2>1. ASSUME NEW v \in Conns PROVE Aimed(wk', wk'[v].sid, wk'[v].st.log)
    <3>1. CASE v = w BY <3>1
    <3>2. CASE v # w
      <4>1. wk'[v] = wk[v] /\ Aimed(wk, wk[v].sid, wk[v].st.log) BY <3>2 DEF Only, LogInv
      <4> QED BY <4>1, SidsKeep
    <3> QED BY <3>1, <3>2
  <2>2. ASSUME NEW v \in Conns PROVE Aimed(wk', v, store'[v].st.log)
    <3>1. Aimed(wk, v, store'[v].st.log) BY DEF LogInv
    <3> QED BY <3>1, SidsKeep
  <2> QED BY <2>1, <2>2 DEF LogInv
<1> QED BY <1>1, <1>3, <1>4

(* A worker that keeps its session and its game.                           *)
LEMMA AimKept ==
  ASSUME TInv, DealInv, HeldInv, LogInv, NEW w \in Conns,
         Only(w), Stays, Reads(w), SidsStay, Keeps(w),
         wk'[w].pc \in InSession => wk[w].pc \in InSession,
         NEW msgs \in Seq(Msgs), s2c'[w] = s2c[w] \/ s2c'[w] = s2c[w] \o msgs,
         \A m \in Range(msgs) : m.op = "HAND" => Held(wk, store, m.hand)
  PROVE  DealInv' /\ HeldInv' /\ LogInv'
<1>1. /\ wk'[w].sid = wk[w].sid /\ wk'[w].st = wk[w].st
      /\ \A s \in Conns : store'[s].valid = store[s].valid /\ store'[s].st = store[s].st
  BY DEF Keeps
<1>2. ASSUME wk'[w].pc \in InSession
      PROVE  /\ wk'[w].sid \in Conns /\ store'[wk'[w].sid].valid
             /\ Dealer(wk', wk'[w].sid, wk'[w].st.deal)
  <2>1. wk[w].sid \in Conns BY <1>2, Here, SMTT(60)
  <2>2. store[wk[w].sid].valid /\ Dealer(wk, wk[w].sid, wk[w].st.deal) BY <1>2, SMTT(60) DEF DealInv
  <2> QED BY <1>1, <2>1, <2>2, SidsKeep
<1>3. \A h : Held(wk, store, h) /\ wk'[w].pc \in InSession /\ wk'[w].sid = wk[h[1]].sid
             => Past(h, wk'[w].st)
  BY <1>1 DEF Held
<1>4. Aimed(wk', wk'[w].sid, wk'[w].st.log)
  <2>1. Aimed(wk, wk[w].sid, wk[w].st.log) BY DEF LogInv
  <2> QED BY <1>1, <2>1, SidsKeep
<1> QED BY <1>1, <1>2, <1>3, <1>4, AimWorker

(* A hand that is sent is the one of the worker's game.                    *)
LEMMA SentHands ==
  ASSUME NEW x \in WorkRec
  PROVE  \A m \in Range(Greeting(x)) \union Range(Board(x.st, x.hand, 1)) :
           m.op = "HAND" => m.hand = x.hand
<1>0. x.st \in Games /\ x.hand \in Deals /\ x.sid \in 0..MaxConns BY DEF WorkRec
<1>1. ASSUME NEW ack \in {0, 1}
      PROVE  \A m \in Range(Board(x.st, x.hand, ack)) : m.op = "HAND" => m.hand = x.hand
  <2> DEFINE a == [op |-> "STATE", st |-> x.st, ack |-> ack]
             b == [op |-> "HAND", hand |-> x.hand]
  <2>1. a.op = "STATE" /\ b.op = "HAND" /\ b.hand = x.hand OBVIOUS
  <2>2. Board(x.st, x.hand, ack) = <<a, b>> BY DEF Board
  <2> HIDE DEF a, b
  <2>3. Range(<<a, b>>) = {a, b} BY RangeShort
  <2> QED BY <2>1, <2>2, <2>3
<1>2. \A m \in Range(Greeting(x)) : m.op = "HAND" => m.hand = x.hand
  <2> DEFINE a == [op |-> "RESUME_RESP", ok |-> TRUE, sid |-> x.sid]
             b == Board(x.st, x.hand, 0)
  <2>1. a \in Answers /\ a.op = "RESUME_RESP" BY <1>0 DEF Answers
  <2>2. a \in Msgs BY <2>1 DEF Msgs
  <2>3. b \in Seq(Msgs) /\ \A m \in Range(b) : m.op = "HAND" => m.hand = x.hand
    BY <1>0, <1>1, BoardMsgs
  <2>4. Greeting(x) = <<a>> \o b BY DEF Greeting
  <2> HIDE DEF a, b
  <2>5. <<a>> \in Seq(Msgs) /\ Range(<<a>>) = {a} BY <2>2, RangeShort
  <2>6. Range(<<a>> \o b) \subseteq {a} \union Range(b) BY <2>3, <2>5, RangeConcat
  <2> QED BY <2>1, <2>3, <2>4, <2>6
<1> QED BY <1>1, <1>2

(* The steps of a worker, in an undisturbed run.                           *)
AimPre ==
  /\ TInv /\ NamesInv /\ OnePerSession /\ SeenInv /\ DealInv /\ HeldInv /\ LogInv
  /\ \A w \in Conns : HandsOk(wk[w], store) /\ TurnOk(wk[w])
OneMoves(w) == Only(w) /\ Stays /\ Reads(w) /\ SidsStay

(* The handshake: a new game is dealt by its worker, a resumed one is the  *)
(* stored one.                                                             *)
LEMMA AimHs ==
  ASSUME AimPre, NEW w \in Conns, OneMoves(w), HsLogin(w) \/ HsResume(w) \/ HsOther(w)
  PROVE  DealInv' /\ HeldInv' /\ LogInv'
<1> USE DEF OneMoves
<1>0. /\ TInv /\ NamesInv /\ DealInv /\ HeldInv /\ LogInv
      /\ <<>> \in Seq(Msgs) /\ Range(<<>>) = {} /\ 0 \notin Conns
  BY EmptySeq, RangeShort DEF AimPre, Conns
<1>1. wk[w].sid = 0
  <2>1. wk[w].pc = "hs" BY DEF HsLogin, HsResume, HsOther, Packet
  <2> QED BY <1>0, <2>1, NamesHere
<1>2. CASE HsLogin(w)
  <2>1. /\ s2c' = s2c /\ wk'[w].sid = w /\ wk'[w].st = NewGame(w) /\ store'[w].valid = TRUE
        /\ store'[w].st = store[w].st /\ Session(w)
    BY <1>0, <1>2, HsLoginIs
  <2>2. \A s \in Conns : store'[s].st = store[s].st /\ (store[s].valid => store'[s].valid)
    BY <2>1 DEF Session
  <2>3. NewGame(w).log = <<>> /\ NewGame(w).deal[1] = w
    <3>1. [NoGame EXCEPT !.sid = w] \in Games
      BY NewGameFacts, SessionsAssumption DEF Games, Conns
    <3> QED BY <3>1, NewGameFacts, DealGame DEF NewGame
  <2>4. Dealer(wk', wk'[w].sid, wk'[w].st.deal) BY <2>1, <2>3 DEF Dealer
  <2>5. Aimed(wk', wk'[w].sid, wk'[w].st.log) BY <2>1, <2>3, SMTT(60) DEF Aimed
  <2>6. \A h : ~(Held(wk, store, h) /\ wk'[w].sid = wk[h[1]].sid)
    BY <1>0, <1>1, <2>1 DEF Held
  <2> QED BY <1>0, <2>1, <2>2, <2>4, <2>5, <2>6, AimWorker
<1>3. CASE HsResume(w)
  <2> DEFINE sid == Head(c2s[w]).sid
  <2>1. /\ wk[w].pc = "hs" /\ store' = store /\ sid \in Conns
        /\ c2s[w] # <<>> /\ Head(c2s[w]).op = "RESUME_REQ"
        /\ \/ /\ store[sid].valid /\ s2c' = s2c
              /\ wk'[w].pc = "load_hand" /\ wk'[w].sid = sid
              /\ wk'[w].st = store[sid].st
           \/ ~store[sid].valid /\ Sent(w, <<NoSession>>, "hs")
    BY <1>0, <1>3, HsResumeIs
  <2>2. Good(wk, store, sid)
    <3>1. c2s[w] \in Seq(Reqs) BY <1>0, Here
    <3>2. Head(c2s[w]) \in Range(c2s[w]) BY <2>1, <3>1, RangeTail
    <3> QED BY <1>0, <2>1, <3>2 DEF NamesInv, ReqOk
  <2> HIDE DEF sid
  <2>3. CASE /\ store[sid].valid /\ s2c' = s2c
             /\ wk'[w].pc = "load_hand" /\ wk'[w].sid = sid
             /\ wk'[w].st = store[sid].st
    <3>1. store[sid].st.sid = sid BY <2>2, <2>3 DEF Good
    <3>2. Dealer(wk, sid, store[sid].st.deal) BY <1>0, <2>1, <3>1 DEF DealInv
    <3>3. Aimed(wk, sid, store[sid].st.log) BY <1>0, <2>1 DEF LogInv
    <3>4. Dealer(wk', sid, wk'[w].st.deal) /\ Aimed(wk', wk'[w].sid, wk'[w].st.log)
      BY <2>1, <2>3, <3>2, <3>3, SidsKeep
    <3>5. \A h : Held(wk, store, h) /\ wk'[w].sid = wk[h[1]].sid => Past(h, wk'[w].st)
      BY <2>3, SMTT(60) DEF Held
    <3> QED BY <1>0, <2>1, <2>3, <3>4, <3>5, AimWorker
  <2>4. CASE Sent(w, <<NoSession>>, "hs")
    <3>1. /\ wk'[w].pc \in {"hs", "done"} /\ Keeps(w)
          /\ s2c'[w] = s2c[w] \/ s2c'[w] = s2c[w] \o <<NoSession>>
      BY <2>1, <2>4 DEF Sent, Moves, Keeps
    <3>2. wk'[w].pc \notin InSession BY <3>1 DEF InSession
    <3> DEFINE q == <<NoSession>>
    <3>3. NoSession \in Answers /\ NoSession.op = "RESUME_RESP"
      BY SessionsAssumption DEF NoSession, Answers
    <3>4. NoSession \in Msgs BY <3>3 DEF Msgs
    <3>5. q \in Seq(Msgs) /\ Range(q) = {NoSession} BY <3>4, RangeShort
    <3>6. s2c'[w] = s2c[w] \/ s2c'[w] = s2c[w] \o q BY <3>1
    <3> HIDE DEF q
    <3>7. \A m \in Range(q) : m.op # "HAND" BY <3>3, <3>5
    <3> QED BY <1>0, <3>1, <3>2, <3>5, <3>6, <3>7, AimKept, SMTT(60)
  <2> QED BY <2>1, <2>3, <2>4
<1>4. CASE HsOther(w)
  <2>1. s2c' = s2c /\ store' = store /\ Moves(w, "hs") BY <1>0, <1>4, HsOtherIs
  <2>2. Keeps(w) /\ wk'[w].pc = "hs" BY <2>1 DEF Keeps, Moves
  <2>3. wk'[w].pc \notin InSession BY <2>2 DEF InSession
  <2> QED BY <1>0, <2>1, <2>2, <2>3, AimKept
<1> QED BY <1>2, <1>3, <1>4

(* Saving and loading.                                                     *)
LEMMA AimSave ==
  ASSUME AimPre, NEW w \in Conns, OneMoves(w), SaveSt(w) \/ SaveHand(w) \/ LoadHand(w)
  PROVE  DealInv' /\ HeldInv' /\ LogInv'
<1> USE DEF OneMoves
<1> DEFINE sid == wk[w].sid
<1>0. /\ TInv /\ NamesInv /\ DealInv /\ HeldInv /\ LogInv
      /\ <<>> \in Seq(Msgs) /\ Range(<<>>) = {}
  BY EmptySeq, RangeShort DEF AimPre
<1>1. /\ wk[w].pc \in {"save_st", "save_hand", "load_hand"} /\ s2c' = s2c /\ sid \in Conns
      /\ wk'[w].sid = sid /\ wk'[w].st = wk[w].st
      /\ Keeps(w) \/ ( /\ store'[sid].st = wk[w].st /\ store'[sid].valid = store[sid].valid
                       /\ Session(sid) )
  BY <1>0, SaveStIs, SaveHandIs, LoadHandIs, SMTT(60) DEF Moves, Keeps, Session
<1>2. wk[w].pc \in InSession BY <1>1 DEF InSession
<1>3. CASE Keeps(w) BY <1>0, <1>1, <1>2, <1>3, AimKept
<1>4. CASE /\ store'[sid].st = wk[w].st /\ store'[sid].valid = store[sid].valid
           /\ Session(sid)
  <2>1. store[sid].valid /\ Dealer(wk, sid, wk[w].st.deal) BY <1>0, <1>2 DEF DealInv
  <2>2. Dealer(wk', wk'[w].sid, wk'[w].st.deal) BY <1>1, <2>1, SidsKeep
  <2>3. Aimed(wk, sid, wk[w].st.log) BY <1>0 DEF LogInv
  <2>4. Aimed(wk', wk'[w].sid, wk'[w].st.log) BY <1>1, <2>3, SidsKeep
  <2>5. \A s \in Conns : /\ store'[s].st = store[s].st \/ (s = sid /\ store'[s].st = wk[w].st)
                         /\ store'[s].valid = store[s].valid
    BY <1>4 DEF Session
  <2>6. \A h : Held(wk, store, h) /\ wk'[w].sid = wk[h[1]].sid => Past(h, wk'[w].st)
    BY <1>1, <1>2 DEF Held
  <2> QED BY <1>0, <1>1, <1>2, <1>4, <2>1, <2>2, <2>4, <2>5, <2>6, AimWorker
<1> QED BY <1>1, <1>3, <1>4

(* Sending: the hand is that of the player's turn in the stored game.      *)
LEMMA AimSend ==
  ASSUME AimPre, NEW w \in Conns, OneMoves(w), Hello(w) \/ RecvOver(w) \/ ReplyBoard(w)
  PROVE  DealInv' /\ HeldInv' /\ LogInv'
<1> USE DEF OneMoves
<1> DEFINE x == wk[w]
<1>0. /\ TInv /\ NamesInv /\ OnePerSession /\ SeenInv /\ DealInv /\ HeldInv /\ LogInv
      /\ HandsOk(x, store) /\ TurnOk(x)
  BY DEF AimPre
<1>1. PICK next \in {"recv", "ai_entry"} :
        \/ Sent(w, Greeting(x), next)
        \/ Sent(w, Board(x.st, x.hand, 1), next)
  BY <1>0, HelloIs, BoardIs DEF LoopPc
<1>2. store' = store /\ x.pc \in {"hello", "recv", "reply"} BY <1>0, HelloIs, BoardIs
<1>3. PICK msgs \in {Greeting(x), Board(x.st, x.hand, 1)} : Sent(w, msgs, next) BY <1>1
<1>4. x \in WorkRec /\ x.st \in Games /\ x.hand \in Deals BY <1>0, Here
<1>5. msgs \in Seq(Msgs) /\ \A m \in Range(msgs) : m.op = "HAND" => m.hand = x.hand
  BY <1>4, GreetingMsgs, BoardMsgs, SentHands
<1>6. x.pc \in InSession /\ x.pc # "save_st" /\ x.pc # "load_hand" BY <1>2 DEF InSession
<1>7. Held(wk, store, x.hand)
  <2>1. x.hand = x.st.deal /\ Ready(x.st) BY <1>0, <1>2, <1>6 DEF HandsOk, TurnOk
  <2>2. store[x.sid].valid /\ Dealer(wk, x.sid, x.st.deal) BY <1>0, <1>6 DEF DealInv
  <2>3. x.sid \in Conns /\ wk[x.sid].sid = x.sid BY <1>0, <1>6, NamesHere DEF Good
  <2>4. store[x.sid].st = x.st BY <1>0, <1>6, <2>2 DEF SeenInv, Current
  <2>5. Past(x.hand, x.st) BY <2>1 DEF Past, Ready
  <2>6. \A v \in Conns : wk[v].pc \in InSession /\ wk[v].sid = x.sid => v = w
    BY <1>0, <1>6 DEF OnePerSession
  <2> QED BY <2>1, <2>2, <2>3, <2>4, <2>5, <2>6 DEF Held, Dealer
<1>8. Keeps(w) /\ (s2c'[w] = s2c[w] \/ s2c'[w] = s2c[w] \o msgs)
  BY <1>2, <1>3 DEF Sent, Moves, Keeps
<1> QED BY <1>0, <1>5, <1>6, <1>7, <1>8, AimKept

(* The game: a new log entry is a click whose hand was in view.            *)
LEMMA AimGame ==
  ASSUME AimPre, NEW w \in Conns, OneMoves(w),
         AiOnEntry(w) \/ AiTurn(w) \/ RecvPlay(w) \/ RecvEndTurn(w)
  PROVE  DealInv' /\ HeldInv' /\ LogInv'
<1> USE DEF OneMoves
<1> DEFINE sid == wk[w].sid
<1>0. /\ TInv /\ NamesInv /\ DealInv /\ HeldInv /\ LogInv
      /\ <<>> \in Seq(Msgs) /\ Range(<<>>) = {} /\ HandsOk(wk[w], store) /\ TurnOk(wk[w])
  BY EmptySeq, RangeShort DEF AimPre
<1>1. GrowsOn(w) BY <1>0, AiGrows, RecvGrows
<1>2. wk[w].pc \in {"ai_entry", "ai", "recv"} /\ s2c' = s2c /\ store' = store
  BY <1>0, GameIs DEF GoesOn
<1>3. wk[w].pc \in InSession /\ wk[w].pc # "load_hand" BY <1>2, SMTT(60) DEF InSession
<1>4. /\ wk[w].hand = wk[w].st.deal
      /\ wk[w].pc \in {"ai", "ai_entry"} => wk[w].st.turn = 1
  BY <1>0, <1>3, SMTT(60) DEF HandsOk, TurnOk
<1>5. sid \in Conns /\ wk'[w].sid = sid BY <1>0, <1>1, <1>3, Here DEF GrowsOn
<1>6. c2s[w] # <<>> /\ Head(c2s[w]).op \in Kinds => Held(wk, store, Head(c2s[w]).aim)
  <2> SUFFICES ASSUME c2s[w] # <<>>, Head(c2s[w]).op \in Kinds
               PROVE  Held(wk, store, Head(c2s[w]).aim)
    OBVIOUS
  <2>1. c2s[w] \in Seq(Reqs) BY <1>0, Here
  <2>2. Head(c2s[w]) \in Range(c2s[w]) BY <2>1, RangeTail
  <2> QED BY <1>0, <2>2 DEF HeldInv
<1>7. Aimed(wk, sid, wk[w].st.log) BY <1>0 DEF LogInv
<1>8. Aimed(wk, sid, wk'[w].st.log) BY <1>0, <1>1, <1>3, <1>4, <1>6, <1>7, AimedGrows, SMTT(60)
<1>9. store[sid].valid /\ Dealer(wk, sid, wk[w].st.deal) BY <1>0, <1>3, SMTT(60) DEF DealInv
<1>10. Dealer(wk', sid, wk'[w].st.deal)
  <2>1. CASE wk'[w].st.deal = wk[w].st.deal BY <1>5, <1>9, <2>1, SidsKeep
  <2>2. CASE wk'[w].st.deal[1] = w BY <1>5, <2>2 DEF Dealer
  <2> QED BY <1>1, <2>1, <2>2 DEF GrowsOn
<1>11. ASSUME NEW h, Held(wk, store, h), wk'[w].sid = wk[h[1]].sid PROVE Past(h, wk'[w].st)
  <2>1. Past(h, wk[w].st) BY <1>3, <1>5, <1>11 DEF Held
  <2> QED BY <1>0, <1>1, <1>4, <2>1, PastGrows
<1>12. Aimed(wk', wk'[w].sid, wk'[w].st.log) BY <1>5, <1>8, SidsKeep
<1> QED BY <1>0, <1>2, <1>5, <1>9, <1>10, <1>11, <1>12, AimWorker

(* The end of a worker.                                                    *)
LEMMA AimEof ==
  ASSUME AimPre, NEW w \in Conns, OneMoves(w), WorkerEof(w) \/ HsFull(w)
  PROVE  DealInv' /\ HeldInv' /\ LogInv'
<1> USE DEF OneMoves
<1>0. /\ TInv /\ DealInv /\ HeldInv /\ LogInv
      /\ <<>> \in Seq(Msgs) /\ Range(<<>>) = {}
  BY EmptySeq, RangeShort DEF AimPre
<1>1. s2c' = s2c /\ store' = store /\ Moves(w, "done") BY <1>0, StopIs
<1>2. Keeps(w) /\ wk'[w].pc = "done" BY <1>1 DEF Keeps, Moves
<1>3. wk'[w].pc \notin InSession BY <1>2 DEF InSession
<1> QED BY <1>0, <1>1, <1>2, <1>3, AimKept

(* The steps of the client.                                                *)
LEMMA AimClient ==
  ASSUME DealInv, HeldInv, LogInv, wk' = wk, store' = store,
         cl'.has_hand => Held(wk, store, cl'.hand),
         \A m \in Range(pipe') : Held(wk, store, m.aim),
         \A v \in Conns : \A m \in Range(c2s'[v]) :
           m \in Range(c2s[v]) \/ Held(wk, store, m.aim),
         \A v \in Conns : Range(s2c'[v]) \subseteq Range(s2c[v])
  PROVE  DealInv' /\ HeldInv' /\ LogInv'
<1>1. DealInv' /\ LogInv' BY DEF DealInv, LogInv
<1>2. ASSUME NEW v \in Conns
      PROVE  /\ \A m \in Range(c2s'[v]) : m.op \in Kinds => Held(wk, store, m.aim)
             /\ \A m \in Range(s2c'[v]) : m.op = "HAND" => Held(wk, store, m.hand)
  BY DEF HeldInv
<1>3. HeldInv' BY <1>2 DEF HeldInv
<1> QED BY <1>1, <1>3

(* Closing the connection.                                                 *)
LEMMA AimClose ==
  ASSUME TInv, DealInv, HeldInv, LogInv, NEW c \in ClientRec, cl.cur # 0, Close(c),
         UNCHANGED srvVars, c.hand = cl.hand, c.has_hand = cl.has_hand,
         pipe' = pipe \/ pipe' = <<>>
  PROVE  DealInv' /\ HeldInv' /\ LogInv'
<1>1. /\ s2c' = [s2c EXCEPT ![cl.cur] = <<>>] /\ cl'.hand = c.hand /\ cl'.has_hand = c.has_hand
  BY CloseFacts
<1>2. PICK n \in 0..Len(c2s[cl.cur]) : c2s' = [c2s EXCEPT ![cl.cur] = SubSeq(c2s[cl.cur], 1, n)]
  BY CloseFacts
<1>3. cl.cur \in Conns /\ c2s[cl.cur] \in Seq(Reqs) BY ClientHere, Here
<1>4. Range(SubSeq(c2s[cl.cur], 1, n)) \subseteq Range(c2s[cl.cur]) BY <1>3, RangePrefix
<1>5. \A v \in Conns : Range(c2s'[v]) \subseteq Range(c2s[v]) BY <1>2, <1>4 DEF TInv, Types
<1>6. \A v \in Conns : s2c'[v] = s2c[v] \/ s2c'[v] = <<>> BY <1>1 DEF TInv, Types
<1>7. \A v \in Conns : Range(s2c'[v]) \subseteq Range(s2c[v]) BY <1>6, RangeShort
<1>8. cl.has_hand => Held(wk, store, cl.hand) BY DEF HeldInv
<1>9. \A m \in Range(pipe') : Held(wk, store, m.aim) BY RangeShort DEF HeldInv
<1> QED BY <1>1, <1>5, <1>7, <1>8, <1>9, AimClient DEF srvVars

(* Connecting: the first packet is not a click.                            *)
LEMMA AimConnect ==
  ASSUME TInv, NamesInv, DealInv, HeldInv, LogInv, Connect
  PROVE  DealInv' /\ HeldInv' /\ LogInv'
<1> DEFINE w == nconn + 1
<1>1. /\ w \in Conns /\ wk' = [wk EXCEPT ![w] = [wk[w] EXCEPT !.pc = "hs"]] /\ wk[w].pc = "none"
      /\ c2s' = [c2s EXCEPT ![w] = <<Asks>>] /\ cl' = [cl EXCEPT !.cur = w]
      /\ Asks.op \notin Kinds /\ store' = store /\ s2c' = s2c /\ pipe' = pipe
  BY ConnectFacts
<1> HIDE DEF w
<1>2. Moves(w, "hs") BY <1>1, MovesFacts
<1>3. \A v \in Conns : v # w => wk'[v] = wk[v] BY <1>1 DEF TInv, Types
<1>4. \A v \in Conns : /\ wk'[v].sid = wk[v].sid /\ wk'[v].st = wk[v].st
                       /\ wk'[v].pc \in InSession => wk[v].pc \in InSession
  BY <1>2, <1>3 DEF Moves, InSession
<1>5. SidsStay BY <1>4 DEF SidsStay
<1>6. ASSUME NEW h, Held(wk, store, h) PROVE Held(wk', store', h)
  BY <1>1, <1>4, <1>6 DEF Held
<1>7. LogInv'
  <2>1. \A v \in Conns : Aimed(wk', wk[v].sid, wk[v].st.log) /\ Aimed(wk', v, store[v].st.log)
    BY <1>5, SidsKeep DEF LogInv
  <2> QED BY <1>1, <1>4, <2>1 DEF LogInv
<1>8. DealInv'
  <2>1. ASSUME NEW v \in Conns, wk'[v].pc \in InSession
        PROVE  store[wk[v].sid].valid /\ Dealer(wk', wk[v].sid, wk[v].st.deal)
    <3>1. wk[v].pc \in InSession BY <1>4, <2>1
    <3>2. store[wk[v].sid].valid /\ Dealer(wk, wk[v].sid, wk[v].st.deal) BY <3>1 DEF DealInv
    <3>3. wk[v].sid \in Conns BY <3>1, Here
    <3> QED BY <1>5, <3>2, <3>3, SidsKeep
  <2>2. ASSUME NEW s \in Conns, store[s].st.sid = s PROVE Dealer(wk', s, store[s].st.deal)
    BY <1>5, <2>2, SidsKeep DEF DealInv
  <2> QED BY <1>1, <1>4, <2>1, <2>2 DEF DealInv
<1>9. HeldInv'
  <2>1. cl'.hand = cl.hand /\ cl'.has_hand = cl.has_hand BY <1>1, ClientHere DEF ClientRec
  <2>2. ASSUME NEW v \in Conns, NEW m \in Range(c2s'[v]), m.op \in Kinds
        PROVE  Held(wk', store', m.aim)
    <3>1. c2s'[v] = c2s[v] \/ c2s'[v] = <<Asks>> BY <1>1 DEF TInv, Types
    <3>2. Range(<<Asks>>) = {Asks} BY RangeShort
    <3>3. m \in Range(c2s[v])
      <4>1. CASE c2s'[v] = c2s[v] BY <2>2, <4>1
      <4>2. CASE c2s'[v] = <<Asks>> BY <1>1, <2>2, <3>2, <4>2
      <4> QED BY <3>1, <4>1, <4>2
    <3> QED BY <1>6, <2>2, <3>3 DEF HeldInv
  <2>3. ASSUME NEW v \in Conns, NEW m \in Range(s2c'[v]), m.op = "HAND"
        PROVE  Held(wk', store', m.hand)
    BY <1>1, <1>6, <2>3 DEF HeldInv
  <2>4. /\ cl'.has_hand => Held(wk', store', cl'.hand)
        /\ \A m \in Range(pipe') : Held(wk', store', m.aim)
    BY <1>1, <1>6, <2>1 DEF HeldInv
  <2> QED BY <2>2, <2>3, <2>4 DEF HeldInv
<1> QED BY <1>7, <1>8, <1>9

(* What net_thread does: a hand on the screen, and a click, come from a    *)
(* HAND sent.                                                              *)
LEMMA AimNet ==
  ASSUME AimPre, ClientEof \/ ConnLost \/ OnResumeResp \/ OnState \/ OnHand \/ NetSend
  PROVE  DealInv' /\ HeldInv' /\ LogInv'
<1>0. TInv /\ DealInv /\ HeldInv /\ LogInv BY DEF AimPre
<1>1. /\ cl.has_hand => Held(wk, store, cl.hand)
      /\ \A m \in Range(pipe) : Held(wk, store, m.aim)
  BY <1>0 DEF HeldInv
<1>2. wk' = wk /\ store' = store /\ cl.cur # 0
  BY DEF ConnLost, ClientEof, OnResumeResp, OnState, OnHand, NetSend, Incoming, srvVars
<1>3. CASE ConnLost \/ ClientEof
  <2>1. Close(cl) /\ pipe' = pipe /\ cl \in ClientRec
    BY <1>0, <1>3, ClientHere DEF ConnLost, ClientEof
  <2> QED BY <1>0, <1>2, <2>1, AimClose DEF srvVars
<1>4. CASE OnResumeResp
  <2> DEFINE m == Head(s2c[cl.cur])
             c == [cl EXCEPT !.sid = 0]
  <2>1. s2c[cl.cur] # <<>> /\ pipe' = pipe BY <1>4 DEF OnResumeResp, Incoming
  <2>2. CASE m.ok
    <3>1. Taken /\ cl' = [cl EXCEPT !.sid = m.sid] /\ c2s' = c2s BY <1>4, <2>2 DEF OnResumeResp
    <3> HIDE DEF m
    <3>2. cl'.hand = cl.hand /\ cl'.has_hand = cl.has_hand BY <1>0, <3>1, ClientHere DEF ClientRec
    <3>3. \A v \in Conns : Range(s2c'[v]) \subseteq Range(s2c[v])
      BY <1>0, <1>2, <2>1, <3>1, TakenRange
    <3> QED BY <1>0, <1>1, <1>2, <2>1, <3>1, <3>2, <3>3, AimClient
  <2>3. CASE ~m.ok
    <3>1. Close(c) BY <1>4, <2>3 DEF OnResumeResp
    <3>2. c \in ClientRec /\ c.hand = cl.hand /\ c.has_hand = cl.has_hand
      BY <1>0, ClientHere, SessionsAssumption DEF ClientRec
    <3> HIDE DEF c
    <3> QED BY <1>0, <1>2, <2>1, <3>1, <3>2, AimClose DEF srvVars
  <2> QED BY <2>2, <2>3
<1>5. CASE OnState \/ OnHand
  <2> DEFINE m == Head(s2c[cl.cur])
  <2>1. s2c[cl.cur] # <<>> /\ pipe' = pipe /\ Taken /\ c2s' = c2s
    BY <1>5 DEF OnState, OnHand, Incoming
  <2>2. \A v \in Conns : Range(s2c'[v]) \subseteq Range(s2c[v]) BY <1>0, <1>2, <2>1, TakenRange
  <2>3. \/ cl'.hand = cl.hand /\ cl'.has_hand = cl.has_hand
        \/ cl'.hand = m.hand /\ m.op = "HAND"
    BY <1>0, <1>5, OnStateFacts, OnHandFacts DEF OnHand, Incoming
  <2>4. m.op = "HAND" => Held(wk, store, m.hand)
    <3>1. cl.cur \in Conns /\ s2c[cl.cur] \in Seq(Msgs) BY <1>0, <1>2, ClientHere, Here
    <3>2. m \in Range(s2c[cl.cur]) BY <2>1, <3>1, RangeTail
    <3> QED BY <1>0, <3>1, <3>2 DEF HeldInv
  <2> HIDE DEF m
  <2>5. cl'.has_hand => Held(wk, store, cl'.hand) BY <1>1, <2>3, <2>4
  <2> QED BY <1>0, <1>1, <1>2, <2>1, <2>2, <2>5, AimClient
<1>6. CASE NetSend
  <2> DEFINE m == Head(pipe)
  <2>1. /\ cl.cur \in Conns /\ c2s[cl.cur] \in Seq(Reqs) /\ m \in Reqs
        /\ pipe # <<>> /\ pipe \in Seq(Cmds) /\ pipe' = Tail(pipe)
        /\ c2s' = c2s \/ c2s' = [c2s EXCEPT ![cl.cur] = Append(c2s[cl.cur], m)]
        /\ cl'.hand = cl.hand /\ cl'.has_hand = cl.has_hand /\ s2c' = s2c
    BY <1>0, <1>6, NetSendFacts, SMTT(60)
  <2>2. Range(pipe') \subseteq Range(pipe) /\ m \in Range(pipe) BY <2>1, RangeTail
  <2>3. Held(wk, store, m.aim) BY <1>1, <2>2
  <2> HIDE DEF m
  <2>4. Range(Append(c2s[cl.cur], m)) \subseteq Range(c2s[cl.cur]) \union {m}
    BY <2>1, RangeAppend
  <2>5. \A v \in Conns : \A r \in Range(c2s'[v]) : r \in Range(c2s[v]) \/ r = m
    BY <1>0, <2>1, <2>4 DEF TInv, Types
  <2>6. \A v \in Conns : \A r \in Range(c2s'[v]) : r \in Range(c2s[v]) \/ Held(wk, store, r.aim)
    BY <2>3, <2>5
  <2> QED BY <1>0, <1>1, <1>2, <2>1, <2>2, <2>6, AimClient
<1> QED BY <1>3, <1>4, <1>5, <1>6

(* What the player does: a click is aimed at the hand on the screen.       *)
LEMMA AimPlayer ==
  ASSUME AimPre, \/ PressEndTurn \/ PressSelected \/ (\E sel \in BOOLEAN : PressOther(sel))
                 \/ GuiEnds \/ UNCHANGED vars
  PROVE  DealInv' /\ HeldInv' /\ LogInv'
<1>0. TInv /\ DealInv /\ HeldInv /\ LogInv BY DEF AimPre
<1>1. /\ cl.has_hand => Held(wk, store, cl.hand)
      /\ \A m \in Range(pipe) : Held(wk, store, m.aim)
  BY <1>0 DEF HeldInv
<1>2. CASE PressEndTurn \/ PressSelected
  <2>1. PICK op \in Kinds : Command(op) BY <1>2 DEF PressEndTurn, PressSelected, Kinds
  <2> DEFINE m == [op |-> op, id |-> ncmd + 1, aim |-> cl.hand]
  <2>2. /\ cl'.hand = cl.hand /\ cl'.has_hand = cl.has_hand /\ m \in Cmds
        /\ pipe' = Append(pipe, m) /\ wk' = wk /\ store' = store /\ c2s' = c2s /\ s2c' = s2c
    BY <1>0, <2>1, CommandFacts DEF srvVars, netVars
  <2>3. cl.has_hand BY <1>2 DEF PressEndTurn, PressSelected, CanClick
  <2>4. m.aim = cl.hand OBVIOUS
  <2> HIDE DEF m
  <2>5. pipe \in Seq(Cmds) BY <1>0 DEF TInv, Types
  <2>6. Range(pipe') \subseteq Range(pipe) \union {m} BY <2>2, <2>5, RangeAppend
  <2>7. \A r \in Range(pipe') : Held(wk, store, r.aim) BY <1>1, <2>3, <2>4, <2>6
  <2> QED BY <1>0, <1>1, <2>2, <2>7, AimClient
<1>3. ASSUME NEW sel \in BOOLEAN, PressOther(sel) PROVE DealInv' /\ HeldInv' /\ LogInv'
  <2>1. /\ cl' = [cl EXCEPT !.selected = sel] /\ pipe' = pipe
        /\ wk' = wk /\ store' = store /\ c2s' = c2s /\ s2c' = s2c
    BY <1>3 DEF PressOther, srvVars, netVars
  <2>2. cl'.hand = cl.hand /\ cl'.has_hand = cl.has_hand BY <1>0, <2>1, ClientHere, SMTT(60) DEF ClientRec
  <2> QED BY <1>0, <1>1, <2>1, <2>2, AimClient
<1>4. CASE GuiEnds
  <2> DEFINE c == [cl EXCEPT !.running = FALSE]
  <2>1. /\ c \in ClientRec /\ c.hand = cl.hand /\ c.has_hand = cl.has_hand /\ pipe' = <<>>
        /\ UNCHANGED srvVars
    BY <1>0, <1>4, GuiEndsFacts, SMTT(60)
  <2>2. CASE cl.cur # 0
    <3>1. Close(c) BY <1>4, <2>2 DEF GuiEnds
    <3> HIDE DEF c
    <3> QED BY <1>0, <2>1, <2>2, <3>1, AimClose
  <2>3. CASE cl.cur = 0
    <3>1. cl' = c /\ c2s' = c2s /\ s2c' = s2c BY <1>4, <2>3 DEF GuiEnds, netVars
    <3> HIDE DEF c
    <3>2. Range(pipe') = {} BY <2>1, RangeShort
    <3> QED BY <1>0, <1>1, <2>1, <3>1, <3>2, AimClient DEF srvVars
  <2> QED BY <2>2, <2>3
<1>5. CASE UNCHANGED vars
  <2>1. cl' = cl /\ pipe' = pipe /\ wk' = wk /\ store' = store /\ c2s' = c2s /\ s2c' = s2c
    BY <1>5 DEF vars
  <2> QED BY <1>0, <1>1, <2>1, AimClient
<1> QED BY <1>2, <1>3, <1>4, <1>5

(* Every step keeps AimInv.                                                *)
LEMMA AimStep ==
  ASSUME TInv, NamesInv, OnePerSession, SeenInv, HandsInv, TurnInv, AimInv, [Next]_vars
  PROVE  AimInv'
<1> SUFFICES ASSUME Undisturbed' PROVE DealInv' /\ HeldInv' /\ LogInv' BY DEF AimInv
<1>1. Undisturbed BY DisturbedStays
<1>2. AimPre BY <1>1 DEF AimPre, AimInv, HandsInv, TurnInv, Undisturbed
<1>3. ASSUME NEW w \in Conns, WorkerStep(w) \/ Kill(w) PROVE DealInv' /\ HeldInv' /\ LogInv'
  <2>1. OneMoves(w) BY <1>3, WorkerEffect, OnlyOne, SidsStep DEF OneMoves
  <2>2. ~Kill(w) BY DEF Kill, Undisturbed
  <2> QED BY <1>2, <1>3, <2>1, <2>2, AimHs, AimSave, AimSend, AimGame, AimEof DEF WorkerStep
<1>4. CASE Connect BY <1>2, <1>4, AimConnect DEF AimPre
<1>5. ~Restart
  <2>1. nrestart \in Nat /\ nrestart' = 0 BY DEF TInv, Types, Undisturbed
  <2> QED BY <2>1 DEF Restart
<1> QED BY <1>2, <1>3, <1>4, <1>5, AimNet, AimPlayer DEF Next, ClientStep

(* If undisturbed, a click plays a card of the hand it was aimed at, or    *)
(* comes after an END_TURN on that hand, or was made on another session,   *)
(* as long as no two workers are in the same session.                      *)
THEOREM AimedIfApart == Spec /\ []OnePerSession => []AimedAtSeen
<1>1. Init => AimInv
  <2> SUFFICES ASSUME Init PROVE DealInv /\ HeldInv /\ LogInv BY DEF AimInv
  <2>1. cl.has_hand = FALSE /\ pipe = <<>> BY DEF Init
  <2>2. \A w \in Conns : c2s[w] = <<>> /\ s2c[w] = <<>> BY DEF Init
  <2>3. \A w \in Conns : wk[w].pc = "none" /\ wk[w].st = NoGame BY DEF Init
  <2>4. \A s \in Conns : store[s].st = NoGame BY DEF Init
  <2>5. NoGame.sid = 0 /\ NoGame.log = <<>> /\ 0 \notin Conns BY DEF NoGame, Conns
  <2>6. DealInv BY <2>3, <2>4, <2>5 DEF DealInv, InSession
  <2>7. HeldInv BY <2>1, <2>2, RangeShort DEF HeldInv
  <2>8. LogInv BY <2>3, <2>4, <2>5, SMTT(60) DEF LogInv, Aimed
  <2> QED BY <2>6, <2>7, <2>8
<1>2. PInv /\ OnePerSession /\ TurnInv /\ LatestInv /\ AimInv /\ [Next]_vars => AimInv'
  BY AimStep, SMTT(60) DEF PInv
<1>3. AimInv => AimedAtSeen
  <2> SUFFICES ASSUME AimInv, Undisturbed, NEW w \in Conns, NEW i \in DOMAIN wk[w].st.log,
                      wk[w].st.log[i].op = "PLAY_CARD",
                      wk[w].st.log[i].aim # wk[w].st.log[i].onto
               PROVE  \/ wk[wk[w].st.log[i].aim[1]].sid # wk[w].sid
                      \/ \E j \in 1..(i - 1) : /\ wk[w].st.log[j].op = "END_TURN"
                                               /\ wk[w].st.log[j].onto = wk[w].st.log[i].aim
    BY DEF AimedAtSeen
  <2>1. AimedEntry(wk, wk[w].sid, wk[w].st.log, i) BY DEF AimInv, LogInv, Aimed
  <2> QED BY <2>1, SMTT(60) DEF AimedEntry
<1> QED BY <1>1, <1>2, <1>3, TurnsInvariance, PTL DEF Spec
=============================================================================
