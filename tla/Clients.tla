------------------------------ MODULE Clients ------------------------------
(***************************************************************************)
(* The client program of src/src/client.c: the benchmark's threads and     *)
(* their result, or the terminal client of src/src/client_app.c, each on a *)
(* connection of its own.  Neither numbers its requests: they match        *)
(* replies to requests by counting STATE and HAND packets.                 *)
(*                                                                         *)
(* The worker of a connection is run_session reduced to the packets it     *)
(* sends; Sessions.tla and Game.tla have its inside.                       *)
(***************************************************************************)
EXTENDS Integers, Sequences, FiniteSets

CONSTANTS
  Threads,    \* threads of the benchmark
  Rounds,     \* rounds of each thread
  MaxKeys     \* bound: commands typed into the terminal client

ASSUME ClientsAssumption == Threads \in Nat \ {0} /\ Rounds \in Nat /\ MaxKeys \in Nat

VARIABLES
  proc,       \* the process: "bench", "app", "killed" or "exited"
  th,         \* thread -> [pc, round, seen_state, seen_hand, st, hand, lat, nsent, missed]
  srv,        \* thread -> the worker it talks to: [alive, silent, n, over]
  c2s, s2c,   \* packets in flight on each connection
  report      \* what the benchmark prints

vars == <<proc, th, srv, c2s, s2c, report>>

(* The terminal client runs in thread 0.                                   *)
Ids == 0..(Threads - 1)

(* A packet of the server: n is the number of the request it answers (0 is *)
(* the login).                                                             *)
Pkt(op, n, over) == [op |-> op, n |-> n, over |-> over]
NoPkt == Pkt("NONE", 0, FALSE)
NoReport == [ok |-> -1, fail |-> -1]

(* lats is calloc()ed: 0 is no result, -1 a failure, 1 a sum of latencies. *)
Init ==
  /\ proc \in {"bench", "app"}
  /\ th = [t \in Ids |-> [pc |-> "connect", round |-> 0, seen_state |-> FALSE, seen_hand |-> FALSE,
                          st |-> NoPkt, hand |-> NoPkt, lat |-> 0, nsent |-> 0, missed |-> FALSE]]
  /\ srv = [t \in Ids |-> [alive |-> FALSE, silent |-> FALSE, n |-> 0, over |-> FALSE]]
  /\ c2s = [t \in Ids |-> <<>>]
  /\ s2c = [t \in Ids |-> <<>>]
  /\ report = NoReport
-----------------------------------------------------------------------------
(* run_session: LOGIN_REQ is answered with four packets, or refused.       *)
SrvLogin(t) ==
  /\ srv[t].alive /\ c2s[t] # <<>> /\ Head(c2s[t]) = "LOGIN_REQ"
  /\ c2s' = [c2s EXCEPT ![t] = Tail(@)]
  /\ \/ /\ s2c' = [s2c EXCEPT ![t] = << Pkt("LOGIN_RESP", 0, FALSE), Pkt("RESUME_RESP", 0, FALSE),
                                        Pkt("STATE", 0, FALSE), Pkt("HAND", 0, FALSE) >>]
        /\ UNCHANGED srv
     \/ /\ s2c' = [s2c EXCEPT ![t] = << Pkt("ERROR", 0, FALSE) >>]
        /\ srv' = [srv EXCEPT ![t].alive = FALSE]
  /\ UNCHANGED <<proc, th, report>>

Request(t) == srv[t].alive /\ c2s[t] # <<>> /\ Head(c2s[t]) \in {"PLAY_CARD", "END_TURN"}

Board(n, over) == << Pkt("STATE", n, over), Pkt("HAND", n, over) >>

\* mutant: a refused request is not answered with the board
SrvRequestQuiet(t) ==
  LET n == srv[t].n + 1 IN
  /\ Request(t)
  /\ c2s' = [c2s EXCEPT ![t] = Tail(@)]
  /\ \/ /\ s2c' = [s2c EXCEPT ![t] = Append(@, Pkt("ERROR", n, srv[t].over))]
        /\ srv' = [srv EXCEPT ![t].n = n]
     \/ \E over \in {srv[t].over, TRUE} :
          /\ s2c' = [s2c EXCEPT ![t] = @ \o Board(n, over)]
          /\ srv' = [srv EXCEPT ![t].n = n, ![t].over = over]
  /\ UNCHANGED <<proc, th, report>>

(* A request is executed, perhaps to the end of the game, or refused: the  *)
(* reply is a board either way.                                            *)
SrvRequest(t) ==
  LET n == srv[t].n + 1 IN
  /\ Request(t)
  /\ c2s' = [c2s EXCEPT ![t] = Tail(@)]
  /\ \/ /\ s2c' = [s2c EXCEPT ![t] = Append(@, Pkt("ERROR", n, FALSE)) \o Board(n, FALSE)]
        /\ ~srv[t].over
        /\ srv' = [srv EXCEPT ![t].n = n]
     \/ \E over \in {srv[t].over, TRUE} :
          /\ s2c' = [s2c EXCEPT ![t] = @ \o Board(n, over)]
          /\ srv' = [srv EXCEPT ![t].n = n, ![t].over = over]
  /\ UNCHANGED <<proc, th, report>>

(* The worker dies, or the connection is lost with what is in flight: any  *)
(* suffix of the packets, of a reply too.  The client's end of the         *)
(* connection is told (a FIN or an RST), or it hears nothing any more.     *)
SrvGone(t) ==
  /\ srv[t].alive
  /\ \E silent \in BOOLEAN : srv' = [srv EXCEPT ![t].alive = FALSE, ![t].silent = silent]
  /\ \E k \in 0..Len(s2c[t]) : s2c' = [s2c EXCEPT ![t] = SubSeq(@, 1, k)]
  /\ c2s' = [c2s EXCEPT ![t] = <<>>]
  /\ UNCHANGED <<proc, th, report>>

(* The host of a silent worker is back and resets the connection, or TCP   *)
(* gives up on unacknowledged packets.  Nothing says that it ever happens. *)
SrvReset(t) ==
  /\ srv[t].silent
  /\ srv' = [srv EXCEPT ![t].silent = FALSE]
  /\ UNCHANGED <<proc, th, c2s, s2c, report>>
-----------------------------------------------------------------------------
(* proto_recv: the next packet, or -1 at the end of the connection.  With  *)
(* a silent peer it is neither: conn_readn goes on with SSL_read after     *)
(* every timeout (conn_timeout, Conn.tla).                                 *)
Received(t) == s2c[t] # <<>>
RecvFails(t) == s2c[t] = <<>> /\ ~srv[t].alive /\ ~srv[t].silent
Taken(t) == s2c' = [s2c EXCEPT ![t] = Tail(@)]

(* The thread x has read the packet m while it waits for a board.          *)
Noted(x, m) ==
  [x EXCEPT !.seen_state = @ \/ m.op = "STATE", !.seen_hand = @ \/ m.op = "HAND",
            !.st   = IF m.op = "STATE" THEN m ELSE @,
            !.hand = IF m.op = "HAND" THEN m ELSE @]

(* proto_send, with the thread as it is after success or failure.  If the  *)
(* worker is gone the packet is lost; if the connection is known to have   *)
(* ended, proto_send may fail, or SIGPIPE ends the whole process.          *)
Send(t, op, sent, failed) ==
  \/ /\ srv[t].alive
     /\ c2s' = [c2s EXCEPT ![t] = Append(@, op)]
     /\ th' = [th EXCEPT ![t] = [sent EXCEPT !.nsent = @ + 1]]
     /\ UNCHANGED proc
  \/ /\ ~srv[t].alive
     /\ \/ th' = [th EXCEPT ![t] = [sent EXCEPT !.nsent = @ + 1]]
        \/ ~srv[t].silent /\ th' = [th EXCEPT ![t] = failed]
     /\ UNCHANGED <<proc, c2s>>
  \/ /\ ~srv[t].alive /\ ~srv[t].silent
     /\ proc' = "killed"
     /\ UNCHANGED <<th, c2s>>

(* tcp_connect and SSL_connect; then the login is sent.                    *)
Connected(t, next) ==
  /\ srv' = [srv EXCEPT ![t].alive = TRUE]
  /\ c2s' = [c2s EXCEPT ![t] = <<"LOGIN_REQ">>]
  /\ th' = [th EXCEPT ![t].pc = next]

Failed(x) == [x EXCEPT !.pc = "ended", !.lat = -1]
Done(x)   == [x EXCEPT !.pc = "ended", !.lat = 1]

\* mutant: a failed connection leaves no result
BenchConnectSilent(t) ==
  /\ proc = "bench" /\ th[t].pc = "connect"
  /\ \/ Connected(t, "login")
     \/ th' = [th EXCEPT ![t].pc = "ended"] /\ UNCHANGED <<srv, c2s>>
  /\ UNCHANGED <<proc, s2c, report>>

BenchConnect(t) ==
  /\ proc = "bench" /\ th[t].pc = "connect"
  /\ \/ Connected(t, "login")
     \/ th' = [th EXCEPT ![t] = Failed(@)] /\ UNCHANGED <<srv, c2s>>
  /\ UNCHANGED <<proc, s2c, report>>

(* The top of the loop over the rounds.                                    *)
NextRound(x) == IF x.round = Rounds THEN Done(x) ELSE [x EXCEPT !.pc = "play"]

\* mutant: the packet after LOGIN_RESP is taken for the board
BenchLoginShort(t) ==
  /\ proc = "bench" /\ th[t].pc = "login"
  /\ \/ /\ Received(t) /\ Taken(t)
        /\ th' = [th EXCEPT ![t] = IF Head(s2c[t]).op = "RESUME_RESP" THEN NextRound(@) ELSE @]
     \/ RecvFails(t) /\ th' = [th EXCEPT ![t] = Failed(@)] /\ UNCHANGED s2c
  /\ UNCHANGED <<proc, srv, c2s, report>>

(* After the login: packets are read up to the first STATE.  The HAND that *)
(* follows it stays unread.                                                *)
BenchLogin(t) ==
  /\ proc = "bench" /\ th[t].pc = "login"
  /\ \/ /\ Received(t) /\ Taken(t)
        /\ LET m == Head(s2c[t]) IN
             th' = [th EXCEPT ![t] = IF m.op = "STATE" THEN NextRound([@ EXCEPT !.st = m]) ELSE @]
     \/ RecvFails(t) /\ th' = [th EXCEPT ![t] = Failed(@)] /\ UNCHANGED s2c
  /\ UNCHANGED <<proc, srv, c2s, report>>

(* A round sends PLAY_CARD, waits, sends END_TURN and waits.  A proto_send *)
(* that fails leaves the loop over the rounds, with the sum so far.        *)
BenchSend(t) ==
  LET next == [th[t] EXCEPT !.pc = IF @ = "play" THEN "wait_play" ELSE "wait_end",
                            !.seen_state = FALSE, !.seen_hand = FALSE]
  IN /\ proc = "bench" /\ th[t].pc \in {"play", "end"}
     /\ Send(t, IF th[t].pc = "play" THEN "PLAY_CARD" ELSE "END_TURN",
             next, Done([th[t] EXCEPT !.missed = TRUE]))
     /\ UNCHANGED <<srv, s2c, report>>

(* After a wait: on to END_TURN, or to the next round.                     *)
WaitOver(x) ==
  IF x.pc = "wait_play" THEN [x EXCEPT !.pc = "end"] ELSE NextRound([x EXCEPT !.round = @ + 1])

Waiting(t) == proc = "bench" /\ th[t].pc \in {"wait_play", "wait_end"}

(* while (!seen_state || !seen_hand): thread 0 also looks at game_over.    *)
BenchWait(t) ==
  LET m == Head(s2c[t])
      x == Noted(th[t], m)
  IN /\ Waiting(t) /\ Received(t)
     /\ Taken(t)
     /\ th' = [th EXCEPT ![t] = CASE m.op = "STATE" /\ m.over /\ t = 0 -> Done(x)
                                  [] x.seen_state /\ x.seen_hand       -> WaitOver(x)
                                  [] OTHER                             -> x]
     /\ UNCHANGED <<proc, srv, c2s, report>>

(* A proto_recv that fails leaves the waiting loop only.                   *)
BenchWaitFails(t) ==
  /\ Waiting(t) /\ RecvFails(t)
  /\ th' = [th EXCEPT ![t] = WaitOver([@ EXCEPT !.missed = TRUE])]
  /\ UNCHANGED <<proc, srv, c2s, s2c, report>>

(* main joins the threads and counts the positive results as ok.           *)
Report ==
  /\ proc = "bench"
  /\ \A t \in Ids : th[t].pc = "ended"
  /\ LET ok == Cardinality({t \in Ids : th[t].lat > 0}) IN
       report' = [ok |-> ok, fail |-> Threads - ok]
  /\ proc' = "exited"
  /\ UNCHANGED <<th, srv, c2s, s2c>>
-----------------------------------------------------------------------------
Expect(x) == [x EXCEPT !.pc = "recv_until", !.seen_state = FALSE, !.seen_hand = FALSE]
Quit(x)   == [x EXCEPT !.pc = "ended"]

(* run_app_mode: connect and log in.                                       *)
AppConnect ==
  /\ proc = "app" /\ th[0].pc = "connect"
  /\ \/ Connected(0, "recv_until")
     \/ th' = [th EXCEPT ![0] = Quit(@)] /\ UNCHANGED <<srv, c2s>>
  /\ UNCHANGED <<proc, s2c, report>>

\* mutant: the first STATE ends the loop
RecvUntilState ==
  LET x == Noted(th[0], Head(s2c[0])) IN
  /\ proc = "app" /\ th[0].pc = "recv_until"
  /\ Received(0) /\ Taken(0)
  /\ th' = [th EXCEPT ![0] = IF x.seen_state THEN [x EXCEPT !.pc = "getch"] ELSE x]
  /\ UNCHANGED <<proc, srv, c2s, report>>

(* recv_until: both a STATE and a HAND, anything else is skipped.          *)
RecvUntil ==
  LET x == Noted(th[0], Head(s2c[0])) IN
  /\ proc = "app" /\ th[0].pc = "recv_until"
  /\ Received(0) /\ Taken(0)
  /\ th' = [th EXCEPT ![0] = IF x.seen_state /\ x.seen_hand THEN [x EXCEPT !.pc = "getch"]
                                                            ELSE x]
  /\ UNCHANGED <<proc, srv, c2s, report>>

RecvUntilFails ==
  /\ proc = "app" /\ th[0].pc = "recv_until"
  /\ RecvFails(0)
  /\ th' = [th EXCEPT ![0] = Quit(@)]
  /\ UNCHANGED <<proc, srv, c2s, s2c, report>>

(* The loop of run_app_mode: a card or E while the game runs, Q always.    *)
KeyCommand ==
  /\ proc = "app" /\ th[0].pc = "getch" /\ ~th[0].st.over
  /\ th[0].nsent < MaxKeys
  /\ \E op \in {"PLAY_CARD", "END_TURN"} : Send(0, op, Expect(th[0]), Quit(th[0]))
  /\ UNCHANGED <<srv, s2c, report>>

KeyQuit ==
  /\ proc = "app" /\ th[0].pc = "getch"
  /\ th' = [th EXCEPT ![0] = Quit(@)]
  /\ UNCHANGED <<proc, srv, c2s, s2c, report>>
-----------------------------------------------------------------------------
SrvStep(t)   == SrvLogin(t) \/ SrvRequest(t)
BenchStep(t) ==
  BenchConnect(t) \/ BenchLogin(t) \/ BenchSend(t) \/ BenchWait(t) \/ BenchWaitFails(t)

Next ==
  \/ \E t \in Ids : SrvStep(t) \/ SrvGone(t) \/ SrvReset(t) \/ BenchStep(t)
  \/ Report
  \/ AppConnect \/ RecvUntil \/ RecvUntilFails \/ KeyCommand \/ KeyQuit

(* Threads and workers are scheduled, and a worker answers what it has     *)
(* received (BoardAlwaysSent of Game.tla); nobody has to press a key.      *)
Fairness ==
  /\ \A t \in Ids : WF_vars(SrvStep(t)) /\ WF_vars(BenchStep(t))
  /\ WF_vars(Report)

Spec     == Init /\ [][Next]_vars
FairSpec == Spec /\ Fairness
-----------------------------------------------------------------------------
TypeOK ==
  /\ proc \in {"bench", "app", "killed", "exited"}
  /\ \A t \in Ids : /\ th[t].round \in 0..Rounds /\ th[t].lat \in {-1, 0, 1}
                    /\ th[t].nsent \in 0..srv[t].n + Len(c2s[t]) \/ ~srv[t].alive
                    /\ proc \in {"bench", "exited"} /\ th[t].pc = "ended" => th[t].lat # 0
  /\ report = NoReport \/ report.ok + report.fail = Threads

(* When the terminal client waits for a key it shows the reply to its last *)
(* command, board and hand, and nothing is left unread: replies, refusals  *)
(* and the login's packets are never mistaken for each other.              *)
AppInStep ==
  proc = "app" /\ th[0].pc = "getch" =>
    /\ th[0].st.n = th[0].nsent /\ th[0].hand.n = th[0].nsent
    /\ s2c[0] = <<>>

(* Before each request of the benchmark whose replies have all come, the   *)
(* last STATE it has read answers its last request, and the one packet not *)
(* read yet is the HAND of that reply: the latency it adds up is the one   *)
(* of its own request, although it is always a HAND behind.                *)
BenchInStep ==
  \A t \in Ids : th[t].pc \in {"play", "end"} /\ ~th[t].missed =>
    /\ th[t].st.n = th[t].nsent
    /\ Len(s2c[t]) <= 1
    /\ \A i \in DOMAIN s2c[t] : s2c[t][i].op = "HAND" /\ s2c[t][i].n = th[t].nsent

(* In proto_recv on a connection that has gone silent, for as long as it   *)
(* stays so.                                                               *)
Blocked(t) ==
  th[t].pc \in {"login", "wait_play", "wait_end"} /\ srv[t].silent /\ ~Received(t)

(* Every thread of the benchmark ends, whatever replies, refusals and lost *)
(* connections the threads meet, and main then joins them and reports; two *)
(* things only are in the way.  A silent peer blocks its own thread, and   *)
(* with it the report, but no other thread; and one SIGPIPE ends them all  *)
(* without a report.                                                       *)
ThreadsJoined ==
  /\ \A t \in Ids :
       proc = "bench" ~> th[t].pc = "ended" \/ Blocked(t) \/ proc = "killed"
  /\ proc = "bench" ~> report # NoReport \/ (\E t \in Ids : Blocked(t)) \/ proc = "killed"

(* "ok" is the number of client sessions that were completed: every        *)
(* request answered, to the last round or the end of the game.             *)
OkMeansCompleted ==
  proc = "exited" => report.ok = Cardinality({t \in Ids : th[t].lat > 0 /\ ~th[t].missed})

=============================================================================
