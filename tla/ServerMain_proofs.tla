-------------------------- MODULE ServerMain_proofs --------------------------
(***************************************************************************)
(* Proofs about ServerMain: for any number of servers, connections,        *)
(* packets and signals.  The inductive invariant IInv has five parts: the  *)
(* types, what main knows at each point of its code, the stop flag against *)
(* the connections accepted after it, ended workers against the pending    *)
(* signal, and, for servers that run one after the other, who owns the two *)
(* named segments.                                                         *)
(***************************************************************************)
EXTENDS ServerMain, FiniteSetTheorems, TLAPS

Serving  == {"test", "accept", "fork", "forked", "close"}
Stopping == {"unlink_stats", "unlink_store"}
Dead     == {"exited", "failed", "killed"}
MainPcs  == {"off", "ssl", "stats", "store", "listen"} \union Serving \union Stopping \union Dead
WorkPcs  == {"none", "child", "tls", "count", "login", "recv", "pkt", "zombie", "gone"}

Segs    == [stats : 0..MaxServers, store : 0..MaxServers]
MainRec == [pc : MainPcs, g_stop : BOOLEAN, handlers : SUBSET {"SIGINT", "SIGTERM", "SIGCHLD"},
            pending : BOOLEAN, fds : SUBSET Sockets, cfd : 0..MaxConns, segs : Segs]
WorkRec == [pc : WorkPcs, server : 0..MaxServers, fds : SUBSET Sockets, segs : Segs]
HistRec == [arrived : 0..MaxConns, tls : SUBSET Conns, recvd : [Conns -> Nat],
            caught : SUBSET Servers, late : [Servers -> Nat],
            missed : SUBSET Conns, orderly : BOOLEAN]

(* The types of all variables, functions and records included.             *)
Types ==
  /\ main \in [Servers -> MainRec]
  /\ wk \in [Conns -> WorkRec]
  /\ backlog \in [Servers -> Seq(Conns)]
  /\ names \in Segs
  /\ stats \in [Servers -> Counters]
  /\ sessions \in [Servers -> SUBSET Conns]
  /\ mon \in 0..MaxServers
  /\ hist \in HistRec

(* What holds at each point of main, and in a worker: a process has open   *)
(* descriptors only while it serves, a connection while it forks, and      *)
(* mapped segments once it has initialised them.                           *)
MainInv ==
  \A s \in Servers :
    /\ main[s].pc \notin Serving => main[s].fds = {}
    /\ main[s].pending => Alive(s)
    /\ main[s].pc \in {"fork", "forked"} => main[s].cfd # 0
    /\ main[s].pc \in {"store", "listen"} \union Serving => main[s].segs.stats # 0
    /\ main[s].pc \in {"listen"} \union Serving => main[s].segs.store # 0

WorkerInv ==
  \A c \in Conns : wk[c].pc # "none" =>
    wk[c].server # 0 /\ wk[c].segs.stats # 0 /\ wk[c].segs.store # 0

(* A connection accepted after on_sigint leaves main outside accept().     *)
StopInv ==
  \A s \in Servers :
    /\ hist.late[s] <= 1
    /\ hist.late[s] # 0 => main[s].g_stop /\ main[s].pc # "accept"

(* With servers that run one after the other: the previous ones have       *)
(* returned from main, a name belongs to the server that has initialised   *)
(* its segment and not unlinked it yet, and nobody maps the segment of     *)
(* another server.                                                         *)
HasStats == {"store", "listen", "unlink_stats"} \union Serving
HasStore == {"listen"} \union Serving \union Stopping

OrderInv ==
  hist.orderly =>
    /\ \A s \in Servers : \A r \in 1..(s - 1) : main[s].pc # "off" => main[r].pc = "exited"
    /\ \A s \in Servers :
         /\ main[s].pc \in HasStats => main[s].segs.stats = s /\ names.stats = s
         /\ main[s].pc \in HasStore => main[s].segs.store = s /\ names.store = s
         /\ names.stats = s => main[s].pc \in HasStats \union {"failed", "killed"}
         /\ names.store = s => main[s].pc \in HasStore \union {"failed", "killed"}
    /\ \A c \in Conns : wk[c].pc # "none" =>
         /\ wk[c].segs.stats = wk[c].server /\ wk[c].segs.store = wk[c].server
         /\ main[wk[c].server].pc \notin {"off", "ssl", "stats", "store"}

(* SessionsKept also between two packets, where it is not enough by itself.*)
KeptInv ==
  hist.orderly =>
    \A c \in Conns : wk[c].pc \in {"recv", "pkt"} => c \in sessions[wk[c].segs.store]

IInv == Types /\ MainInv /\ WorkerInv /\ StopInv /\ OrderInv /\ Reaped /\ KeptInv
-----------------------------------------------------------------------------
(* A record of two mapped segments is also a function on the two parts.    *)
LEMMA SegsAreFunctions == ASSUME NEW x \in Segs PROVE x \in [Parts -> 0..MaxServers]
  BY DEF Segs, Parts

(* Workers as a step of a main process may leave them: reaped or untouched.*)
Reaping ==
  /\ wk' \in [Conns -> WorkRec]
  /\ \A c \in Conns :
       /\ wk'[c].server = wk[c].server /\ wk'[c].segs = wk[c].segs
       /\ wk'[c].pc = wk[c].pc \/ (wk[c].pc = "zombie" /\ wk'[c].pc = "gone")

(* What main knows at the program point it is at, for one record m.        *)
Knows(m) ==
  /\ m.pc \notin Serving => m.fds = {}
  /\ m.pending => m.pc \notin {"off"} \union Dead
  /\ m.pc \in {"fork", "forked"} => m.cfd # 0
  /\ m.pc \in {"store", "listen"} \union Serving => m.segs.stats # 0
  /\ m.pc \in {"listen"} \union Serving => m.segs.store # 0

(* A step of one main process that keeps the parts other than the stop     *)
(* flag, the order of the servers and the sessions.                        *)
LEMMA MainMoves ==
  ASSUME IInv, NEW s \in Servers, NEW m \in MainRec, main' = [main EXCEPT ![s] = m],
         Knows(m), Reaping,
         \A c \in Conns : wk'[c].pc = "zombie" /\ wk[c].server = s => m.pending \/ c \in hist.missed,
         backlog' \in [Servers -> Seq(Conns)], names' \in Segs,
         stats' \in [Servers -> Counters], sessions' \in [Servers -> SUBSET Conns],
         mon' \in 0..MaxServers, hist' \in HistRec, hist'.missed = hist.missed
  PROVE  Types' /\ MainInv' /\ WorkerInv' /\ Reaped'
<1>1. /\ \A r \in Servers : r # s => main'[r] = main[r]
      /\ main'[s] = m
      /\ main' \in [Servers -> MainRec]
  BY DEF IInv, Types
<1>2. Types' BY <1>1 DEF Types, Reaping
<1>3. MainInv' BY <1>1 DEF IInv, MainInv, Knows, Alive, Dead
<1>4. WorkerInv' BY ZenonT(60) DEF IInv, WorkerInv, Reaping
<1>5. Reaped'
  <2> SUFFICES ASSUME NEW c \in Conns, In(c, "zombie")'
               PROVE  main'[wk'[c].server].pending \/ c \in hist'.missed
    BY DEF Reaped
  <2>1. wk[c].pc = "zombie" /\ wk'[c].pc = "zombie" /\ wk'[c].server = wk[c].server
    BY DEF In, Reaping
  <2>2. wk[c].server \in Servers
    BY <2>1 DEF IInv, WorkerInv, Types, WorkRec, Servers
  <2>3. main[wk[c].server].pending \/ c \in hist.missed BY <2>1 DEF IInv, Reaped, In
  <2> QED BY <1>1, <2>1, <2>2, <2>3
<1> QED BY <1>2, <1>3, <1>4, <1>5

(* A step of one main process that keeps its segments, the names and the   *)
(* order of the servers.                                                   *)
LEMMA OrderMoves ==
  ASSUME IInv, NEW s \in Servers, NEW m \in MainRec, main' = [main EXCEPT ![s] = m],
         Reaping, names' = names, hist'.orderly = hist.orderly, sessions' = sessions,
         m.segs = main[s].segs, main[s].pc \notin {"off"} \union Dead, m.pc \notin {"off", "exited"},
         m.pc \in {"ssl", "stats", "store"} => main[s].pc \in {"ssl", "stats", "store"},
         \/ /\ m.pc \in HasStats <=> main[s].pc \in HasStats
            /\ m.pc \in HasStore <=> main[s].pc \in HasStore
         \/ m.pc \in {"failed", "killed"}
  PROVE  OrderInv' /\ KeptInv'
<1>1. /\ \A r \in Servers : r # s => main'[r] = main[r]
      /\ main'[s] = m
  BY DEF IInv, Types
<1>2. ASSUME hist.orderly
      PROVE  /\ \A u \in Servers : \A r \in 1..(u - 1) : main'[u].pc # "off" => main'[r].pc = "exited"
             /\ \A u \in Servers :
                  /\ main'[u].pc \in HasStats => main'[u].segs.stats = u /\ names.stats = u
                  /\ main'[u].pc \in HasStore => main'[u].segs.store = u /\ names.store = u
                  /\ names.stats = u => main'[u].pc \in HasStats \union {"failed", "killed"}
                  /\ names.store = u => main'[u].pc \in HasStore \union {"failed", "killed"}
  <2>1. \A u \in Servers : \A r \in 1..(u - 1) : main'[u].pc # "off" => main'[r].pc = "exited"
    <3> TAKE u \in Servers
    <3> TAKE r \in 1..(u - 1)
    <3> r \in Servers BY ServerAssumption DEF Servers
    <3> QED BY <1>1, <1>2 DEF IInv, OrderInv, Dead
  <2>2. m.pc \in {"failed", "killed"} => m.pc \notin HasStats /\ m.pc \notin HasStore
    BY DEF HasStats, HasStore, Serving, Stopping
  <2>3. ASSUME NEW u \in Servers
        PROVE  /\ main'[u].pc \in HasStats => main'[u].segs.stats = u /\ names.stats = u
               /\ main'[u].pc \in HasStore => main'[u].segs.store = u /\ names.store = u
               /\ names.stats = u => main'[u].pc \in HasStats \union {"failed", "killed"}
               /\ names.store = u => main'[u].pc \in HasStore \union {"failed", "killed"}
    <3>1. CASE u # s BY <1>1, <1>2, <3>1 DEF IInv, OrderInv
    <3>2. CASE u = s BY <1>1, <1>2, <2>2, <3>2 DEF IInv, OrderInv, Dead
    <3> QED BY <3>1, <3>2
  <2> QED BY <2>1, <2>3
<1>3. ASSUME hist.orderly, NEW c \in Conns, wk'[c].pc # "none"
      PROVE  /\ wk'[c].segs.stats = wk'[c].server /\ wk'[c].segs.store = wk'[c].server
             /\ main'[wk'[c].server].pc \notin {"off", "ssl", "stats", "store"}
  <2>1. wk[c].pc # "none" /\ wk'[c].server = wk[c].server /\ wk'[c].segs = wk[c].segs
    BY <1>3 DEF Reaping
  <2>2. wk[c].server \in Servers
    BY <2>1 DEF IInv, WorkerInv, Types, WorkRec, Servers
  <2> QED BY <1>1, <1>3, <2>1, <2>2 DEF IInv, OrderInv
<1>4. OrderInv' BY <1>2, <1>3 DEF OrderInv
<1>5. KeptInv' BY DEF IInv, KeptInv, In, Reaping
<1> QED BY <1>4, <1>5

(* A step that changes one main process and, possibly, reaps its workers.  *)
LEMMA QuietMoves ==
  ASSUME IInv, NEW s \in Servers, NEW m \in MainRec, main' = [main EXCEPT ![s] = m],
         Knows(m), Reaping,
         \A c \in Conns : wk'[c].pc = "zombie" /\ wk[c].server = s => m.pending \/ c \in hist.missed,
         UNCHANGED <<backlog, names, stats, sessions, mon>>,
         hist' \in HistRec, hist'.missed = hist.missed, hist'.late = hist.late,
         hist'.orderly = hist.orderly,
         main[s].g_stop => m.g_stop, m.pc = "accept" => main[s].pc = "accept" \/ ~m.g_stop,
         m.segs = main[s].segs, main[s].pc \notin {"off"} \union Dead, m.pc \notin {"off", "exited"},
         m.pc \in {"ssl", "stats", "store"} => main[s].pc \in {"ssl", "stats", "store"},
         \/ /\ m.pc \in HasStats <=> main[s].pc \in HasStats
            /\ m.pc \in HasStore <=> main[s].pc \in HasStore
         \/ m.pc \in {"failed", "killed"}
  PROVE  IInv'
<1>1. Types' /\ MainInv' /\ WorkerInv' /\ Reaped' BY MainMoves DEF IInv, Types
<1>2. OrderInv' /\ KeptInv' BY OrderMoves
<1>3. StopInv'
  <2>1. main'[s] = m /\ \A r \in Servers : r # s => main'[r] = main[r] BY DEF IInv, Types
  <2> QED BY <2>1 DEF IInv, StopInv
<1> QED BY <1>1, <1>2, <1>3 DEF IInv

(* Reaping the ended workers of one main process.                          *)
LEMMA ReapingOf ==
  ASSUME IInv, NEW s \in Servers,
         wk' = [c \in Conns |-> IF wk[c].pc = "zombie" /\ wk[c].server = s
                                  THEN [wk[c] EXCEPT !.pc = "gone"] ELSE wk[c]]
  PROVE  Reaping /\ \A c \in Conns : wk'[c].pc = "zombie" => wk[c].server # s
<1>1. ASSUME NEW c \in Conns
      PROVE  /\ wk'[c] \in WorkRec
             /\ wk'[c].server = wk[c].server /\ wk'[c].segs = wk[c].segs
             /\ wk'[c].pc = wk[c].pc \/ (wk[c].pc = "zombie" /\ wk'[c].pc = "gone")
             /\ wk'[c].pc = "zombie" => wk[c].server # s
  <2>1. wk[c] \in WorkRec BY DEF IInv, Types
  <2>2. CASE wk[c].pc = "zombie" /\ wk[c].server = s
    <3>1. wk'[c] = [wk[c] EXCEPT !.pc = "gone"] BY <2>2
    <3> QED BY <2>1, <2>2, <3>1 DEF WorkRec, WorkPcs
  <2>3. CASE ~(wk[c].pc = "zombie" /\ wk[c].server = s)
    <3>1. wk'[c] = wk[c] BY <2>3
    <3> QED BY <2>1, <2>3, <3>1
  <2> QED BY <2>2, <2>3
<1>2. wk' \in [Conns -> WorkRec] BY <1>1
<1> QED BY <1>1, <1>2 DEF Reaping

(* A main process that ends takes its own ended workers with it.           *)
LEMMA ExitMoves ==
  ASSUME IInv, NEW s \in Servers, NEW pc \in Dead, Exit(s, pc)
  PROVE  \E m \in MainRec :
           /\ main' = [main EXCEPT ![s] = m]
           /\ m.pc = pc /\ m.segs = main[s].segs /\ m.g_stop = main[s].g_stop
           /\ Knows(m) /\ Reaping
           /\ \A c \in Conns : wk'[c].pc = "zombie" => wk[c].server # s
<1> DEFINE m == [main[s] EXCEPT !.pc = pc, !.fds = {}, !.cfd = 0, !.pending = FALSE]
<1>1. main[s] \in MainRec BY DEF IInv, Types
<1>2. m \in MainRec
  <2>1. 0 \in 0..MaxConns /\ pc \in MainPcs BY ServerAssumption DEF MainPcs
  <2> QED BY <1>1, <2>1 DEF MainRec
<1>3. /\ main' = [main EXCEPT ![s] = m] /\ m.pc = pc /\ m.fds = {}
      /\ m.segs = main[s].segs /\ m.g_stop = main[s].g_stop /\ ~m.pending
  BY <1>1 DEF MainRec, Exit
<1>4. Knows(m) BY <1>3 DEF Knows, Dead, Serving
<1>5. Reaping /\ \A c \in Conns : wk'[c].pc = "zombie" => wk[c].server # s
  <2>1. wk' = [c \in Conns |-> IF wk[c].pc = "zombie" /\ wk[c].server = s
                                 THEN [wk[c] EXCEPT !.pc = "gone"] ELSE wk[c]]
    BY DEF Exit
  <2> QED BY <2>1, ReapingOf
<1> HIDE DEF m
<1> QED BY <1>2, <1>3, <1>4, <1>5

(* The ends that leave the names of the segments behind.                   *)
LEMMA ExitInv ==
  ASSUME IInv, NEW s \in Servers, NEW pc \in {"failed", "killed"}, Exit(s, pc), Alive(s),
         UNCHANGED <<backlog, shmVars, mon, hist>>
  PROVE  IInv'
<1>1. PICK m \in MainRec :
        /\ main' = [main EXCEPT ![s] = m]
        /\ m.pc = pc /\ m.segs = main[s].segs /\ m.g_stop = main[s].g_stop
        /\ Knows(m) /\ Reaping
        /\ \A c \in Conns : wk'[c].pc = "zombie" => wk[c].server # s
  BY ExitMoves DEF Dead
<1>2. hist \in HistRec BY DEF IInv, Types
<1> QED BY <1>1, <1>2, QuietMoves DEF Alive, Dead, shmVars

(* Start keeps IInv: the history flag orderly falls unless every earlier   *)
(* server has returned from main.                                          *)
LEMMA StartInv == ASSUME IInv, NEW s \in Servers, Start(s) PROVE IInv'
<1> DEFINE m == [main[s] EXCEPT !.pc = "ssl", !.handlers = {"SIGINT", "SIGTERM", "SIGCHLD"}]
<1> USE DEF Start, At, shmVars
<1>1. main[s] \in MainRec /\ hist \in HistRec BY DEF IInv, Types
<1>2. m \in MainRec BY <1>1 DEF MainRec, MainPcs
<1>3. /\ \A r \in Servers : r # s => main'[r] = main[r]
      /\ main'[s] = m /\ m.pc = "ssl" /\ main[s].pc = "off" /\ main' = [main EXCEPT ![s] = m]
      /\ m.fds = main[s].fds /\ m.segs = main[s].segs /\ m.pending = main[s].pending
      /\ m.g_stop = main[s].g_stop
  BY <1>1 DEF IInv, Types, MainRec
<1>4. /\ hist' \in HistRec /\ hist'.missed = hist.missed /\ hist'.late = hist.late
      /\ hist'.orderly => hist.orderly /\ \A r \in 1..(s - 1) : main[r].pc = "exited"
  BY <1>1 DEF HistRec
<1>5. Knows(m) /\ Reaping
  BY <1>3 DEF IInv, MainInv, Knows, Reaping, Types, Serving, Alive, Dead
<1>6. Types' /\ MainInv' /\ WorkerInv' /\ Reaped'
  <2>1. \A c \in Conns : wk'[c].pc = "zombie" /\ wk[c].server = s => m.pending \/ c \in hist.missed
    BY <1>3 DEF IInv, Reaped, In
  <2> HIDE DEF m
  <2> QED BY <1>2, <1>3, <1>4, <1>5, <2>1, MainMoves, ZenonT(60) DEF IInv, Types
<1>7. StopInv' BY <1>3, <1>4 DEF IInv, StopInv
<1>8. OrderInv'
  <2> HIDE DEF m
  <2>1. SUFFICES ASSUME hist'.orderly PROVE OrderInv' BY DEF OrderInv
  <2>2. hist.orderly /\ OrderInv BY <1>4, <2>1 DEF IInv
  <2>3. ASSUME NEW u \in Servers, NEW r \in 1..(u - 1), main'[u].pc # "off" PROVE main'[r].pc = "exited"
    <3>1. r \in Servers BY ServerAssumption DEF Servers
    <3>2. CASE u = s
      <4>1. main[r].pc = "exited" BY <1>4, <2>1, <3>2
      <4> QED BY <1>3, <3>1, <4>1
    <3>3. CASE u # s
      <4>1. main[r].pc = "exited" BY <1>3, <2>2, <2>3, <3>3 DEF OrderInv
      <4> QED BY <1>3, <3>1, <4>1
    <3> QED BY <3>2, <3>3
  <2>4. ASSUME NEW u \in Servers
        PROVE  /\ main'[u].pc \in HasStats => main'[u].segs.stats = u /\ names'.stats = u
               /\ main'[u].pc \in HasStore => main'[u].segs.store = u /\ names'.store = u
               /\ names'.stats = u => main'[u].pc \in HasStats \union {"failed", "killed"}
               /\ names'.store = u => main'[u].pc \in HasStore \union {"failed", "killed"}
    BY <1>3, <2>2 DEF OrderInv, HasStats, HasStore, Serving, Stopping
  <2>5. ASSUME NEW c \in Conns, wk'[c].pc # "none"
        PROVE  /\ wk'[c].segs.stats = wk'[c].server /\ wk'[c].segs.store = wk'[c].server
               /\ main'[wk'[c].server].pc \notin {"off", "ssl", "stats", "store"}
    <3>1. wk[c].server \in Servers BY <2>5 DEF IInv, WorkerInv, Types, WorkRec, Servers
    <3> QED BY <1>3, <2>2, <2>5, <3>1 DEF OrderInv
  <2> QED BY <2>3, <2>4, <2>5 DEF OrderInv
<1>9. KeptInv' BY <1>4 DEF IInv, KeptInv, In
<1> QED BY <1>6, <1>7, <1>8, <1>9 DEF IInv

(* A main process that only moves on, with other descriptors at most.      *)
LEMMA GoInv ==
  ASSUME IInv, NEW s \in Servers, NEW m \in MainRec, main' = [main EXCEPT ![s] = m],
         UNCHANGED <<wk, backlog, shmVars, mon>>,
         hist' \in HistRec, hist'.missed = hist.missed, hist'.late = hist.late,
         hist'.orderly = hist.orderly,
         m.segs = main[s].segs, m.pending = main[s].pending, Knows(m),
         main[s].g_stop => m.g_stop, m.pc = "accept" => main[s].pc = "accept" \/ ~m.g_stop,
         main[s].pc \notin {"off"} \union Dead, m.pc \notin {"off", "exited"},
         m.pc \in {"ssl", "stats", "store"} => main[s].pc \in {"ssl", "stats", "store"},
         m.pc \in HasStats <=> main[s].pc \in HasStats,
         m.pc \in HasStore <=> main[s].pc \in HasStore
  PROVE  IInv'
<1>1. Reaping BY DEF IInv, Types, Reaping
<1>2. \A c \in Conns : wk'[c].pc = "zombie" /\ wk[c].server = s => m.pending \/ c \in hist.missed
  BY DEF IInv, Reaped, In
<1> QED BY <1>1, <1>2, QuietMoves DEF shmVars

(* ssl_init_server_ctx keeps IInv, whether main goes on or returns 1.      *)
LEMMA SslInitInv == ASSUME IInv, NEW s \in Servers, SslInit(s) PROVE IInv'
<1> USE DEF SslInit, At
<1>1. main[s] \in MainRec /\ hist \in HistRec BY DEF IInv, Types
<1>2. CASE Goto(s, "stats") /\ UNCHANGED wk
  <2> DEFINE m == [main[s] EXCEPT !.pc = "stats"]
  <2>1. /\ m \in MainRec /\ main' = [main EXCEPT ![s] = m] /\ m.pc = "stats"
        /\ m.fds = main[s].fds /\ m.segs = main[s].segs /\ m.pending = main[s].pending
        /\ m.g_stop = main[s].g_stop
    BY <1>1, <1>2 DEF MainRec, MainPcs, Goto
  <2>2. Knows(m) BY <2>1 DEF IInv, MainInv, Knows, Serving, Alive, Dead
  <2> HIDE DEF m
  <2> QED BY <1>1, <1>2, <2>1, <2>2, GoInv DEF HasStats, HasStore, Serving, Stopping, Dead
<1>3. CASE Exit(s, "failed") BY <1>3, ExitInv DEF Alive
<1> QED BY <1>2, <1>3

(* tcp_listen keeps IInv: main gets its listening socket or returns 1.     *)
LEMMA TcpListenInv == ASSUME IInv, NEW s \in Servers, TcpListen(s) PROVE IInv'
<1> USE DEF TcpListen, At
<1>1. main[s] \in MainRec /\ hist \in HistRec BY DEF IInv, Types
<1>2. CASE Exit(s, "failed") BY <1>2, ExitInv DEF Alive
<1>3. CASE main' = [main EXCEPT ![s].fds = {Listen(s)}, ![s].pc = "test"] /\ UNCHANGED wk
  <2> DEFINE m == [main[s] EXCEPT !.fds = {Listen(s)}, !.pc = "test"]
  <2>1. {Listen(s)} \in SUBSET Sockets BY DEF Sockets
  <2>2. /\ m \in MainRec /\ m.pc = "test"
        /\ m.segs = main[s].segs /\ m.pending = main[s].pending /\ m.g_stop = main[s].g_stop
    BY <1>1, <2>1 DEF MainRec, MainPcs, Serving
  <2>3. main' = [main EXCEPT ![s] = m] BY <1>1, <1>3 DEF IInv, Types, MainRec
  <2>4. Knows(m) BY <2>2 DEF IInv, MainInv, Knows, Serving, Alive, Dead
  <2> HIDE DEF m
  <2> QED BY <1>1, <1>3, <2>2, <2>3, <2>4, GoInv DEF HasStats, HasStore, Serving, Stopping, Dead
<1> QED BY <1>2, <1>3

(* The test of g_stop keeps IInv: main gets into accept() only without it. *)
LEMMA LoopTestInv == ASSUME IInv, NEW s \in Servers, LoopTest(s) PROVE IInv'
<1> USE DEF LoopTest, At
<1> DEFINE m == [main[s] EXCEPT !.pc = IF main[s].g_stop THEN "close" ELSE "accept"]
<1>1. main[s] \in MainRec /\ hist \in HistRec BY DEF IInv, Types
<1>2. /\ m \in MainRec /\ main' = [main EXCEPT ![s] = m] /\ m.pc \in {"close", "accept"}
      /\ m.fds = main[s].fds /\ m.segs = main[s].segs /\ m.pending = main[s].pending
      /\ m.g_stop = main[s].g_stop /\ (m.pc = "accept" => ~m.g_stop)
  BY <1>1 DEF MainRec, MainPcs, Serving, Goto
<1>3. Knows(m) BY <1>2 DEF IInv, MainInv, Knows, Serving, Alive, Dead
<1> HIDE DEF m
<1> QED BY <1>1, <1>2, <1>3, GoInv DEF HasStats, HasStore, Serving, Stopping, Dead

(* close(cfd) after fork() keeps IInv.                                     *)
LEMMA CloseCfdInv == ASSUME IInv, NEW s \in Servers, CloseCfd(s) PROVE IInv'
<1> USE DEF CloseCfd, At
<1> DEFINE m == [main[s] EXCEPT !.pc = "test", !.cfd = 0, 
                              !.fds = main[s].fds \ {Sock(main[s].cfd)}]
<1>1. main[s] \in MainRec /\ hist \in HistRec BY DEF IInv, Types
<1>2. /\ m \in MainRec /\ m.pc = "test"
      /\ m.segs = main[s].segs /\ m.pending = main[s].pending /\ m.g_stop = main[s].g_stop
  <2>1. 0 \in 0..MaxConns /\ main[s].fds \ {Sock(main[s].cfd)} \in SUBSET Sockets
    BY <1>1, ServerAssumption DEF MainRec
  <2> QED BY <1>1, <2>1 DEF MainRec, MainPcs, Serving
<1>3. main' = [main EXCEPT ![s] = m] OBVIOUS
<1>4. Knows(m) BY <1>2 DEF IInv, MainInv, Knows, Serving, Alive, Dead
<1> HIDE DEF m
<1> QED BY <1>1, <1>2, <1>3, <1>4, GoInv DEF HasStats, HasStore, Serving, Stopping, Dead

(* close(lfd) keeps IInv: main is left without descriptors.                *)
LEMMA CloseLfdInv == ASSUME IInv, NEW s \in Servers, CloseLfd(s) PROVE IInv'
<1> USE DEF CloseLfd, At
<1> DEFINE m == [main[s] EXCEPT !.fds = {}, !.pc = "unlink_stats"]
<1>1. main[s] \in MainRec /\ hist \in HistRec BY DEF IInv, Types
<1>2. /\ m \in MainRec /\ m.pc = "unlink_stats" /\ m.fds = {}
      /\ m.segs = main[s].segs /\ m.pending = main[s].pending /\ m.g_stop = main[s].g_stop
  BY <1>1 DEF MainRec, MainPcs, Stopping
<1>3. main' = [main EXCEPT ![s] = m] BY <1>1 DEF IInv, Types, MainRec
<1>4. Knows(m) BY <1>2 DEF IInv, MainInv, Knows, Serving, Alive, Dead
<1> HIDE DEF m
<1> QED BY <1>1, <1>2, <1>3, <1>4, GoInv DEF HasStats, HasStore, Serving, Stopping, Dead

(* on_sigchld keeps IInv: the signal is no longer pending, and nobody      *)
(* waits for it.                                                           *)
LEMMA SigchldInv == ASSUME IInv, NEW s \in Servers, Sigchld(s) PROVE IInv'
<1> USE DEF Sigchld
<1> DEFINE m == [Handled(s, "SIGCHLD") EXCEPT !.pending = FALSE]
<1>1. main[s] \in MainRec /\ hist \in HistRec BY DEF IInv, Types
<1>2. /\ m \in MainRec /\ main' = [main EXCEPT ![s] = m]
      /\ m.pc = main[s].pc \/ (main[s].pc = "accept" /\ m.pc = "test")
      /\ m.segs = main[s].segs /\ m.g_stop = main[s].g_stop /\ m.fds = main[s].fds
      /\ m.cfd = main[s].cfd /\ ~m.pending /\ main[s].pc \notin {"off"} \union Dead
  BY <1>1, ZenonT(60) DEF MainRec, MainPcs, Serving, Handled, IInv, MainInv, Alive, Dead
<1>3. Knows(m) BY <1>2 DEF IInv, MainInv, Knows, Serving, Alive, Dead
<1>4. Reaping /\ \A c \in Conns : wk'[c].pc = "zombie" => wk[c].server # s
  BY ZenonT(60) DEF IInv, Types, Reaping, WorkRec, WorkPcs
<1> HIDE DEF m
<1>5. /\ m.pc \in HasStats <=> main[s].pc \in HasStats
      /\ m.pc \in HasStore <=> main[s].pc \in HasStore
      /\ m.pc \notin {"off", "exited"}
      /\ m.pc \in {"ssl", "stats", "store"} => main[s].pc \in {"ssl", "stats", "store"}
      /\ m.pc = "accept" => main[s].pc = "accept"
  BY <1>2 DEF HasStats, HasStore, Serving, Stopping, Dead
<1>6. UNCHANGED <<backlog, names, stats, sessions, mon, hist>> BY DEF shmVars
<1> HIDE DEF Sigchld
<1> QED BY <1>1, <1>2, <1>3, <1>4, <1>5, <1>6, QuietMoves, ZenonT(60)

(* SIGINT and SIGTERM keep IInv, with their handler and with the default   *)
(* action.                                                                 *)
LEMMA StopSignalInv ==
  ASSUME IInv, NEW s \in Servers, NEW sig \in {"SIGINT", "SIGTERM"}, Stop(s, sig) PROVE IInv'
<1> USE DEF Stop
<1>1. main[s] \in MainRec /\ hist \in HistRec BY DEF IInv, Types
<1>2. CASE sig \in main[s].handlers
  <2> DEFINE m == [Handled(s, sig) EXCEPT !.g_stop = TRUE]
  <2>1. /\ m \in MainRec /\ main' = [main EXCEPT ![s] = m]
        /\ m.pc = main[s].pc \/ (main[s].pc = "accept" /\ m.pc = "test")
        /\ m.segs = main[s].segs /\ m.g_stop /\ m.fds = main[s].fds
        /\ m.cfd = main[s].cfd /\ m.pending = main[s].pending
    BY <1>1, <1>2 DEF MainRec, MainPcs, Serving, Handled
  <2>2. Knows(m) BY <2>1 DEF IInv, MainInv, Knows, Serving, Alive, Dead
  <2>3. /\ hist' \in HistRec /\ hist'.missed = hist.missed /\ hist'.late = hist.late
        /\ hist'.orderly = hist.orderly
    BY <1>1, <1>2 DEF HistRec
  <2> HIDE DEF m
  <2> QED BY <1>2, <2>1, <2>2, <2>3, GoInv DEF HasStats, HasStore, Serving, Stopping, Dead, Alive
<1>3. CASE sig \notin main[s].handlers BY <1>3, ExitInv
<1> QED BY <1>2, <1>3

(* accept() keeps IInv: a connection after on_sigint takes main out of     *)
(* accept().                                                               *)
LEMMA AcceptInv == ASSUME IInv, NEW s \in Servers, Accept(s) PROVE IInv'
<1> USE DEF Accept, At
<1> DEFINE c == Head(backlog[s])
           m == [main[s] EXCEPT !.pc = "fork", !.cfd = c, !.fds = main[s].fds \union {Sock(c)}]
<1>1. /\ main[s] \in MainRec /\ hist \in HistRec /\ c \in Conns
      /\ backlog' \in [Servers -> Seq(Conns)]
  BY DEF IInv, Types
<1>2. /\ m \in MainRec /\ m.pc = "fork" /\ m.cfd # 0
      /\ m.segs = main[s].segs /\ m.pending = main[s].pending /\ m.g_stop = main[s].g_stop
  <2>1. main[s].fds \union {Sock(c)} \in SUBSET Sockets BY <1>1 DEF MainRec, Sockets
  <2>2. c \in 0..MaxConns /\ c # 0 BY <1>1, ServerAssumption DEF Conns
  <2> HIDE DEF c
  <2> QED BY <1>1, <2>1, <2>2 DEF MainRec, MainPcs, Serving
<1>3. main' = [main EXCEPT ![s] = m] OBVIOUS
<1>4. Knows(m) BY <1>2 DEF IInv, MainInv, Knows, Serving, Alive, Dead
<1>5. /\ hist' \in HistRec /\ hist'.missed = hist.missed /\ hist'.orderly = hist.orderly
      /\ \A r \in Servers : r # s => hist'.late[r] = hist.late[r]
      /\ hist'.late[s] = IF main[s].g_stop THEN hist.late[s] + 1 ELSE hist.late[s]
  <2>1. hist.late \in [Servers -> Nat] BY <1>1 DEF HistRec
  <2>2. [hist.late EXCEPT ![s] = hist.late[s] + 1] \in [Servers -> Nat] BY <2>1
  <2>3. CASE main[s].g_stop
    <3>1. hist' = [hist EXCEPT !.late = [hist.late EXCEPT ![s] = hist.late[s] + 1]]
      BY <1>1, <2>3 DEF HistRec
    <3> DEFINE l == [hist.late EXCEPT ![s] = hist.late[s] + 1]
    <3>2. l[s] = hist.late[s] + 1 /\ \A r \in Servers : r # s => l[r] = hist.late[r] BY <2>1
    <3> HIDE DEF l
    <3>3. /\ hist' \in HistRec /\ hist'.late = l
          /\ hist'.missed = hist.missed /\ hist'.orderly = hist.orderly
      BY <1>1, <2>2, <3>1 DEF HistRec, l
    <3> QED BY <2>3, <3>2, <3>3
  <2>4. CASE ~main[s].g_stop BY <1>1, <2>4
  <2> QED BY <2>3, <2>4
<1>6. Reaping BY DEF IInv, Types, Reaping
<1>7. \A d \in Conns : wk'[d].pc = "zombie" /\ wk[d].server = s => m.pending \/ d \in hist.missed
  BY <1>2 DEF IInv, Reaped, In
<1> HIDE DEF m
<1>8. Types' /\ MainInv' /\ WorkerInv' /\ Reaped'
  BY <1>1, <1>2, <1>3, <1>4, <1>5, <1>6, <1>7, MainMoves DEF IInv, Types, shmVars
<1>9. OrderInv' /\ KeptInv'
  BY <1>2, <1>3, <1>5, <1>6, OrderMoves DEF HasStats, HasStore, Serving, Stopping, Dead, shmVars
<1>10. StopInv'
  <2>1. main'[s] = m /\ \A r \in Servers : r # s => main'[r] = main[r] BY <1>3 DEF IInv, Types
  <2>2. hist.late[s] = 0 BY <1>1 DEF IInv, StopInv, HistRec
  <2> QED BY <1>2, <1>5, <2>1, <2>2 DEF IInv, StopInv
<1> QED BY <1>8, <1>9, <1>10 DEF IInv

(* fork() keeps IInv: the worker inherits the segments that main has       *)
(* mapped.                                                                 *)
LEMMA ForkInv == ASSUME IInv, NEW s \in Servers, Fork(s) PROVE IInv'
<1> USE DEF Fork, At
<1> DEFINE m == [main[s] EXCEPT !.pc = "forked"]
           c == main[s].cfd
           w == [pc |-> "child", server |-> s, fds |-> main[s].fds, segs |-> main[s].segs]
<1>1. main[s] \in MainRec /\ hist \in HistRec BY DEF IInv, Types
<1>2. /\ m \in MainRec /\ main' = [main EXCEPT ![s] = m] /\ m.pc = "forked"
      /\ m.fds = main[s].fds /\ m.segs = main[s].segs /\ m.pending = main[s].pending
      /\ m.g_stop = main[s].g_stop /\ m.cfd = main[s].cfd
  BY <1>1 DEF MainRec, MainPcs, Serving, Goto
<1>3. Knows(m) BY <1>2 DEF IInv, MainInv, Knows, Serving, Alive, Dead
<1>4. CASE UNCHANGED wk
  <2> HIDE DEF m, c, w
  <2> QED BY <1>1, <1>2, <1>3, <1>4, GoInv DEF HasStats, HasStore, Serving, Stopping, Dead
<1>5. CASE wk' = [wk EXCEPT ![c] = w]
  <2>1. c \in Conns BY <1>1 DEF IInv, MainInv, MainRec, Conns
  <2>2. w \in WorkRec BY <1>1, ServerAssumption DEF WorkRec, WorkPcs, MainRec, Servers
  <2>3. /\ \A d \in Conns : d # c => wk'[d] = wk[d]
        /\ wk'[c].pc = "child" /\ wk'[c].server = s /\ wk'[c].segs = main[s].segs
        /\ wk' \in [Conns -> WorkRec]
    BY <1>5, <2>1, <2>2 DEF IInv, Types
  <2>4. main'[s] = m /\ \A r \in Servers : r # s => main'[r] = main[r] BY <1>2 DEF IInv, Types
  <2>5. UNCHANGED <<backlog, names, stats, sessions, mon, hist>> BY DEF shmVars
  <2> HIDE DEF m, c, w
  <2>6. Types' BY <1>2, <2>3, <2>5 DEF IInv, Types
  <2>7. MainInv' BY <1>2, <1>3, <2>4 DEF IInv, MainInv, Knows, Alive, Dead
  <2>8. WorkerInv' BY <2>3, ServerAssumption DEF IInv, WorkerInv, MainInv, Serving, Servers
  <2>9. StopInv' BY <1>2, <2>4, <2>5 DEF IInv, StopInv
  <2>10. Reaped'
    <3> SUFFICES ASSUME NEW d \in Conns, In(d, "zombie")'
                 PROVE  main'[wk'[d].server].pending \/ d \in hist'.missed
      BY DEF Reaped
    <3>1. d # c /\ wk'[d] = wk[d] /\ wk[d].pc = "zombie" BY <2>3 DEF In
    <3>2. wk[d].server \in Servers BY <3>1 DEF IInv, WorkerInv, Types, WorkRec, Servers
    <3> QED BY <1>2, <2>4, <2>5, <3>1, <3>2 DEF IInv, Reaped, In
  <2>11. OrderInv'
    <3> SUFFICES ASSUME hist.orderly PROVE OrderInv' BY <2>5 DEF OrderInv
    <3>1. \A u \in Servers : main'[u].segs = main[u].segs /\
             (main'[u].pc = main[u].pc \/ (main[u].pc = "fork" /\ main'[u].pc = "forked"))
      BY <1>2, <2>4
    <3>2. ASSUME NEW u \in Servers, NEW r \in 1..(u - 1), main'[u].pc # "off" PROVE main'[r].pc = "exited"
      <4>1. r \in Servers BY ServerAssumption DEF Servers
      <4> QED BY <3>1, <3>2, <4>1 DEF IInv, OrderInv
    <3>3. ASSUME NEW u \in Servers
          PROVE  /\ main'[u].pc \in HasStats => main'[u].segs.stats = u /\ names'.stats = u
                 /\ main'[u].pc \in HasStore => main'[u].segs.store = u /\ names'.store = u
                 /\ names'.stats = u => main'[u].pc \in HasStats \union {"failed", "killed"}
                 /\ names'.store = u => main'[u].pc \in HasStore \union {"failed", "killed"}
      BY <2>5, <3>1 DEF IInv, OrderInv, HasStats, HasStore, Serving, Stopping
    <3>4. ASSUME NEW d \in Conns, wk'[d].pc # "none"
          PROVE  /\ wk'[d].segs.stats = wk'[d].server /\ wk'[d].segs.store = wk'[d].server
                 /\ main'[wk'[d].server].pc \notin {"off", "ssl", "stats", "store"}
      <4>1. CASE d = c
        <5>1. main[s].segs.stats = s /\ main[s].segs.store = s
          BY DEF IInv, OrderInv, HasStats, HasStore, Serving
        <5> QED BY <1>2, <2>3, <2>4, <4>1, <5>1
      <4>2. CASE d # c
        <5>1. wk'[d] = wk[d] /\ wk[d].pc # "none" BY <2>3, <3>4, <4>2
        <5>2. wk[d].server \in Servers BY <5>1 DEF IInv, WorkerInv, Types, WorkRec, Servers
        <5> QED BY <3>1, <5>1, <5>2 DEF IInv, OrderInv
      <4> QED BY <4>1, <4>2
    <3> QED BY <3>2, <3>3, <3>4 DEF OrderInv
  <2>12. KeptInv' BY <2>3, <2>5 DEF IInv, KeptInv, In
  <2> QED BY <2>6, <2>7, <2>8, <2>9, <2>10, <2>11, <2>12 DEF IInv
<1> QED BY <1>4, <1>5

(* With servers that run one after the other, only the last one is still   *)
(* at work, so a server at its initialisation finds the names unused.      *)
LEMMA Alone ==
  ASSUME IInv, hist.orderly, NEW s \in Servers, NEW r \in Servers, r # s,
         main[s].pc \notin {"off", "exited"}
  PROVE  main[r].pc \in {"off", "exited"}
<1>1. CASE r < s
  <2>1. r \in 1..(s - 1) BY <1>1, ServerAssumption DEF Servers
  <2> QED BY <2>1 DEF IInv, OrderInv
<1>2. CASE s < r
  <2>1. s \in 1..(r - 1) BY <1>2, ServerAssumption DEF Servers
  <2> QED BY <2>1 DEF IInv, OrderInv
<1> QED BY <1>1, <1>2, ServerAssumption DEF Servers

(* The part of OrderInv that is about one server.                          *)
Owns(u) ==
  /\ main[u].pc \in HasStats => main[u].segs.stats = u /\ names.stats = u
  /\ main[u].pc \in HasStore => main[u].segs.store = u /\ names.store = u
  /\ names.stats = u => main[u].pc \in HasStats \union {"failed", "killed"}
  /\ names.store = u => main[u].pc \in HasStore \union {"failed", "killed"}

(* A step of one server that keeps the order, from what it does to names.  *)
LEMMA OwnerMoves ==
  ASSUME IInv, NEW s \in Servers, NEW m \in MainRec, main' = [main EXCEPT ![s] = m], Reaping,
         hist'.orderly = hist.orderly,
         main[s].pc \notin {"off", "exited"}, m.pc # "off",
         m.pc \in {"ssl", "stats", "store"} => main[s].pc \in {"ssl", "stats", "store"},
         hist.orderly => \A u \in Servers : Owns(u)'
  PROVE  OrderInv'
<1> SUFFICES ASSUME hist.orderly PROVE OrderInv' BY DEF OrderInv
<1>1. /\ \A r \in Servers : r # s => main'[r] = main[r]
      /\ main'[s] = m
  BY DEF IInv, Types
<1>2. ASSUME NEW u \in Servers, NEW r \in 1..(u - 1), main'[u].pc # "off" PROVE main'[r].pc = "exited"
  <2>1. r \in Servers BY ServerAssumption DEF Servers
  <2> QED BY <1>1, <1>2, <2>1 DEF IInv, OrderInv
<1>3. ASSUME NEW c \in Conns, wk'[c].pc # "none"
      PROVE  /\ wk'[c].segs.stats = wk'[c].server /\ wk'[c].segs.store = wk'[c].server
             /\ main'[wk'[c].server].pc \notin {"off", "ssl", "stats", "store"}
  <2>1. wk[c].pc # "none" /\ wk'[c].server = wk[c].server /\ wk'[c].segs = wk[c].segs
    BY <1>3 DEF Reaping
  <2>2. wk[c].server \in Servers BY <2>1 DEF IInv, WorkerInv, Types, WorkRec, Servers
  <2> QED BY <1>1, <1>3, <2>1, <2>2 DEF IInv, OrderInv
<1> QED BY <1>2, <1>3 DEF OrderInv, Owns

(* A failed initialisation keeps IInv: it may leave a name behind, which   *)
(* among servers that run one after the other is its own.                  *)
LEMMA InitFailsInv ==
  ASSUME IInv, NEW s \in Servers, NEW part \in Parts, At(s, part), InitFails(s, part),
         UNCHANGED <<backlog, mon, hist>>
  PROVE  IInv'
<1> USE DEF At
<1>1. PICK m \in MainRec :
        /\ main' = [main EXCEPT ![s] = m]
        /\ m.pc = "failed" /\ m.segs = main[s].segs /\ m.g_stop = main[s].g_stop
        /\ Knows(m) /\ Reaping
        /\ \A c \in Conns : wk'[c].pc = "zombie" => wk[c].server # s
  BY ExitMoves DEF InitFails, Dead
<1>2. hist \in HistRec BY DEF IInv, Types
<1>3. /\ names' \in Segs
      /\ names'.stats \in {names.stats, Opened(s, "stats")}
      /\ names'.store \in {names.store, Opened(s, "store")}
  <2>1. Opened(s, "stats") \in 0..MaxServers /\ Opened(s, "store") \in 0..MaxServers
    BY DEF IInv, Types, Opened, Servers, Segs
  <2> QED BY <2>1 DEF InitFails, IInv, Types, Segs, Parts
<1>4. stats' = stats /\ sessions' = sessions BY DEF InitFails
<1>5. Types' /\ MainInv' /\ WorkerInv' /\ Reaped'
  BY <1>1, <1>2, <1>3, <1>4, MainMoves, ZenonT(60) DEF IInv, Types
<1>6. main'[s] = m /\ \A r \in Servers : r # s => main'[r] = main[r] BY <1>1 DEF IInv, Types
<1>7. StopInv' BY <1>1, <1>6 DEF IInv, StopInv
<1>8. ASSUME hist.orderly, NEW u \in Servers PROVE Owns(u)'
  <2>1. main[s].pc \in {"stats", "store"} BY DEF Parts
  <2>2. /\ names'.stats = u => names.stats = u \/ u = s
        /\ names'.store = u => names.store = u \/ u = s
    BY <1>3 DEF Opened
  <2>3. CASE u # s
    <3>1. main[u].pc \in {"off", "exited"} BY <1>8, <2>1, <2>3, Alone
    <3> QED BY <1>6, <1>8, <2>2, <2>3, <3>1 DEF IInv, OrderInv, Owns, HasStats, HasStore, Serving, Stopping
  <2>4. CASE u = s
    BY <1>1, <1>6, <2>4 DEF Owns, HasStats, HasStore, Serving, Stopping
  <2> QED BY <2>3, <2>4
<1>9. OrderInv'
  <2>1. main[s].pc \in {"stats", "store"} BY DEF Parts
  <2> QED BY <1>1, <1>8, <2>1, OwnerMoves
<1>10. KeptInv' BY <1>1, <1>4 DEF IInv, KeptInv, In, Reaping
<1> QED BY <1>5, <1>7, <1>9, <1>10 DEF IInv

(* ipc_stats_init(1) keeps IInv: among servers that run one after the      *)
(* other the segment is a new one.                                         *)
LEMMA StatsInitInv == ASSUME IInv, NEW s \in Servers, StatsInit(s) PROVE IInv'
<1> SUFFICES ASSUME MapStats(s) PROVE IInv' BY InitFailsInv DEF StatsInit, Parts
<1> USE DEF StatsInit, MapStats, At
<1> DEFINE g == Opened(s, "stats")
           m == [main[s] EXCEPT !.segs = [main[s].segs EXCEPT !.stats = g], !.pc = "store"]
<1>1. main[s] \in MainRec /\ hist \in HistRec /\ main[s].segs \in Segs BY DEF IInv, Types, MainRec
<1>2. g \in Servers BY DEF IInv, Types, Opened, Servers, Segs
<1>3. [main[s].segs EXCEPT !.stats = g] \in Segs BY <1>1, <1>2 DEF Segs, Servers
<1>4. /\ m \in MainRec /\ m.pc = "store" /\ m.segs.stats = g /\ m.segs.store = main[s].segs.store
      /\ m.pending = main[s].pending /\ m.g_stop = main[s].g_stop /\ m.fds = main[s].fds
  <2> HIDE DEF g
  <2> QED BY <1>1, <1>3 DEF MainRec, MainPcs, Segs
<1>5. main' = [main EXCEPT ![s] = m] BY <1>1 DEF IInv, Types, MainRec
<1>6. names' = [names EXCEPT !.stats = g] /\ names' \in Segs
  BY <1>2 DEF IInv, Types, Segs, Servers
<1>7. stats' \in [Servers -> Counters] BY <1>2 DEF IInv, Types, NoStats, Counters
<1> HIDE DEF m, g
<1>8. Knows(m) BY <1>2, <1>4 DEF IInv, MainInv, Knows, Serving, Alive, Dead, Servers
<1>9. Reaping BY DEF IInv, Types, Reaping
<1>10. \A c \in Conns : wk'[c].pc = "zombie" /\ wk[c].server = s => m.pending \/ c \in hist.missed
  BY <1>4 DEF IInv, Reaped, In
<1>11. Types' /\ MainInv' /\ WorkerInv' /\ Reaped'
  BY <1>1, <1>4, <1>5, <1>6, <1>7, <1>8, <1>9, <1>10, MainMoves DEF IInv, Types
<1>12. main'[s] = m /\ \A r \in Servers : r # s => main'[r] = main[r] BY <1>5 DEF IInv, Types
<1>13. StopInv' BY <1>4, <1>12, ZenonT(60) DEF IInv, StopInv
<1>14. ASSUME hist.orderly PROVE \A u \in Servers : Owns(u)'
  <2>1. ASSUME NEW r \in Servers PROVE names.stats # r
    <3>1. CASE r # s
      <4>1. main[r].pc \in {"off", "exited"} BY <1>14, <3>1, Alone
      <4> QED BY <1>14, <4>1 DEF IInv, OrderInv, HasStats, Serving
    <3>2. CASE r = s BY <1>14, <3>2 DEF IInv, OrderInv, HasStats, Serving
    <3> QED BY <3>1, <3>2
  <2>2. names.stats = 0 /\ g = s
    BY <2>1 DEF IInv, Types, Segs, Servers, Opened, g
  <2>3. names'.stats = s /\ names'.store = names.store BY <1>6, <2>2 DEF IInv, Types, Segs
  <2>4. ASSUME NEW u \in Servers, u # s PROVE Owns(u)'
    <3>1. main[u].pc \in {"off", "exited"} BY <1>14, <2>4, Alone
    <3>2. main'[u].pc \notin HasStats /\ main'[u].pc \notin HasStore
      BY <1>12, <2>4, <3>1 DEF HasStats, HasStore, Serving, Stopping
    <3>3. names.store # u
      BY <1>14, <3>1 DEF IInv, OrderInv, HasStats, HasStore, Serving, Stopping
    <3> QED BY <2>3, <2>4, <3>2, <3>3 DEF Owns
  <2>5. Owns(s)'
    BY <1>4, <1>12, <1>14, <2>2, <2>3 DEF IInv, OrderInv, Owns, HasStats, HasStore, Serving, Stopping
  <2> QED BY <2>4, <2>5
<1>15. OrderInv' BY <1>4, <1>5, <1>9, <1>14, OwnerMoves
<1>16. KeptInv' BY DEF IInv, KeptInv, In
<1> QED BY <1>11, <1>13, <1>15, <1>16 DEF IInv

(* ipc_store_init(1) keeps IInv: the segment it zeroes is mapped by no     *)
(* worker of an earlier server.                                            *)
LEMMA StoreInitInv == ASSUME IInv, NEW s \in Servers, StoreInit(s) PROVE IInv'
<1> SUFFICES ASSUME MapStore(s) PROVE IInv' BY InitFailsInv DEF StoreInit, Parts
<1> USE DEF StoreInit, MapStore, At
<1> DEFINE g == Opened(s, "store")
           m == [main[s] EXCEPT !.segs = [main[s].segs EXCEPT !.store = g], !.pc = "listen"]
<1>1. main[s] \in MainRec /\ hist \in HistRec /\ main[s].segs \in Segs BY DEF IInv, Types, MainRec
<1>2. g \in Servers BY DEF IInv, Types, Opened, Servers, Segs
<1>3. [main[s].segs EXCEPT !.store = g] \in Segs BY <1>1, <1>2 DEF Segs, Servers
<1>4. /\ m \in MainRec /\ m.pc = "listen" /\ m.segs.store = g /\ m.segs.stats = main[s].segs.stats
      /\ m.pending = main[s].pending /\ m.g_stop = main[s].g_stop /\ m.fds = main[s].fds
  <2> HIDE DEF g
  <2> QED BY <1>1, <1>3 DEF MainRec, MainPcs, Segs
<1>5. main' = [main EXCEPT ![s] = m] BY <1>1 DEF IInv, Types, MainRec
<1>6. names' = [names EXCEPT !.store = g] /\ names' \in Segs
  BY <1>2 DEF IInv, Types, Segs, Servers
<1>7. sessions' = [sessions EXCEPT ![g] = {}] /\ sessions' \in [Servers -> SUBSET Conns]
  BY <1>2 DEF IInv, Types
<1> HIDE DEF m, g
<1>8. Knows(m) BY <1>2, <1>4 DEF IInv, MainInv, Knows, Serving, Alive, Dead, Servers
<1>9. Reaping BY DEF IInv, Types, Reaping
<1>10. \A c \in Conns : wk'[c].pc = "zombie" /\ wk[c].server = s => m.pending \/ c \in hist.missed
  BY <1>4 DEF IInv, Reaped, In
<1>11. Types' /\ MainInv' /\ WorkerInv' /\ Reaped'
  BY <1>1, <1>4, <1>5, <1>6, <1>7, <1>8, <1>9, <1>10, MainMoves DEF IInv, Types
<1>12. main'[s] = m /\ \A r \in Servers : r # s => main'[r] = main[r] BY <1>5 DEF IInv, Types
<1>13. StopInv' BY <1>4, <1>12, ZenonT(60) DEF IInv, StopInv
<1>14. ASSUME hist.orderly PROVE g = s /\ \A u \in Servers : Owns(u)'
  <2>1. ASSUME NEW r \in Servers PROVE names.store # r
    <3>1. CASE r # s
      <4>1. main[r].pc \in {"off", "exited"} BY <1>14, <3>1, Alone
      <4> QED BY <1>14, <4>1 DEF IInv, OrderInv, HasStore, Serving, Stopping
    <3>2. CASE r = s BY <1>14, <3>2 DEF IInv, OrderInv, HasStore, Serving, Stopping
    <3> QED BY <3>1, <3>2
  <2>2. names.store = 0 /\ g = s
    BY <2>1 DEF IInv, Types, Segs, Servers, Opened, g
  <2>3. names'.store = s /\ names'.stats = names.stats BY <1>6, <2>2 DEF IInv, Types, Segs
  <2>4. ASSUME NEW u \in Servers, u # s PROVE Owns(u)'
    <3>1. main[u].pc \in {"off", "exited"} BY <1>14, <2>4, Alone
    <3>2. main'[u].pc \notin HasStats /\ main'[u].pc \notin HasStore
      BY <1>12, <2>4, <3>1 DEF HasStats, HasStore, Serving, Stopping
    <3>3. names.stats # u
      BY <1>14, <3>1 DEF IInv, OrderInv, HasStats, HasStore, Serving, Stopping
    <3> QED BY <2>3, <2>4, <3>2, <3>3 DEF Owns
  <2>5. Owns(s)'
    BY <1>4, <1>12, <1>14, <2>2, <2>3 DEF IInv, OrderInv, Owns, HasStats, HasStore, Serving, Stopping
  <2> QED BY <2>2, <2>4, <2>5
<1>15. OrderInv' BY <1>4, <1>5, <1>9, <1>14, OwnerMoves
<1>16. KeptInv'
  <2> SUFFICES ASSUME hist.orderly, NEW c \in Conns, wk[c].pc \in {"recv", "pkt"}
               PROVE  c \in sessions'[wk[c].segs.store]
    BY DEF KeptInv, In
  <2>1. /\ wk[c].server \in Servers /\ wk[c].segs.store = wk[c].server
        /\ main[wk[c].server].pc # "store" /\ c \in sessions[wk[c].segs.store]
    BY DEF IInv, WorkerInv, Types, WorkRec, Servers, OrderInv, KeptInv, In
  <2> QED BY <1>7, <1>14, <2>1, ZenonT(60) DEF IInv, Types
<1> QED BY <1>11, <1>13, <1>15, <1>16 DEF IInv

(* Unlinking the statistics keeps IInv: no other server owns the name.     *)
LEMMA UnlinkStatsInv == ASSUME IInv, NEW s \in Servers, UnlinkStats(s) PROVE IInv'
<1> USE DEF UnlinkStats, At
<1> DEFINE m == [main[s] EXCEPT !.pc = "unlink_store"]
<1>1. main[s] \in MainRec /\ hist \in HistRec BY DEF IInv, Types
<1>2. /\ m \in MainRec /\ main' = [main EXCEPT ![s] = m] /\ m.pc = "unlink_store"
      /\ m.fds = main[s].fds /\ m.segs = main[s].segs /\ m.pending = main[s].pending
      /\ m.g_stop = main[s].g_stop
  BY <1>1 DEF MainRec, MainPcs, Stopping, Goto
<1>3. names' \in Segs /\ names'.stats = 0 /\ names'.store = names.store
  <2>1. 0 \in 0..MaxServers BY ServerAssumption
  <2> QED BY <2>1 DEF IInv, Types, Segs
<1>4. Knows(m) BY <1>2 DEF IInv, MainInv, Knows, Serving, Alive, Dead
<1>5. Reaping BY DEF IInv, Types, Reaping
<1>6. \A c \in Conns : wk'[c].pc = "zombie" /\ wk[c].server = s => m.pending \/ c \in hist.missed
  BY <1>2 DEF IInv, Reaped, In
<1> HIDE DEF m
<1>7. Types' /\ MainInv' /\ WorkerInv' /\ Reaped'
  BY <1>1, <1>2, <1>3, <1>4, <1>5, <1>6, MainMoves DEF IInv, Types
<1>8. main'[s] = m /\ \A r \in Servers : r # s => main'[r] = main[r] BY <1>2 DEF IInv, Types
<1>9. StopInv' BY <1>2, <1>8 DEF IInv, StopInv
<1>10. ASSUME hist.orderly, NEW u \in Servers PROVE Owns(u)'
  <2>1. u # 0 BY DEF Servers
  <2>2. CASE u # s
    <3>1. main[u].pc \in {"off", "exited"} BY <1>10, <2>2, Alone
    <3> QED BY <1>3, <1>8, <1>10, <2>1, <2>2, <3>1 DEF IInv, OrderInv, Owns, HasStats, HasStore, Serving, Stopping
  <2>3. CASE u = s
    BY <1>2, <1>3, <1>8, <1>10, <2>1, <2>3 DEF IInv, OrderInv, Owns, HasStats, HasStore, Serving, Stopping
  <2> QED BY <2>2, <2>3
<1>11. OrderInv' BY <1>2, <1>5, <1>10, OwnerMoves
<1>12. KeptInv' BY DEF IInv, KeptInv, In
<1> QED BY <1>7, <1>9, <1>11, <1>12 DEF IInv

(* Unlinking the session store, the last step of main, keeps IInv.         *)
LEMMA UnlinkStoreInv == ASSUME IInv, NEW s \in Servers, UnlinkStore(s) PROVE IInv'
<1> USE DEF UnlinkStore, At
<1>1. PICK m \in MainRec :
        /\ main' = [main EXCEPT ![s] = m]
        /\ m.pc = "exited" /\ m.segs = main[s].segs /\ m.g_stop = main[s].g_stop
        /\ Knows(m) /\ Reaping
        /\ \A c \in Conns : wk'[c].pc = "zombie" => wk[c].server # s
  BY ExitMoves DEF Dead
<1>2. hist \in HistRec BY DEF IInv, Types
<1>3. names' \in Segs /\ names'.store = 0 /\ names'.stats = names.stats
  BY ServerAssumption DEF IInv, Types, Segs
<1>4. Types' /\ MainInv' /\ WorkerInv' /\ Reaped'
  BY <1>1, <1>2, <1>3, MainMoves, ZenonT(60) DEF IInv, Types
<1>5. main'[s] = m /\ \A r \in Servers : r # s => main'[r] = main[r] BY <1>1 DEF IInv, Types
<1>6. StopInv' BY <1>1, <1>5 DEF IInv, StopInv
<1>7. ASSUME hist.orderly, NEW u \in Servers PROVE Owns(u)'
  <2>1. u # 0 BY DEF Servers
  <2>2. CASE u # s
    <3>1. main[u].pc \in {"off", "exited"} BY <1>7, <2>2, Alone
    <3> QED BY <1>3, <1>5, <1>7, <2>1, <2>2, <3>1 DEF IInv, OrderInv, Owns, HasStats, HasStore, Serving, Stopping
  <2>3. CASE u = s
    BY <1>1, <1>3, <1>5, <1>7, <2>1, <2>3 DEF IInv, OrderInv, Owns, HasStats, HasStore, Serving, Stopping
  <2> QED BY <2>2, <2>3
<1>8. OrderInv' BY <1>1, <1>7, OwnerMoves
<1>9. KeptInv' BY <1>1 DEF IInv, KeptInv, In, Reaping
<1> QED BY <1>4, <1>6, <1>8, <1>9 DEF IInv
-----------------------------------------------------------------------------
(* A worker that moves on and does not end.                                *)
LEMMA WorkerMoves ==
  ASSUME IInv, NEW c \in Conns, NEW w \in WorkRec, wk' = [wk EXCEPT ![c] = w],
         wk[c].pc # "none", w.pc \notin {"none", "zombie"},
         w.server = wk[c].server, w.segs = wk[c].segs,
         UNCHANGED <<main, backlog, names, mon>>,
         stats' \in [Servers -> Counters], sessions' \in [Servers -> SUBSET Conns],
         \A g \in Servers : sessions[g] \subseteq sessions'[g],
         w.pc \in {"recv", "pkt"} => wk[c].pc \in {"recv", "pkt"} \/ c \in sessions'[w.segs.store],
         hist' \in HistRec, hist'.missed = hist.missed, hist'.late = hist.late,
         hist'.orderly = hist.orderly
  PROVE  IInv'
<1>1. wk'[c] = w /\ (\A d \in Conns : d # c => wk'[d] = wk[d]) /\ wk' \in [Conns -> WorkRec]
  BY DEF IInv, Types
<1>2. Types' BY <1>1 DEF IInv, Types
<1>3. MainInv' BY DEF IInv, MainInv, Alive
<1>4. WorkerInv' BY <1>1 DEF IInv, WorkerInv
<1>5. StopInv' BY DEF IInv, StopInv
<1>6. OrderInv'
  <2>1. ASSUME hist.orderly, NEW d \in Conns, wk'[d].pc # "none"
        PROVE  /\ wk'[d].segs.stats = wk'[d].server /\ wk'[d].segs.store = wk'[d].server
               /\ main[wk'[d].server].pc \notin {"off", "ssl", "stats", "store"}
    <3>1. wk[d].pc # "none" /\ wk'[d].server = wk[d].server /\ wk'[d].segs = wk[d].segs
      BY <1>1, <2>1
    <3> QED BY <2>1, <3>1 DEF IInv, OrderInv
  <2> QED BY <2>1 DEF IInv, OrderInv
<1>7. Reaped' BY <1>1 DEF IInv, Reaped, In
<1>8. KeptInv'
  <2> SUFFICES ASSUME hist.orderly, NEW d \in Conns, wk'[d].pc \in {"recv", "pkt"}
               PROVE  d \in sessions'[wk'[d].segs.store]
    BY DEF KeptInv, In
  <2>1. wk[d].pc # "none" /\ wk'[d].segs = wk[d].segs BY <1>1
  <2>2. wk[d].segs.store \in Servers BY <2>1 DEF IInv, WorkerInv, Types, WorkRec, Segs, Servers
  <2>3. CASE d = c BY <1>1, <2>1, <2>2, <2>3 DEF IInv, KeptInv
  <2>4. CASE d # c BY <1>1, <2>1, <2>2, <2>4 DEF IInv, KeptInv, In
  <2> QED BY <2>3, <2>4
<1> QED BY <1>2, <1>3, <1>4, <1>5, <1>6, <1>7, <1>8 DEF IInv

(* The worker's close(lfd) keeps IInv.                                     *)
LEMMA ChildStartsInv == ASSUME IInv, NEW c \in Conns, ChildStarts(c) PROVE IInv'
<1> USE DEF ChildStarts, In, shmVars
<1> DEFINE w == [wk[c] EXCEPT !.pc = "tls", !.fds = wk[c].fds \ {Listen(wk[c].server)}]
<1>1. wk[c] \in WorkRec /\ hist \in HistRec BY DEF IInv, Types
<1>2. w \in WorkRec /\ w.pc = "tls" /\ w.server = wk[c].server /\ w.segs = wk[c].segs
  <2>1. wk[c].fds \ {Listen(wk[c].server)} \in SUBSET Sockets BY <1>1 DEF WorkRec
  <2> QED BY <1>1, <2>1 DEF WorkRec, WorkPcs
<1>3. wk' = [wk EXCEPT ![c] = w] BY <1>1 DEF IInv, Types, WorkRec
<1> HIDE DEF w
<1> QED BY <1>1, <1>2, <1>3, WorkerMoves, ZenonT(60) DEF IInv, Types

(* A handshake keeps IInv.                                                 *)
LEMMA SslAcceptInv == ASSUME IInv, NEW c \in Conns, SslAccept(c) PROVE IInv'
<1> USE DEF SslAccept, In, shmVars
<1> DEFINE w == [wk[c] EXCEPT !.pc = "count"]
<1>1. wk[c] \in WorkRec /\ hist \in HistRec BY DEF IInv, Types
<1>2. /\ w \in WorkRec /\ w.pc = "count" /\ w.server = wk[c].server /\ w.segs = wk[c].segs
      /\ wk' = [wk EXCEPT ![c] = w]
  BY <1>1 DEF WorkRec, WorkPcs, Step
<1>3. /\ hist' \in HistRec /\ hist'.missed = hist.missed /\ hist'.late = hist.late
      /\ hist'.orderly = hist.orderly
  BY <1>1, SMTT(60) DEF HistRec
<1> HIDE DEF w
<1> QED BY <1>2, <1>3, WorkerMoves DEF IInv, Types

(* ipc_stats_inc_conn keeps IInv.                                          *)
LEMMA IncConnInv == ASSUME IInv, NEW c \in Conns, IncConn(c) PROVE IInv'
<1> USE DEF IncConn, In
<1> DEFINE w == [wk[c] EXCEPT !.pc = "login"]
           g == wk[c].segs.stats
<1>1. wk[c] \in WorkRec /\ hist \in HistRec BY DEF IInv, Types
<1>2. /\ w \in WorkRec /\ w.pc = "login" /\ w.server = wk[c].server /\ w.segs = wk[c].segs
      /\ wk' = [wk EXCEPT ![c] = w]
  BY <1>1 DEF WorkRec, WorkPcs, Step
<1>3. g \in Servers BY <1>1 DEF IInv, WorkerInv, WorkRec, Segs, Servers
<1>4. stats' \in [Servers -> Counters]
  <2>1. stats[g] \in Counters BY <1>3 DEF IInv, Types
  <2>2. [stats[g] EXCEPT !.conns = stats[g].conns + 1] \in Counters BY <2>1 DEF Counters
  <2>3. stats' = [stats EXCEPT ![g] = [stats[g] EXCEPT !.conns = stats[g].conns + 1]]
    BY <1>3 DEF IInv, Types
  <2> HIDE DEF g
  <2> QED BY <1>3, <2>2, <2>3, ZenonT(60) DEF IInv, Types
<1> HIDE DEF w
<1> QED BY <1>1, <1>2, <1>4, WorkerMoves DEF IInv, Types

(* The login of run_session keeps IInv: the session is stored in the       *)
(* segment that the worker has mapped.                                     *)
LEMMA LoginInv == ASSUME IInv, NEW c \in Conns, Login(c) PROVE IInv'
<1> USE DEF Login, In
<1> DEFINE w == [wk[c] EXCEPT !.pc = "recv"]
           g == wk[c].segs.store
<1>1. wk[c] \in WorkRec /\ hist \in HistRec BY DEF IInv, Types
<1>2. /\ w \in WorkRec /\ w.pc = "recv" /\ w.server = wk[c].server /\ w.segs = wk[c].segs
      /\ wk' = [wk EXCEPT ![c] = w]
  BY <1>1 DEF WorkRec, WorkPcs, Step
<1>3. g \in Servers BY <1>1 DEF IInv, WorkerInv, WorkRec, Segs, Servers
<1>4. /\ sessions' \in [Servers -> SUBSET Conns] /\ c \in sessions'[g]
      /\ \A h \in Servers : sessions[h] \subseteq sessions'[h]
  <2> HIDE DEF g
  <2>1. sessions' = [sessions EXCEPT ![g] = sessions[g] \union {c}] BY DEF g
  <2>2. /\ sessions'[g] = sessions[g] \union {c}
        /\ \A h \in Servers : h # g => sessions'[h] = sessions[h]
    BY <1>3, <2>1 DEF IInv, Types
  <2>3. sessions[g] \union {c} \in SUBSET Conns BY <1>3 DEF IInv, Types
  <2>4. sessions' \in [Servers -> SUBSET Conns] BY <1>3, <2>1, <2>3 DEF IInv, Types
  <2> QED BY <1>3, <2>2, <2>4
<1> HIDE DEF w
<1> QED BY <1>1, <1>2, <1>4, WorkerMoves DEF IInv, Types

(* Receiving a packet keeps IInv.                                          *)
LEMMA RecvInv == ASSUME IInv, NEW c \in Conns, Recv(c) PROVE IInv'
<1> USE DEF Recv, In, shmVars
<1> DEFINE w == [wk[c] EXCEPT !.pc = "pkt"]
<1>1. wk[c] \in WorkRec /\ hist \in HistRec /\ hist.recvd \in [Conns -> Nat]
  BY DEF IInv, Types, HistRec
<1>2. /\ w \in WorkRec /\ w.pc = "pkt" /\ w.server = wk[c].server /\ w.segs = wk[c].segs
      /\ wk' = [wk EXCEPT ![c] = w]
  BY <1>1 DEF WorkRec, WorkPcs, Step
<1>3. /\ hist' \in HistRec /\ hist'.missed = hist.missed /\ hist'.late = hist.late
      /\ hist'.orderly = hist.orderly
  <2>1. [hist.recvd EXCEPT ![c] = hist.recvd[c] + 1] \in [Conns -> Nat] BY <1>1
  <2>2. hist' = [hist EXCEPT !.recvd = [hist.recvd EXCEPT ![c] = hist.recvd[c] + 1]]
    BY <1>1 DEF HistRec
  <2> QED BY <1>1, <2>1, <2>2 DEF HistRec
<1> HIDE DEF w
<1> QED BY <1>2, <1>3, WorkerMoves, ZenonT(60) DEF IInv, Types

(* ipc_stats_inc_pkt keeps IInv.                                           *)
LEMMA IncPktInv == ASSUME IInv, NEW c \in Conns, IncPkt(c) PROVE IInv'
<1> USE DEF IncPkt, In
<1> DEFINE w == [wk[c] EXCEPT !.pc = "recv"]
           g == wk[c].segs.stats
<1>1. wk[c] \in WorkRec /\ hist \in HistRec BY DEF IInv, Types
<1>2. /\ w \in WorkRec /\ w.pc = "recv" /\ w.server = wk[c].server /\ w.segs = wk[c].segs
      /\ wk' = [wk EXCEPT ![c] = w]
  BY <1>1 DEF WorkRec, WorkPcs, Step
<1>3. g \in Servers BY <1>1 DEF IInv, WorkerInv, WorkRec, Segs, Servers
<1>4. stats' \in [Servers -> Counters]
  <2>1. stats[g] \in Counters BY <1>3 DEF IInv, Types
  <2>2. [stats[g] EXCEPT !.pkts = stats[g].pkts + 1] \in Counters BY <2>1 DEF Counters
  <2>3. stats' = [stats EXCEPT ![g] = [stats[g] EXCEPT !.pkts = stats[g].pkts + 1]]
    BY <1>3 DEF IInv, Types
  <2> HIDE DEF g
  <2> QED BY <1>3, <2>2, <2>3 DEF IInv, Types
<1> HIDE DEF w
<1> QED BY <1>1, <1>2, <1>4, WorkerMoves DEF IInv, Types

(* The server process of a worker is one, and it gets the worker's SIGCHLD.*)
LEMMA EndInv == ASSUME IInv, NEW c \in Conns, wk[c].pc # "none", End(c) PROVE IInv'
<1> DEFINE s == wk[c].server
           pc == IF Alive(s) THEN "zombie" ELSE "gone"
           w == [wk[c] EXCEPT !.pc = pc, !.fds = {}]
           p == main[s].pending \/ (Alive(s) /\ "SIGCHLD" \in main[s].handlers)
           m == [main[s] EXCEPT !.pending = p]
<1>1. s \in Servers /\ wk[c] \in WorkRec /\ hist \in HistRec
  BY DEF IInv, WorkerInv, Types, WorkRec, Servers
<1>2. main[s] \in MainRec BY <1>1 DEF IInv, Types
<1>3. /\ w \in WorkRec /\ w.pc = pc /\ w.server = s /\ w.segs = wk[c].segs
      /\ wk' = [wk EXCEPT ![c] = w]
  <2>1. pc \in WorkPcs BY DEF WorkPcs
  <2>2. wk' = [wk EXCEPT ![c].pc = pc, ![c].fds = {}] BY DEF End
  <2> HIDE DEF pc
  <2> QED BY <1>1, <2>1, <2>2 DEF WorkRec, IInv, Types
<1>4. /\ m \in MainRec /\ m.pending = p /\ m.pc = main[s].pc /\ m.segs = main[s].segs
      /\ m.fds = main[s].fds /\ m.cfd = main[s].cfd /\ m.g_stop = main[s].g_stop
      /\ main' = [main EXCEPT ![s] = m]
  <2>1. p \in BOOLEAN BY <1>2 DEF MainRec
  <2>2. main' = [main EXCEPT ![s].pending = p] BY DEF End
  <2> HIDE DEF p, s
  <2> QED BY <1>1, <1>2, <2>1, <2>2 DEF MainRec, IInv, Types
<1>5. /\ hist' \in HistRec /\ hist'.late = hist.late /\ hist'.orderly = hist.orderly
      /\ hist.missed \subseteq hist'.missed
      /\ "SIGCHLD" \notin main[s].handlers => c \in hist'.missed
  <2>1. CASE "SIGCHLD" \in main[s].handlers BY <1>1, <2>1 DEF End
  <2>2. CASE "SIGCHLD" \notin main[s].handlers
    <3>1. hist.missed \union {c} \in SUBSET Conns BY <1>1 DEF HistRec
    <3>2. hist' = [hist EXCEPT !.missed = hist.missed \union {c}] BY <2>2 DEF End
    <3> QED BY <1>1, <2>2, <3>1, <3>2 DEF HistRec
  <2> QED BY <2>1, <2>2
<1>6. UNCHANGED <<backlog, names, stats, sessions, mon>> BY DEF End, shmVars
<1>7. /\ wk'[c] = w /\ (\A d \in Conns : d # c => wk'[d] = wk[d]) /\ wk' \in [Conns -> WorkRec]
      /\ main'[s] = m /\ (\A r \in Servers : r # s => main'[r] = main[r])
      /\ main' \in [Servers -> MainRec]
  <2> HIDE DEF s, w, m
  <2> QED BY <1>1, <1>3, <1>4 DEF IInv, Types
<1>8. p => Alive(s) BY <1>1, SMTT(60) DEF IInv, MainInv
<1>9. \A r \in Servers : Alive(r)' <=> Alive(r) BY <1>4, <1>7 DEF Alive
<1>10. pc \in {"zombie", "gone"} /\ (pc = "zombie" <=> Alive(s)) OBVIOUS
<1> HIDE DEF w, m, pc
<1>11. Types' BY <1>5, <1>6, <1>7 DEF IInv, Types
<1>12. MainInv'
  <2> HIDE DEF p, s
  <2> QED BY <1>1, <1>4, <1>7, <1>8, <1>9 DEF IInv, MainInv
<1>13. WorkerInv'
  <2> HIDE DEF p, s
  <2> QED BY <1>3, <1>7 DEF IInv, WorkerInv, s
<1>14. StopInv'
  <2> HIDE DEF p, s
  <2> QED BY <1>4, <1>5, <1>7 DEF IInv, StopInv
<1>15. OrderInv'
  <2>1. \A r \in Servers : main'[r].pc = main[r].pc /\ main'[r].segs = main[r].segs BY <1>4, <1>7
  <2>2. ASSUME hist.orderly, NEW d \in Conns, wk'[d].pc # "none"
        PROVE  /\ wk'[d].segs.stats = wk'[d].server /\ wk'[d].segs.store = wk'[d].server
               /\ main'[wk'[d].server].pc \notin {"off", "ssl", "stats", "store"}
    <3>1. wk[d].pc # "none" /\ wk'[d].server = wk[d].server /\ wk'[d].segs = wk[d].segs
      BY <1>3, <1>7, <2>2
    <3>2. wk[d].server \in Servers BY <3>1 DEF IInv, WorkerInv, Types, WorkRec, Servers
    <3> QED BY <2>1, <2>2, <3>1, <3>2 DEF IInv, OrderInv
  <2>3. ASSUME hist.orderly, NEW u \in Servers, NEW r \in 1..(u - 1), main'[u].pc # "off"
        PROVE  main'[r].pc = "exited"
    <3>1. r \in Servers BY ServerAssumption DEF Servers
    <3> QED BY <2>1, <2>3, <3>1 DEF IInv, OrderInv
  <2> HIDE DEF p, s
  <2> QED BY <1>5, <1>6, <2>1, <2>2, <2>3 DEF IInv, OrderInv
<1>16. Reaped'
  <2> SUFFICES ASSUME NEW d \in Conns, wk'[d].pc = "zombie"
               PROVE  main'[wk'[d].server].pending \/ d \in hist'.missed
    BY DEF Reaped, In
  <2>1. CASE d = c
    <3>1. Alive(s) BY <1>3, <1>7, <1>10, <2>1
    <3>2. p \/ c \in hist'.missed BY <1>5, <3>1
    <3> QED BY <1>3, <1>4, <1>7, <2>1, <3>2, ZenonT(60)
  <2>2. CASE d # c
    <3>1. wk'[d] = wk[d] BY <1>7, <2>2
    <3>2. wk[d].server \in Servers BY <3>1 DEF IInv, WorkerInv, Types, WorkRec, Servers
    <3>3. main[wk[d].server].pending \/ d \in hist.missed BY <3>1 DEF IInv, Reaped, In
    <3>4. main[wk[d].server].pending => main'[wk[d].server].pending BY <1>4, <1>7, <3>2
    <3> QED BY <1>5, <3>1, <3>3, <3>4
  <2> QED BY <2>1, <2>2
<1>17. KeptInv' BY <1>3, <1>5, <1>6, <1>7, <1>10 DEF IInv, KeptInv
<1> QED BY <1>11, <1>12, <1>13, <1>14, <1>15, <1>16, <1>17 DEF IInv

(* A new connection in a backlog keeps IInv.                               *)
LEMMA ConnectInv == ASSUME IInv, NEW s \in Servers, Connect(s) PROVE IInv'
<1> USE DEF Connect, shmVars
<1>1. hist \in HistRec /\ hist.arrived + 1 \in Conns /\ hist.arrived + 1 \in 0..MaxConns
  BY ServerAssumption, SMTT(60) DEF IInv, Types, HistRec, Conns
<1>2. backlog' \in [Servers -> Seq(Conns)]
  <2>1. Append(backlog[s], hist.arrived + 1) \in Seq(Conns) BY <1>1 DEF IInv, Types
  <2> QED BY <2>1 DEF IInv, Types
<1>3. /\ hist' \in HistRec /\ hist'.missed = hist.missed /\ hist'.late = hist.late
      /\ hist'.orderly = hist.orderly
  BY <1>1 DEF HistRec
<1>4. Types' BY <1>2, <1>3 DEF IInv, Types
<1>5. MainInv' /\ WorkerInv' /\ StopInv' /\ OrderInv' /\ Reaped' /\ KeptInv'
  BY <1>3 DEF IInv, MainInv, WorkerInv, StopInv, OrderInv, Reaped, KeptInv, Alive, In
<1> QED BY <1>4, <1>5 DEF IInv

(* The monitor keeps IInv: it maps a segment and changes nothing.          *)
LEMMA AttachInv == ASSUME IInv, Attach PROVE IInv'
<1> USE DEF Attach, shmVars
<1>1. Types' BY DEF IInv, Types, Segs
<1>2. MainInv' /\ WorkerInv' /\ StopInv' /\ OrderInv' /\ Reaped' /\ KeptInv'
  BY DEF IInv, MainInv, WorkerInv, StopInv, OrderInv, Reaped, KeptInv, Alive, In
<1> QED BY <1>1, <1>2 DEF IInv

(* A step that changes nothing keeps IInv.                                 *)
LEMMA StutterInv == ASSUME IInv, UNCHANGED vars PROVE IInv'
<1> USE DEF vars
<1>1. Types' BY DEF IInv, Types
<1>2. MainInv' /\ WorkerInv' /\ StopInv' /\ OrderInv' /\ Reaped' /\ KeptInv'
  BY DEF IInv, MainInv, WorkerInv, StopInv, OrderInv, Reaped, KeptInv, Alive, In
<1> QED BY <1>1, <1>2 DEF IInv

(* IInv holds before any server has started.                               *)
LEMMA InitInv == ASSUME Init PROVE IInv
<1> USE DEF Init
<1>0. 0 \in 0..MaxServers /\ 0 \in 0..MaxConns BY ServerAssumption
<1>1. NoSegs \in Segs BY <1>0 DEF Segs, NoSegs
<1>2. main \in [Servers -> MainRec]
  BY <1>0, <1>1 DEF MainRec, MainPcs
<1>3. wk \in [Conns -> WorkRec] BY <1>0, <1>1 DEF WorkRec, WorkPcs
<1>4. hist \in HistRec BY <1>0 DEF HistRec, HistInit
<1>5. stats \in [Servers -> Counters] BY DEF Counters, NoStats
<1>6. Types
  <2>1. backlog \in [Servers -> Seq(Conns)] /\ sessions \in [Servers -> SUBSET Conns] OBVIOUS
  <2> QED BY <1>0, <1>1, <1>2, <1>3, <1>4, <1>5, <2>1 DEF Types
<1>7. MainInv BY DEF MainInv, Serving
<1>8. WorkerInv /\ Reaped /\ KeptInv BY DEF WorkerInv, Reaped, KeptInv, In
<1>9. StopInv BY DEF StopInv, HistInit
<1>10. OrderInv BY DEF OrderInv, HasStats, HasStore, Serving, Stopping, NoSegs, Servers
<1> QED BY <1>6, <1>7, <1>8, <1>9, <1>10 DEF IInv

(* IInv is an inductive invariant of the server.                           *)
LEMMA Invariance == Spec => []IInv
<1>1. Init => IInv BY InitInv
<1>2. IInv /\ [Next]_vars => IInv'
  <2> SUFFICES ASSUME IInv, [Next]_vars PROVE IInv' OBVIOUS
  <2>1. ASSUME NEW s \in Servers, Start(s) \/ MainStep(s) \/ Connect(s) PROVE IInv'
    BY <2>1, StartInv, SslInitInv, StatsInitInv, StoreInitInv, TcpListenInv, LoopTestInv, AcceptInv,
       ForkInv, CloseCfdInv, CloseLfdInv, UnlinkStatsInv, UnlinkStoreInv, SigchldInv, ConnectInv
       DEF MainStep
  <2>2. ASSUME NEW sig \in Signals, Stop(sig[1], sig[2]) PROVE IInv'
    <3>1. sig[1] \in Servers /\ sig[2] \in {"SIGINT", "SIGTERM"} BY ServerAssumption DEF Servers
    <3> QED BY <2>2, <3>1, StopSignalInv
  <2>3. ASSUME NEW c \in Conns, WorkerStep(c) \/ Login(c) \/ Recv(c) \/ SessionEnds(c) PROVE IInv'
    <3>1. SslFails(c) \/ SessionEnds(c) => wk[c].pc # "none" /\ End(c) BY DEF SslFails, SessionEnds, In
    <3> QED BY <2>3, <3>1, ChildStartsInv, SslAcceptInv, IncConnInv, IncPktInv, LoginInv, RecvInv, EndInv
         DEF WorkerStep
  <2>4. CASE Attach BY <2>4, AttachInv
  <2>5. CASE UNCHANGED vars BY <2>5, StutterInv
  <2> QED BY <2>1, <2>2, <2>3, <2>4, <2>5 DEF Next
<1> QED BY <1>1, <1>2, PTL DEF Spec

(* Every variable of the server keeps its type, and a main process that    *)
(* does not run has no open descriptor.                                    *)
THEOREM TypeCorrect == Spec => []TypeOK
<1>1. IInv => TypeOK
  <2> SUFFICES ASSUME IInv PROVE TypeOK OBVIOUS
  <2>1. ASSUME NEW s \in Servers
        PROVE  /\ main[s].g_stop \in BOOLEAN /\ main[s].pending \in BOOLEAN
               /\ main[s].handlers \subseteq {"SIGINT", "SIGTERM", "SIGCHLD"}
               /\ main[s].fds \subseteq Sockets /\ main[s].cfd \in 0..MaxConns
               /\ main[s].segs \in [Parts -> 0..MaxServers]
               /\ stats[s] \in Counters /\ sessions[s] \subseteq Conns
               /\ Alive(s) \/ main[s].fds = {}
    <3>1. main[s] \in MainRec /\ main[s].segs \in Segs BY DEF IInv, Types, MainRec
    <3>2. Alive(s) \/ main[s].fds = {} BY DEF IInv, MainInv, Alive, Serving
    <3> QED BY <3>1, <3>2, SegsAreFunctions DEF IInv, Types, MainRec
  <2>2. ASSUME NEW c \in Conns
        PROVE  wk[c].fds \subseteq Sockets /\ wk[c].segs \in [Parts -> 0..MaxServers]
    <3>1. wk[c].fds \subseteq Sockets /\ wk[c].segs \in Segs BY DEF IInv, Types, WorkRec
    <3> QED BY <3>1, SegsAreFunctions
  <2>3. names \in [Parts -> 0..MaxServers] /\ mon \in 0..MaxServers
    BY SegsAreFunctions DEF IInv, Types
  <2> QED BY <2>1, <2>2, <2>3 DEF TypeOK
<1> QED BY <1>1, Invariance, PTL

(* After on_sigint has run, main accepts at most one more connection,      *)
(* whatever signals, connections and ended workers come in between.        *)
THEOREM StopTheorem == Spec => []OneMoreAtMost
<1>1. IInv => OneMoreAtMost BY DEF IInv, StopInv, OneMoreAtMost
<1> QED BY <1>1, Invariance, PTL

(* on_sigchld leaves no worker behind that ended before it ran.            *)
THEOREM ReapedTheorem == Spec => []Reaped
<1>1. IInv => Reaped BY DEF IInv
<1> QED BY <1>1, Invariance, PTL

(* No later server zeroes the segment that holds the session of a worker,  *)
(* as long as each server starts after the previous ones have returned.    *)
THEOREM KeptTheorem == Spec => []SessionsKept
<1>1. IInv => SessionsKept BY DEF IInv, KeptInv, SessionsKept, In
<1> QED BY <1>1, Invariance, PTL

(* While a server listens, both names lead to the segments it has mapped.  *)
THEOREM MonitorTheorem == Spec => []MonitorFindsServer
<1>1. IInv => MonitorFindsServer
  <2> SUFFICES ASSUME IInv, hist.orderly, NEW s \in Servers, Listen(s) \in main[s].fds
               PROVE  names = main[s].segs
    BY DEF MonitorFindsServer
  <2>1. main[s].pc \in Serving BY DEF IInv, MainInv
  <2>2. /\ main[s].segs.stats = names.stats
        /\ main[s].segs.store = names.store
    BY <2>1 DEF IInv, OrderInv, HasStats, HasStore
  <2>3. names \in Segs /\ main[s].segs \in Segs BY DEF IInv, Types, MainRec
  <2> QED BY <2>2, <2>3 DEF Segs
<1> QED BY <1>1, Invariance, PTL
-----------------------------------------------------------------------------
(***************************************************************************)
(* The counters.  A connection is on its way to one worker only (FlowInv), *)
(* so that the events of a worker follow its program counter (EventInv),   *)
(* and each event is counted once in the segment of its server (CountInv). *)
(***************************************************************************)
FlowInv ==
  /\ \A c \in Conns : c > hist.arrived => wk[c].pc = "none"
  /\ \A s \in Servers : \A i \in 1..Len(backlog[s]) :
       backlog[s][i] <= hist.arrived /\ wk[backlog[s][i]].pc = "none"
  /\ \A s, r \in Servers : \A i \in 1..Len(backlog[s]), j \in 1..Len(backlog[r]) :
       backlog[s][i] = backlog[r][j] => s = r /\ i = j
  /\ \A s \in Servers : main[s].pc = "fork" =>
       /\ main[s].cfd <= hist.arrived /\ wk[main[s].cfd].pc = "none"
       /\ \A r \in Servers : \A i \in 1..Len(backlog[r]) : backlog[r][i] # main[s].cfd
  /\ \A s, r \in Servers :
       main[s].pc = "fork" /\ main[r].pc = "fork" /\ main[s].cfd = main[r].cfd => s = r

EventInv ==
  \A c \in Conns :
    /\ wk[c].pc \in {"none", "child", "tls"} => c \notin hist.tls
    /\ wk[c].pc \in {"count", "login", "recv", "pkt"} \/ hist.recvd[c] # 0 => c \in hist.tls
    /\ wk[c].pc \in {"none", "child", "tls", "count", "login"} => hist.recvd[c] = 0
    /\ wk[c].pc = "pkt" => hist.recvd[c] # 0
    /\ hist.recvd[c] <= MaxPkts

CountInv ==
  hist.orderly =>
    \A s \in Servers :
      /\ main[s].segs.stats \in {0, s}
      /\ main[s].segs.stats = s =>
           /\ stats[s].conns = Cardinality(CountedConns(s))
           /\ stats[s].pkts = Cardinality(CountedPkts(s))

CInv == FlowInv /\ EventInv /\ CountInv

(* A step that counts nothing, moves no connection and starts no server.   *)
Quiet ==
  /\ backlog' = backlog /\ stats' = stats
  /\ hist'.arrived = hist.arrived /\ hist'.tls = hist.tls /\ hist'.recvd = hist.recvd
  /\ hist'.orderly => hist.orderly
  /\ \A c \in Conns :
       /\ wk'[c].server = wk[c].server
       /\ wk'[c].pc # wk[c].pc =>
            /\ wk[c].pc \notin {"none", "count", "pkt"}
            /\ wk'[c].pc \notin {"none", "child", "count", "login", "pkt"}
            /\ wk'[c].pc = "tls" => wk[c].pc = "child"
            /\ wk'[c].pc = "recv" => wk[c].pc = "login"
  /\ \A s \in Servers :
       /\ main'[s].pc = "fork" => main[s].pc = "fork" /\ main'[s].cfd = main[s].cfd
       /\ main'[s].segs.stats = main[s].segs.stats

(* A quiet step keeps the three parts of CInv.                             *)
LEMMA QuietStep == ASSUME IInv, CInv, Quiet PROVE CInv'
<1>1. FlowInv'
  <2>1. \A s \in Servers : \A i \in 1..Len(backlog[s]) : backlog[s][i] \in Conns
    BY DEF IInv, Types
  <2>2. \A s \in Servers : main[s].pc = "fork" => main[s].cfd \in Conns
    BY DEF IInv, Types, MainInv, MainRec, Conns
  <2> QED BY <2>1, <2>2 DEF CInv, FlowInv, Quiet
<1>2. EventInv' BY DEF CInv, EventInv, Quiet
<1>3. ASSUME NEW s \in Servers
      PROVE  CountedConns(s)' = CountedConns(s) /\ CountedPkts(s)' = CountedPkts(s)
  <2>1. CountedConns(s)' = CountedConns(s) BY DEF CountedConns, In, Quiet
  <2>2. \A p \in Conns \X (1..MaxPkts) : p \in CountedPkts(s)' <=> p \in CountedPkts(s)
    BY DEF CountedPkts, In, Quiet
  <2> QED BY <2>1, <2>2 DEF CountedPkts
<1>4. CountInv' BY <1>3 DEF CInv, CountInv, Quiet
<1> QED BY <1>1, <1>2, <1>4 DEF CInv

(* Most steps of a main process are quiet.                                 *)
LEMMA QuietMain ==
  ASSUME IInv, NEW s \in Servers,
         Start(s) \/ SslInit(s) \/ StoreInit(s) \/ (StatsInit(s) /\ ~MapStats(s)) \/ TcpListen(s)
           \/ LoopTest(s) \/ CloseCfd(s) \/ CloseLfd(s) \/ UnlinkStats(s) \/ UnlinkStore(s) \/ Sigchld(s)
           \/ \E sig \in {"SIGINT", "SIGTERM"} : Stop(s, sig)
  PROVE  Quiet
<1>1. /\ main \in [Servers -> MainRec] /\ wk \in [Conns -> WorkRec] /\ hist \in HistRec
      /\ main[s].segs \in Segs
  BY DEF IInv, Types, MainRec
<1>2. backlog' = backlog /\ stats' = stats
  BY DEF Start, SslInit, StatsInit, StoreInit, MapStore, InitFails, TcpListen, LoopTest, CloseCfd, CloseLfd, UnlinkStats,
         UnlinkStore, Sigchld, Stop, shmVars
<1>3. /\ hist'.arrived = hist.arrived /\ hist'.tls = hist.tls /\ hist'.recvd = hist.recvd
      /\ hist'.orderly => hist.orderly
  BY <1>1 DEF Start, SslInit, StatsInit, StoreInit, MapStore, InitFails, TcpListen, LoopTest, CloseCfd, CloseLfd, UnlinkStats,
         UnlinkStore, Sigchld, Stop, HistRec
<1>4. \A c \in Conns :
        wk'[c] = wk[c] \/ (wk[c].pc = "zombie" /\ wk'[c] = [wk[c] EXCEPT !.pc = "gone"])
  BY DEF Start, SslInit, StatsInit, StoreInit, MapStore, InitFails, TcpListen, LoopTest, CloseCfd, CloseLfd, UnlinkStats,
         UnlinkStore, Sigchld, Stop, Exit
<1>5. \A c \in Conns : /\ wk'[c].server = wk[c].server
                       /\ wk'[c].pc = wk[c].pc \/ (wk[c].pc = "zombie" /\ wk'[c].pc = "gone")
  <2>1. ASSUME NEW c \in Conns, wk'[c] = [wk[c] EXCEPT !.pc = "gone"]
        PROVE  wk'[c].server = wk[c].server /\ wk'[c].pc = "gone"
    <3>1. wk[c] \in WorkRec BY <1>1
    <3> QED BY <2>1, <3>1 DEF WorkRec
  <2> QED BY <1>4, <2>1
<1>6. \A r \in Servers : r # s => main'[r] = main[r]
  BY <1>1 DEF Start, SslInit, StatsInit, StoreInit, MapStore, InitFails, TcpListen, LoopTest, CloseCfd, CloseLfd, UnlinkStats,
         UnlinkStore, Sigchld, Stop, Exit, Goto
<1>7. /\ main'[s].segs.stats = main[s].segs.stats
      /\ main'[s].pc = "fork" => main[s].pc = "fork" /\ main'[s].cfd = main[s].cfd
  <2>1. CASE MapStore(s) BY <1>1, <2>1 DEF MapStore, MainRec, Segs
  <2>2. ASSUME NEW pc \in Dead, Exit(s, pc) PROVE main'[s].pc = pc /\ main'[s].segs = main[s].segs
    BY <1>1, <2>2 DEF Exit, MainRec
  <2>3. ASSUME NEW pc, Goto(s, pc) PROVE main'[s].pc = pc /\ main'[s].segs = main[s].segs
    BY <1>1, <2>3 DEF Goto, MainRec
  <2>4. CASE Start(s) BY <1>1, <2>4 DEF Start, MainRec
  <2>5. CASE LoopTest(s) BY <2>3, <2>5 DEF LoopTest
  <2>6. CASE CloseCfd(s) BY <1>1, <2>6 DEF CloseCfd, MainRec
  <2>7. CASE CloseLfd(s) BY <1>1, <2>7 DEF CloseLfd, MainRec
  <2>8. CASE UnlinkStats(s) BY <2>3, <2>8 DEF UnlinkStats
  <2>9. CASE UnlinkStore(s) BY <2>2, <2>9 DEF UnlinkStore, Dead
  <2>10. CASE SslInit(s) BY <2>2, <2>3, <2>10 DEF SslInit, Dead
  <2>11. CASE TcpListen(s)
    <3>1. CASE Exit(s, "failed") BY <2>2, <3>1 DEF Dead
    <3>2. CASE main' = [main EXCEPT ![s].fds = {Listen(s)}, ![s].pc = "test"]
      BY <1>1, <3>2 DEF MainRec
    <3> QED BY <2>11, <3>1, <3>2 DEF TcpListen
  <2>12. CASE Sigchld(s) BY <1>1, <2>12 DEF Sigchld, Handled, MainRec
  <2>13. ASSUME NEW sig \in {"SIGINT", "SIGTERM"}, Stop(s, sig)
         PROVE  /\ main'[s].segs.stats = main[s].segs.stats
                /\ main'[s].pc = "fork" => main[s].pc = "fork" /\ main'[s].cfd = main[s].cfd
    <3>1. CASE Exit(s, "killed") BY <2>2, <3>1 DEF Dead
    <3>2. CASE main' = [main EXCEPT ![s] = [Handled(s, sig) EXCEPT !.g_stop = TRUE]]
      BY <1>1, <3>2 DEF Handled, MainRec
    <3> QED BY <2>13, <3>1, <3>2 DEF Stop
  <2>14. CASE Exit(s, "failed") BY <2>2, <2>14 DEF Dead
  <2> QED BY <2>1, <2>14, <2>4, <2>5, <2>6, <2>7, <2>8, <2>9, <2>10, <2>11, <2>12, <2>13
       DEF StoreInit, StatsInit, InitFails
<1> QED BY <1>2, <1>3, <1>5, <1>6, <1>7 DEF Quiet

(* A worker that starts, logs in or ends does so quietly.                  *)
LEMMA QuietWorker ==
  ASSUME IInv, NEW c \in Conns, ChildStarts(c) \/ Login(c) \/ SslFails(c) \/ SessionEnds(c)
  PROVE  Quiet
<1>1. /\ main \in [Servers -> MainRec] /\ wk \in [Conns -> WorkRec] /\ hist \in HistRec
  BY DEF IInv, Types
<1>2. backlog' = backlog /\ stats' = stats
  BY SMTT(60) DEF ChildStarts, Login, SslFails, SessionEnds, End, shmVars
<1>3. /\ hist'.arrived = hist.arrived /\ hist'.tls = hist.tls /\ hist'.recvd = hist.recvd
      /\ hist'.orderly => hist.orderly
  BY <1>1 DEF ChildStarts, Login, SslFails, SessionEnds, End, HistRec
<1>4. \A d \in Conns : d # c => wk'[d] = wk[d]
  BY <1>1 DEF ChildStarts, Login, SslFails, SessionEnds, End, Step
<1>5. /\ wk'[c].server = wk[c].server /\ wk[c].pc \in {"child", "login", "tls", "recv"}
      /\ \/ wk'[c].pc \in {"zombie", "gone"}
         \/ wk[c].pc = "child" /\ wk'[c].pc = "tls"
         \/ wk[c].pc = "login" /\ wk'[c].pc = "recv"
  BY <1>1 DEF ChildStarts, Login, SslFails, SessionEnds, End, Step, WorkRec, In
<1>6. \A r \in Servers : /\ main'[r].pc = main[r].pc /\ main'[r].cfd = main[r].cfd
                         /\ main'[r].segs = main[r].segs
  BY <1>1 DEF ChildStarts, Login, SslFails, SessionEnds, End, MainRec
<1> QED BY <1>2, <1>3, <1>4, <1>5, <1>6 DEF Quiet

(* The counted events of a server are finitely many, and one more event    *)
(* is one more element.                                                    *)
LEMMA CountedFinite ==
  ASSUME NEW s \in Servers
  PROVE  IsFiniteSet(CountedConns(s)) /\ IsFiniteSet(CountedPkts(s))
<1>1. IsFiniteSet(Conns) /\ IsFiniteSet(1..MaxPkts) BY ServerAssumption, FS_Interval DEF Conns
<1>2. IsFiniteSet(Conns \X (1..MaxPkts)) BY <1>1, FS_Product
<1>3. CountedConns(s) \subseteq Conns /\ CountedPkts(s) \subseteq Conns \X (1..MaxPkts)
  BY DEF CountedConns, CountedPkts
<1> QED BY <1>1, <1>2, <1>3, FS_Subset

(* ipc_stats_init(1) zeroes the counters of a server that has no workers   *)
(* yet.                                                                    *)
LEMMA StatsInitCount == ASSUME IInv, CInv, NEW s \in Servers, StatsInit(s), MapStats(s) PROVE CInv'
<1> USE DEF StatsInit, MapStats, At
<1> DEFINE g == Opened(s, "stats")
<1>1. main \in [Servers -> MainRec] /\ main[s].segs \in Segs /\ stats \in [Servers -> Counters]
  BY DEF IInv, Types, MainRec
<1>2. /\ \A r \in Servers : r # s => main'[r] = main[r]
      /\ main'[s].pc = "store" /\ main'[s].segs.stats = g
  BY <1>1 DEF MainRec, Segs
<1>3. FlowInv'
  <2>1. /\ \A r \in Servers : main'[r].pc = "fork" => main[r].pc = "fork" /\ main'[r].cfd = main[r].cfd
        /\ UNCHANGED <<backlog, wk, hist>>
    BY <1>2
  <2> HIDE DEF StatsInit, MapStats, At
  <2> QED BY <2>1 DEF CInv, FlowInv
<1>4. EventInv' BY DEF CInv, EventInv
<1>5. CountInv'
  <2> SUFFICES ASSUME hist.orderly PROVE CountInv' BY DEF CountInv
  <2>1. ASSUME NEW r \in Servers PROVE names.stats # r
    <3>1. CASE r # s
      <4>1. main[r].pc \in {"off", "exited"} BY <3>1, Alone
      <4> QED BY <4>1 DEF IInv, OrderInv, HasStats, Serving
    <3>2. CASE r = s BY <3>2 DEF IInv, OrderInv, HasStats, Serving
    <3> QED BY <3>1, <3>2
  <2>2. g = s BY <2>1 DEF IInv, Types, Segs, Servers, Opened
  <2>3. stats'[s] = NoStats /\ \A r \in Servers : r # s => stats'[r] = stats[r] BY <1>1, <2>2
  <2>4. CountedConns(s) = {} /\ CountedPkts(s) = {}
    <3>1. ASSUME NEW c \in Conns, wk[c].server = s PROVE c \notin hist.tls /\ hist.recvd[c] = 0
      <4>1. wk[c].pc = "none" BY <3>1 DEF IInv, OrderInv
      <4> QED BY <4>1 DEF CInv, EventInv
    <3>2. CountedConns(s) = {} BY <3>1 DEF CountedConns
    <3>3. ASSUME NEW p \in CountedPkts(s) PROVE FALSE
      <4>1. /\ p[1] \in Conns /\ p[2] \in 1..MaxPkts /\ wk[p[1]].server = s
            /\ p[2] <= hist.recvd[p[1]] \/ p[2] < hist.recvd[p[1]]
        BY DEF CountedPkts
      <4> QED BY <3>1, <4>1
    <3> QED BY <3>2, <3>3
  <2>5. \A r \in Servers : CountedConns(r)' = CountedConns(r) /\ CountedPkts(r)' = CountedPkts(r)
    BY DEF CountedConns, CountedPkts, In
  <2>6. ASSUME NEW r \in Servers
        PROVE  /\ main'[r].segs.stats \in {0, r}
               /\ main'[r].segs.stats = r =>
                    /\ stats'[r].conns = Cardinality(CountedConns(r)')
                    /\ stats'[r].pkts = Cardinality(CountedPkts(r)')
    <3> HIDE DEF g
    <3>1. CASE r # s
      <4>1. /\ main[r].segs.stats \in {0, r}
            /\ main[r].segs.stats = r =>
                 /\ stats[r].conns = Cardinality(CountedConns(r))
                 /\ stats[r].pkts = Cardinality(CountedPkts(r))
        BY DEF CInv, CountInv
      <4>2. main'[r].segs = main[r].segs /\ stats'[r] = stats[r] BY <1>2, <2>3, <3>1
      <4> QED BY <2>5, <4>1, <4>2
    <3>2. CASE r = s
      <4>1. Cardinality({}) = 0 BY FS_EmptySet
      <4>2. CountedConns(r)' = {} /\ CountedPkts(r)' = {} BY <2>4, <2>5, <3>2
      <4>3. stats'[r].conns = 0 /\ stats'[r].pkts = 0 BY <2>3, <3>2 DEF NoStats
      <4> QED BY <1>2, <2>2, <3>2, <4>1, <4>2, <4>3
    <3> QED BY <3>1, <3>2
  <2> QED BY <2>6 DEF CountInv
<1> QED BY <1>3, <1>4, <1>5 DEF CInv

(* accept() takes a connection from one backlog, and only main[s] holds it *)
(* then.                                                                   *)
LEMMA AcceptCount == ASSUME IInv, CInv, NEW s \in Servers, Accept(s) PROVE CInv'
<1> USE DEF Accept, At, shmVars
<1> DEFINE c == Head(backlog[s])
<1>1. /\ main \in [Servers -> MainRec] /\ main[s] \in MainRec /\ hist \in HistRec
      /\ backlog \in [Servers -> Seq(Conns)] /\ backlog[s] \in Seq(Conns)
  BY DEF IInv, Types
<1>2. /\ \A r \in Servers : r # s => main'[r] = main[r] /\ backlog'[r] = backlog[r]
      /\ main'[s].pc = "fork" /\ main'[s].cfd = c /\ main'[s].segs = main[s].segs
  BY <1>1 DEF MainRec
<1>3. /\ Len(backlog[s]) > 0 /\ c = backlog[s][1] /\ c \in Conns
      /\ Len(backlog'[s]) = Len(backlog[s]) - 1
      /\ \A i \in 1..Len(backlog'[s]) : backlog'[s][i] = backlog[s][i + 1] /\ i + 1 \in 1..Len(backlog[s])
  BY <1>1
<1>4. /\ hist'.arrived = hist.arrived /\ hist'.tls = hist.tls /\ hist'.recvd = hist.recvd
      /\ hist'.orderly = hist.orderly
  BY <1>1 DEF HistRec
<1>5. /\ 1 \in 1..Len(backlog[s]) /\ c <= hist.arrived /\ wk[c].pc = "none"
  BY <1>1, <1>3 DEF CInv, FlowInv
<1> HIDE DEF c
<1>6. ASSUME NEW r \in Servers, NEW i \in 1..Len(backlog'[r])
      PROVE  \E j \in 1..Len(backlog[r]) : backlog'[r][i] = backlog[r][j] /\ (r = s => j = i + 1) /\ (r # s => j = i)
  BY <1>1, <1>2, <1>3
<1>7. FlowInv'
  <2>1. ASSUME NEW r \in Servers, NEW i \in 1..Len(backlog'[r])
        PROVE  /\ backlog'[r][i] <= hist'.arrived /\ wk'[backlog'[r][i]].pc = "none"
               /\ backlog'[r][i] # c
    <3>1. PICK j \in 1..Len(backlog[r]) : backlog'[r][i] = backlog[r][j] /\ (r = s => j = i + 1)
      BY <1>6, SMTT(60)
    <3>2. ~(r = s /\ j = 1) BY <1>2, <1>3, <3>1
    <3>3. backlog[r][j] # c BY <1>3, <1>5, <3>2 DEF CInv, FlowInv
    <3>4. backlog[r][j] <= hist.arrived /\ wk[backlog[r][j]].pc = "none" BY DEF CInv, FlowInv
    <3> QED BY <1>4, <3>1, <3>3, <3>4
  <2>2. ASSUME NEW u \in Servers, NEW r \in Servers, NEW i \in 1..Len(backlog'[u]),
               NEW j \in 1..Len(backlog'[r]), backlog'[u][i] = backlog'[r][j]
        PROVE  u = r /\ i = j
    <3>1. PICK k \in 1..Len(backlog[u]) :
            backlog'[u][i] = backlog[u][k] /\ (u = s => k = i + 1) /\ (u # s => k = i) BY <1>6
    <3>2. PICK l \in 1..Len(backlog[r]) :
            backlog'[r][j] = backlog[r][l] /\ (r = s => l = j + 1) /\ (r # s => l = j) BY <1>6
    <3>3. u = r /\ k = l BY <2>2, <3>1, <3>2, SMTT(60) DEF CInv, FlowInv
    <3>4. Len(backlog'[u]) \in Nat
      BY <1>1, <1>2, <1>3
    <3> QED BY <3>1, <3>2, <3>3, <3>4
  <2>3. ASSUME NEW u \in Servers, main'[u].pc = "fork", u # s
        PROVE  /\ main[u].pc = "fork" /\ main'[u].cfd = main[u].cfd /\ main[u].cfd # c
               /\ main'[u].cfd <= hist'.arrived /\ wk'[main'[u].cfd].pc = "none"
               /\ \A r \in Servers : \A i \in 1..Len(backlog'[r]) : backlog'[r][i] # main'[u].cfd
    <3>1. main'[u] = main[u] /\ main[u].pc = "fork" BY <1>2, <2>3
    <3>2. \A r \in Servers : \A i \in 1..Len(backlog[r]) : backlog[r][i] # main[u].cfd
      BY <3>1 DEF CInv, FlowInv
    <3>3. main[u].cfd <= hist.arrived /\ wk[main[u].cfd].pc = "none" BY <3>1 DEF CInv, FlowInv
    <3>4. ASSUME NEW r \in Servers, NEW i \in 1..Len(backlog'[r]) PROVE backlog'[r][i] # main[u].cfd
      <4>1. PICK j \in 1..Len(backlog[r]) : backlog'[r][i] = backlog[r][j] BY <1>6
      <4> QED BY <3>2, <4>1
    <3> QED BY <1>3, <1>4, <1>5, <3>1, <3>2, <3>3, <3>4
  <2>4. \A u, r \in Servers :
          main'[u].pc = "fork" /\ main'[r].pc = "fork" /\ main'[u].cfd = main'[r].cfd => u = r
    BY <1>2, <2>3 DEF CInv, FlowInv
  <2>5. ASSUME NEW u \in Servers, main'[u].pc = "fork"
        PROVE  /\ main'[u].cfd <= hist'.arrived /\ wk'[main'[u].cfd].pc = "none"
               /\ \A r \in Servers : \A i \in 1..Len(backlog'[r]) : backlog'[r][i] # main'[u].cfd
    BY <1>2, <1>4, <1>5, <2>1, <2>3, <2>5
  <2>6. \A d \in Conns : d > hist'.arrived => wk'[d].pc = "none" BY <1>4 DEF CInv, FlowInv
  <2> QED BY <2>1, <2>2, <2>4, <2>5, <2>6 DEF FlowInv
<1>8. EventInv' BY <1>4 DEF CInv, EventInv
<1>9. CountInv'
  <2>1. \A r \in Servers : CountedConns(r)' = CountedConns(r) /\ CountedPkts(r)' = CountedPkts(r)
    BY <1>4 DEF CountedConns, CountedPkts, In
  <2>2. \A r \in Servers : main'[r].segs = main[r].segs BY <1>2
  <2> QED BY <1>4, <2>1, <2>2 DEF CInv, CountInv
<1> QED BY <1>7, <1>8, <1>9 DEF CInv

(* fork() starts the worker of a connection that had none, with no events. *)
LEMMA ForkCount == ASSUME IInv, CInv, NEW s \in Servers, Fork(s) PROVE CInv'
<1> USE DEF Fork, At, shmVars
<1> DEFINE c == main[s].cfd
<1>1. /\ main \in [Servers -> MainRec] /\ main[s] \in MainRec /\ wk \in [Conns -> WorkRec]
      /\ c \in Conns /\ UNCHANGED <<backlog, stats, hist>>
  BY DEF IInv, Types, MainInv, MainRec, Conns
<1>2. /\ \A r \in Servers : r # s => main'[r] = main[r]
      /\ main'[s].pc = "forked" /\ main'[s].segs = main[s].segs
  BY <1>1 DEF Goto, MainRec
<1>3. /\ \A d \in Conns : d # c => wk'[d] = wk[d]
      /\ wk'[c] = wk[c] \/ wk'[c].pc = "child"
  BY <1>1
<1>4. /\ wk[c].pc = "none" /\ c <= hist.arrived
      /\ \A r \in Servers : \A i \in 1..Len(backlog[r]) : backlog[r][i] # c
      /\ \A r \in Servers : r # s /\ main[r].pc = "fork" => main[r].cfd # c
  BY DEF CInv, FlowInv
<1>5. c \notin hist.tls /\ hist.recvd[c] = 0 BY <1>1, <1>4 DEF CInv, EventInv
<1> HIDE DEF c
<1>6. FlowInv'
  <2>1. \A r \in Servers : \A i \in 1..Len(backlog[r]) : backlog[r][i] \in Conns
    BY DEF IInv, Types
  <2>2. \A r \in Servers : main'[r].pc = "fork" =>
          /\ r # s /\ main[r].pc = "fork" /\ main'[r].cfd = main[r].cfd
          /\ main[r].cfd \in Conns /\ main[r].cfd # c
    BY <1>2, <1>4 DEF IInv, Types, MainInv, MainRec, Conns
  <2>3. \A r \in Servers : \A i \in 1..Len(backlog[r]) : wk'[backlog[r][i]].pc = "none"
    BY <1>3, <1>4, <2>1 DEF CInv, FlowInv
  <2>4. \A r \in Servers : main'[r].pc = "fork" =>
          /\ main'[r].cfd <= hist.arrived /\ wk'[main'[r].cfd].pc = "none"
          /\ \A u \in Servers : \A i \in 1..Len(backlog[u]) : backlog[u][i] # main'[r].cfd
    BY <1>3, <2>2 DEF CInv, FlowInv
  <2>5. \A d \in Conns : d > hist.arrived => wk'[d].pc = "none"
    <3>1. c \in Nat /\ hist.arrived \in Nat BY <1>1 DEF Conns, IInv, Types, HistRec
    <3> QED BY <1>3, <1>4, <3>1 DEF CInv, FlowInv
  <2> QED BY <1>1, <2>2, <2>3, <2>4, <2>5 DEF CInv, FlowInv
<1>7. EventInv'
  <2> SUFFICES ASSUME NEW d \in Conns
               PROVE  /\ wk'[d].pc \in {"none", "child", "tls"} => d \notin hist.tls
                      /\ wk'[d].pc \in {"count", "login", "recv", "pkt"} \/ hist.recvd[d] # 0 =>
                           d \in hist.tls
                      /\ wk'[d].pc \in {"none", "child", "tls", "count", "login"} => hist.recvd[d] = 0
                      /\ wk'[d].pc = "pkt" => hist.recvd[d] # 0
                      /\ hist.recvd[d] <= MaxPkts
    BY <1>1 DEF EventInv
  <2>1. CASE d = c BY <1>1, <1>3, <1>4, <1>5, <2>1 DEF CInv, EventInv
  <2>2. CASE d # c BY <1>3, <2>2 DEF CInv, EventInv
  <2> QED BY <2>1, <2>2
<1>8. ASSUME NEW r \in Servers
      PROVE  CountedConns(r)' = CountedConns(r) /\ CountedPkts(r)' = CountedPkts(r)
  <2>1. CountedConns(r)' = CountedConns(r) BY <1>1, <1>3, <1>5 DEF CountedConns, In
  <2>2. ASSUME NEW p \in Conns \X (1..MaxPkts) PROVE p \in CountedPkts(r)' <=> p \in CountedPkts(r)
    <3>1. p[1] \in Conns /\ p[2] \in 1..MaxPkts OBVIOUS
    <3>2. CASE p[1] = c BY <1>1, <1>5, <3>1, <3>2 DEF CountedPkts
    <3>3. CASE p[1] # c BY <1>1, <1>3, <3>1, <3>3 DEF CountedPkts, In
    <3> QED BY <3>2, <3>3
  <2> QED BY <2>1, <2>2 DEF CountedPkts
<1>9. CountInv'
  <2>1. \A r \in Servers : main'[r].segs = main[r].segs BY <1>2
  <2> QED BY <1>1, <1>8, <2>1 DEF CInv, CountInv
<1> QED BY <1>6, <1>7, <1>9 DEF CInv

(* A worker that moves on keeps the connections that wait.                 *)
LEMMA WorkerFlow ==
  ASSUME IInv, CInv, NEW c \in Conns, wk[c].pc # "none", \A d \in Conns : d # c => wk'[d] = wk[d],
         UNCHANGED <<main, backlog>>, hist'.arrived = hist.arrived
  PROVE  FlowInv'
<1>1. \A r \in Servers : \A i \in 1..Len(backlog[r]) : backlog[r][i] \in Conns /\ backlog[r][i] # c
  BY DEF IInv, Types, CInv, FlowInv
<1>2. \A r \in Servers : main[r].pc = "fork" => main[r].cfd \in Conns /\ main[r].cfd # c
  BY DEF IInv, Types, MainInv, MainRec, Conns, CInv, FlowInv
<1> QED BY <1>1, <1>2 DEF CInv, FlowInv

(* A handshake is an event that is not counted yet.                        *)
LEMMA SslAcceptCount == ASSUME IInv, CInv, NEW c \in Conns, SslAccept(c) PROVE CInv'
<1> USE DEF SslAccept, In, shmVars
<1>1. wk \in [Conns -> WorkRec] /\ hist \in HistRec BY DEF IInv, Types
<1>2. /\ \A d \in Conns : d # c => wk'[d] = wk[d]
      /\ wk'[c].pc = "count" /\ wk'[c].server = wk[c].server
  BY <1>1 DEF Step, WorkRec
<1>3. /\ hist'.arrived = hist.arrived /\ hist'.tls = hist.tls \union {c}
      /\ hist'.recvd = hist.recvd /\ hist'.orderly = hist.orderly
  BY <1>1 DEF HistRec
<1>4. c \notin hist.tls /\ hist.recvd[c] = 0 BY DEF CInv, EventInv
<1>5. FlowInv' BY <1>2, <1>3, WorkerFlow
<1>6. EventInv' BY <1>2, <1>3, <1>4 DEF CInv, EventInv
<1>7. ASSUME NEW r \in Servers
      PROVE  CountedConns(r)' = CountedConns(r) /\ CountedPkts(r)' = CountedPkts(r)
  <2>1. CountedConns(r)' = CountedConns(r) BY <1>2, <1>3, <1>4 DEF CountedConns
  <2>2. ASSUME NEW p \in Conns \X (1..MaxPkts) PROVE p \in CountedPkts(r)' <=> p \in CountedPkts(r)
    <3>1. p[1] \in Conns /\ p[2] \in 1..MaxPkts OBVIOUS
    <3>2. CASE p[1] = c BY <1>3, <1>4, <3>1, <3>2 DEF CountedPkts
    <3>3. CASE p[1] # c BY <1>2, <1>3, <3>1, <3>3 DEF CountedPkts
    <3> QED BY <3>2, <3>3
  <2> QED BY <2>1, <2>2 DEF CountedPkts
<1>8. CountInv' BY <1>3, <1>7 DEF CInv, CountInv
<1> QED BY <1>5, <1>6, <1>8 DEF CInv

(* A packet received is an event that is not counted yet.                  *)
LEMMA RecvCount == ASSUME IInv, CInv, NEW c \in Conns, Recv(c) PROVE CInv'
<1> USE DEF Recv, In, shmVars
<1>1. wk \in [Conns -> WorkRec] /\ hist \in HistRec /\ hist.recvd \in [Conns -> Nat]
  BY DEF IInv, Types, HistRec
<1>2. /\ \A d \in Conns : d # c => wk'[d] = wk[d]
      /\ wk'[c].pc = "pkt" /\ wk'[c].server = wk[c].server
  BY <1>1 DEF Step, WorkRec
<1>3. /\ hist'.arrived = hist.arrived /\ hist'.tls = hist.tls /\ hist'.orderly = hist.orderly
      /\ hist'.recvd[c] = hist.recvd[c] + 1
      /\ \A d \in Conns : d # c => hist'.recvd[d] = hist.recvd[d]
  BY <1>1 DEF HistRec
<1>4. FlowInv' BY <1>2, <1>3, WorkerFlow
<1>5. EventInv'
  <2>1. hist'.recvd[c] # 0 /\ hist'.recvd[c] <= MaxPkts BY <1>1, <1>3, ServerAssumption
  <2> QED BY <1>2, <1>3, <2>1 DEF CInv, EventInv
<1>6. ASSUME NEW r \in Servers
      PROVE  CountedConns(r)' = CountedConns(r) /\ CountedPkts(r)' = CountedPkts(r)
  <2>1. CountedConns(r)' = CountedConns(r) BY <1>2, <1>3 DEF CountedConns
  <2>2. ASSUME NEW p \in Conns \X (1..MaxPkts) PROVE p \in CountedPkts(r)' <=> p \in CountedPkts(r)
    <3>1. p[1] \in Conns /\ p[2] \in 1..MaxPkts /\ hist.recvd[c] \in Nat BY <1>1
    <3>2. CASE p[1] = c BY <1>2, <1>3, <3>1, <3>2, ServerAssumption DEF CountedPkts
    <3>3. CASE p[1] # c BY <1>2, <1>3, <3>1, <3>3 DEF CountedPkts
    <3> QED BY <3>2, <3>3
  <2> QED BY <2>1, <2>2 DEF CountedPkts
<1>7. CountInv' BY <1>3, <1>6 DEF CInv, CountInv
<1> QED BY <1>4, <1>5, <1>7 DEF CInv

(* An increment counts the event of its worker in the segment of its       *)
(* server, and no other.                                                   *)
LEMMA IncConnCount == ASSUME IInv, CInv, NEW c \in Conns, IncConn(c) PROVE CInv'
<1> USE DEF IncConn, In
<1> DEFINE g == wk[c].segs.stats
<1>1. /\ wk \in [Conns -> WorkRec] /\ stats \in [Servers -> Counters] /\ UNCHANGED <<main, hist>>
      /\ g \in Servers
  BY DEF IInv, Types, WorkerInv, WorkRec, Segs, Servers
<1>2. /\ \A d \in Conns : d # c => wk'[d] = wk[d]
      /\ wk'[c].pc = "login" /\ wk'[c].server = wk[c].server
  BY <1>1 DEF Step, WorkRec
<1>3. /\ \A r \in Servers : r # g => stats'[r] = stats[r]
      /\ stats'[g].conns = stats[g].conns + 1 /\ stats'[g].pkts = stats[g].pkts
  BY <1>1 DEF Counters
<1>4. c \in hist.tls /\ hist.recvd[c] = 0 BY DEF CInv, EventInv
<1>5. FlowInv' BY <1>1, <1>2, WorkerFlow
<1>6. EventInv' BY <1>1, <1>2, <1>4 DEF CInv, EventInv
<1>7. ASSUME NEW r \in Servers PROVE CountedPkts(r)' = CountedPkts(r)
  <2>1. ASSUME NEW p \in Conns \X (1..MaxPkts) PROVE p \in CountedPkts(r)' <=> p \in CountedPkts(r)
    <3>1. p[1] \in Conns /\ p[2] \in 1..MaxPkts OBVIOUS
    <3>2. CASE p[1] = c BY <1>1, <1>4, <3>1, <3>2 DEF CountedPkts
    <3>3. CASE p[1] # c BY <1>1, <1>2, <3>1, <3>3 DEF CountedPkts
    <3> QED BY <3>2, <3>3
  <2> QED BY <2>1 DEF CountedPkts
<1>8. ASSUME NEW r \in Servers, r # wk[c].server PROVE CountedConns(r)' = CountedConns(r)
  BY <1>1, <1>2, <1>8 DEF CountedConns
<1>9. ASSUME NEW r \in Servers, r = wk[c].server
      PROVE  Cardinality(CountedConns(r)') = Cardinality(CountedConns(r)) + 1
  <2>1. CountedConns(r)' = CountedConns(r) \union {c} /\ c \notin CountedConns(r)
    BY <1>1, <1>2, <1>4, <1>9 DEF CountedConns
  <2>2. IsFiniteSet(CountedConns(r)) BY CountedFinite
  <2> QED BY <2>1, <2>2, FS_AddElement
<1>10. CountInv'
  <2> SUFFICES ASSUME hist.orderly, NEW r \in Servers
               PROVE  /\ main[r].segs.stats \in {0, r}
                      /\ main[r].segs.stats = r =>
                           /\ stats'[r].conns = Cardinality(CountedConns(r)')
                           /\ stats'[r].pkts = Cardinality(CountedPkts(r)')
    BY <1>1 DEF CountInv
  <2>1. g = wk[c].server BY DEF IInv, OrderInv
  <2>2. CASE r = g BY <1>3, <1>7, <1>9, <2>1, <2>2 DEF CInv, CountInv
  <2>3. CASE r # g BY <1>3, <1>7, <1>8, <2>1, <2>3 DEF CInv, CountInv
  <2> QED BY <2>2, <2>3
<1> QED BY <1>5, <1>6, <1>10 DEF CInv

(* The packet that is counted is the last one the worker has received.     *)
LEMMA IncPktCount == ASSUME IInv, CInv, NEW c \in Conns, IncPkt(c) PROVE CInv'
<1> USE DEF IncPkt, In
<1> DEFINE g == wk[c].segs.stats
           n == hist.recvd[c]
<1>1. /\ wk \in [Conns -> WorkRec] /\ stats \in [Servers -> Counters] /\ UNCHANGED <<main, hist>>
      /\ g \in Servers
  BY DEF IInv, Types, WorkerInv, WorkRec, Segs, Servers
<1>2. /\ \A d \in Conns : d # c => wk'[d] = wk[d]
      /\ wk'[c].pc = "recv" /\ wk'[c].server = wk[c].server
  BY <1>1 DEF Step, WorkRec
<1>3. /\ \A r \in Servers : r # g => stats'[r] = stats[r]
      /\ stats'[g].pkts = stats[g].pkts + 1 /\ stats'[g].conns = stats[g].conns
  BY <1>1 DEF Counters
<1>4. n \in 1..MaxPkts
  <2>1. n \in Nat BY DEF IInv, Types, HistRec
  <2> QED BY <2>1, ServerAssumption DEF CInv, EventInv
<1>5. FlowInv' BY <1>1, <1>2, WorkerFlow
<1>6. EventInv' BY <1>1, <1>2 DEF CInv, EventInv
<1>7. \A r \in Servers : CountedConns(r)' = CountedConns(r) BY <1>1, <1>2 DEF CountedConns
<1>8. ASSUME NEW r \in Servers, NEW p \in Conns \X (1..MaxPkts), p[1] # c \/ p[2] # n
      PROVE  p \in CountedPkts(r)' <=> p \in CountedPkts(r)
  <2>1. p[1] \in Conns OBVIOUS
  <2>2. CASE p[1] = c BY <1>1, <1>2, <1>8, <2>2 DEF CountedPkts
  <2>3. CASE p[1] # c BY <1>1, <1>2, <2>1, <2>3 DEF CountedPkts
  <2> QED BY <2>2, <2>3
<1>9. ASSUME NEW r \in Servers, r # wk[c].server PROVE CountedPkts(r)' = CountedPkts(r)
  <2>1. ASSUME NEW p \in Conns \X (1..MaxPkts), p[1] = c
        PROVE  p \notin CountedPkts(r)' /\ p \notin CountedPkts(r)
    BY <1>1, <1>2, <1>9, <2>1 DEF CountedPkts
  <2> QED BY <1>8, <2>1 DEF CountedPkts
<1>10. ASSUME NEW r \in Servers, r = wk[c].server
       PROVE  Cardinality(CountedPkts(r)') = Cardinality(CountedPkts(r)) + 1
  <2>1. <<c, n>> \in CountedPkts(r)' BY <1>1, <1>2, <1>4, <1>10 DEF CountedPkts
  <2>2. <<c, n>> \notin CountedPkts(r) BY <1>4 DEF CountedPkts
  <2>3. \A p \in Conns \X (1..MaxPkts) : p # <<c, n>> => p[1] # c \/ p[2] # n OBVIOUS
  <2>4. CountedPkts(r)' \subseteq Conns \X (1..MaxPkts) /\ CountedPkts(r) \subseteq Conns \X (1..MaxPkts)
    BY DEF CountedPkts
  <2>5. CountedPkts(r)' = CountedPkts(r) \union {<<c, n>>} BY <1>8, <2>1, <2>3, <2>4, SMTT(60)
  <2>6. IsFiniteSet(CountedPkts(r)) BY CountedFinite
  <2> QED BY <2>2, <2>5, <2>6, FS_AddElement
<1>11. CountInv'
  <2> SUFFICES ASSUME hist.orderly, NEW r \in Servers
               PROVE  /\ main[r].segs.stats \in {0, r}
                      /\ main[r].segs.stats = r =>
                           /\ stats'[r].conns = Cardinality(CountedConns(r)')
                           /\ stats'[r].pkts = Cardinality(CountedPkts(r)')
    BY <1>1 DEF CountInv
  <2>1. g = wk[c].server BY DEF IInv, OrderInv
  <2>2. CASE r = g BY <1>3, <1>7, <1>10, <2>1, <2>2 DEF CInv, CountInv
  <2>3. CASE r # g BY <1>3, <1>7, <1>9, <2>1, <2>3 DEF CInv, CountInv
  <2> QED BY <2>2, <2>3
<1> QED BY <1>5, <1>6, <1>11 DEF CInv

(* A new connection has a number that no backlog, main or worker has had.  *)
LEMMA ConnectCount == ASSUME IInv, CInv, NEW s \in Servers, Connect(s) PROVE CInv'
<1> USE DEF Connect, shmVars
<1> DEFINE c == hist.arrived + 1
<1>1. /\ hist \in HistRec /\ hist.arrived \in Nat /\ c \in Conns
      /\ backlog \in [Servers -> Seq(Conns)] /\ backlog[s] \in Seq(Conns)
  BY ServerAssumption, SMTT(60) DEF IInv, Types, HistRec, Conns
<1>2. /\ hist'.arrived = c /\ hist'.tls = hist.tls /\ hist'.recvd = hist.recvd
      /\ hist'.orderly = hist.orderly
  BY <1>1 DEF HistRec
<1>3. /\ \A r \in Servers : r # s => backlog'[r] = backlog[r]
      /\ Len(backlog'[s]) = Len(backlog[s]) + 1 /\ backlog'[s][Len(backlog[s]) + 1] = c
      /\ \A i \in 1..Len(backlog[s]) : backlog'[s][i] = backlog[s][i]
  BY <1>1
<1>4. UNCHANGED <<main, wk, stats>> OBVIOUS
<1>5. wk[c].pc = "none" BY <1>1 DEF CInv, FlowInv
<1> HIDE DEF c
<1>6. ASSUME NEW r \in Servers, NEW i \in 1..Len(backlog'[r])
      PROVE  \/ i \in 1..Len(backlog[r]) /\ backlog'[r][i] = backlog[r][i]
             \/ r = s /\ i = Len(backlog[s]) + 1 /\ backlog'[r][i] = c
  BY <1>1, <1>3
<1>7. c > hist.arrived BY <1>1 DEF c
<1>8. \A r \in Servers : \A i \in 1..Len(backlog[r]) :
        backlog[r][i] <= hist.arrived /\ backlog[r][i] # c /\ backlog[r][i] \in Nat
  <2> TAKE r \in Servers
  <2> TAKE i \in 1..Len(backlog[r])
  <2>1. backlog[r][i] \in Conns BY <1>1
  <2>2. backlog[r][i] <= hist.arrived BY DEF CInv, FlowInv
  <2> QED BY <1>1, <1>7, <2>1, <2>2 DEF Conns
<1>9. FlowInv'
  <2>1. \A d \in Conns : d > c => wk[d].pc = "none"
    BY <1>1, <1>7 DEF CInv, FlowInv, Conns
  <2>2. ASSUME NEW r \in Servers, NEW i \in 1..Len(backlog'[r])
        PROVE  backlog'[r][i] <= c /\ wk[backlog'[r][i]].pc = "none"
    <3>1. CASE i \in 1..Len(backlog[r]) /\ backlog'[r][i] = backlog[r][i]
      BY <1>1, <1>7, <1>8, <3>1 DEF CInv, FlowInv, Conns
    <3>2. CASE backlog'[r][i] = c BY <1>1, <1>5, <3>2 DEF Conns
    <3> QED BY <1>6, <3>1, <3>2
  <2>3. ASSUME NEW u \in Servers, NEW r \in Servers, NEW i \in 1..Len(backlog'[u]),
               NEW j \in 1..Len(backlog'[r]), backlog'[u][i] = backlog'[r][j]
        PROVE  u = r /\ i = j
    BY <1>6, <1>8, <2>3 DEF CInv, FlowInv
  <2>4. ASSUME NEW u \in Servers, main[u].pc = "fork"
        PROVE  /\ main[u].cfd <= c /\ wk[main[u].cfd].pc = "none"
               /\ \A r \in Servers : \A i \in 1..Len(backlog'[r]) : backlog'[r][i] # main[u].cfd
    <3>1. main[u].cfd \in Nat BY DEF IInv, Types, MainRec
    <3>2. /\ main[u].cfd <= hist.arrived /\ wk[main[u].cfd].pc = "none"
          /\ \A r \in Servers : \A i \in 1..Len(backlog[r]) : backlog[r][i] # main[u].cfd
      BY <2>4 DEF CInv, FlowInv
    <3>3. main[u].cfd <= c /\ main[u].cfd # c BY <1>1, <1>7, <3>1, <3>2 DEF Conns
    <3> QED BY <1>6, <3>2, <3>3
  <2> QED BY <1>2, <1>4, <2>1, <2>2, <2>3, <2>4 DEF CInv, FlowInv
<1>10. EventInv' BY <1>2 DEF CInv, EventInv
<1>11. CountInv'
  <2>1. \A r \in Servers : CountedConns(r)' = CountedConns(r) /\ CountedPkts(r)' = CountedPkts(r)
    BY <1>2 DEF CountedConns, CountedPkts, In
  <2> QED BY <1>2, <1>4, <2>1 DEF CInv, CountInv
<1> QED BY <1>9, <1>10, <1>11 DEF CInv

(* CInv holds before any server has started.                               *)
LEMMA InitCount == ASSUME Init PROVE CInv
<1> USE DEF Init
<1>1. FlowInv BY DEF FlowInv
<1>2. EventInv BY ServerAssumption DEF EventInv, HistInit
<1>3. CountInv BY DEF CountInv, NoSegs, Servers
<1> QED BY <1>1, <1>2, <1>3 DEF CInv

(* With servers that run one after the other, the counters of a server     *)
(* stay between the handshakes and game packets of its workers and all the *)
(* connections and packets they were given.  The inductive CountInv is     *)
(* what the code does exactly: it counts the former, each once.            *)
THEOREM CountTheorem == Spec => []CountsBounded
<1>1. Init => CInv BY InitCount
<1>2. IInv /\ CInv /\ [Next]_vars => CInv'
  <2> SUFFICES ASSUME IInv, CInv, [Next]_vars PROVE CInv' OBVIOUS
  <2>1. ASSUME NEW s \in Servers, Start(s) \/ MainStep(s) \/ Connect(s) PROVE CInv'
    <3>1. StatsInit(s) => CInv' BY QuietMain, QuietStep, StatsInitCount
    <3> QED BY <2>1, <3>1, QuietMain, QuietStep, AcceptCount, ForkCount, ConnectCount DEF MainStep
  <2>2. ASSUME NEW sig \in Signals, Stop(sig[1], sig[2]) PROVE CInv'
    <3>1. sig[1] \in Servers /\ sig[2] \in {"SIGINT", "SIGTERM"} BY ServerAssumption DEF Servers
    <3> QED BY <2>2, <3>1, QuietMain, QuietStep
  <2>3. ASSUME NEW c \in Conns, WorkerStep(c) \/ Login(c) \/ Recv(c) \/ SessionEnds(c) PROVE CInv'
    BY <2>3, QuietWorker, QuietStep, SslAcceptCount, IncConnCount, RecvCount, IncPktCount
       DEF WorkerStep
  <2>4. CASE Attach
    <3>1. Quiet BY <2>4 DEF Attach, shmVars, Quiet
    <3> QED BY <3>1, QuietStep
  <2>5. CASE UNCHANGED vars
    <3>1. Quiet BY <2>5 DEF vars, Quiet
    <3> QED BY <3>1, QuietStep
  <2> QED BY <2>1, <2>2, <2>3, <2>4, <2>5 DEF Next
<1>3. IInv /\ CInv => CountsBounded
  <2> SUFFICES ASSUME IInv, CInv, hist.orderly, NEW s \in Servers, main[s].segs.stats # 0
               PROVE  /\ Cardinality(CountedConns(s)) <= stats[main[s].segs.stats].conns
                      /\ stats[main[s].segs.stats].conns <= Cardinality(HandledConns(s))
                      /\ Cardinality(CountedPkts(s)) <= stats[main[s].segs.stats].pkts
                      /\ stats[main[s].segs.stats].pkts <= Cardinality(HandledPkts(s))
    BY DEF CountsBounded
  <2>1. main[s].segs.stats = s /\ stats[s] \in Counters BY DEF CInv, CountInv, IInv, Types
  <2>2. stats[s].conns = Cardinality(CountedConns(s)) /\ stats[s].pkts = Cardinality(CountedPkts(s))
    BY <2>1 DEF CInv, CountInv
  <2>3. IsFiniteSet(HandledConns(s)) /\ IsFiniteSet(HandledPkts(s))
    <3>1. IsFiniteSet(Conns) /\ IsFiniteSet(0..MaxPkts) BY ServerAssumption, FS_Interval DEF Conns
    <3>2. IsFiniteSet(Conns \X (0..MaxPkts)) BY <3>1, FS_Product
    <3>3. HandledConns(s) \subseteq Conns /\ HandledPkts(s) \subseteq Conns \X (0..MaxPkts)
      BY DEF HandledConns, HandledPkts
    <3> QED BY <3>1, <3>2, <3>3, FS_Subset
  <2>4. CountedConns(s) \subseteq HandledConns(s) BY DEF CountedConns, HandledConns
  <2>5. ASSUME NEW p \in CountedPkts(s) PROVE p \in HandledPkts(s)
    <3>1. /\ p \in Conns \X (1..MaxPkts) /\ p[1] \in Conns /\ p[2] \in 1..MaxPkts
          /\ wk[p[1]].server = s /\ hist.recvd[p[1]] \in Nat /\ p[2] <= hist.recvd[p[1]]
      BY DEF CountedPkts, IInv, Types, HistRec
    <3>2. p[1] \in hist.tls BY <3>1 DEF CInv, EventInv
    <3>3. p \in Conns \X (0..MaxPkts) BY <3>1
    <3> QED BY <3>1, <3>2, <3>3 DEF HandledPkts
  <2>6. /\ Cardinality(CountedConns(s)) <= Cardinality(HandledConns(s))
        /\ Cardinality(CountedPkts(s)) <= Cardinality(HandledPkts(s))
    BY <2>3, <2>4, <2>5, FS_Subset
  <2>7. stats[s].conns \in Nat /\ stats[s].pkts \in Nat BY <2>1 DEF Counters
  <2> QED BY <2>1, <2>2, <2>6, <2>7
<1> QED BY <1>1, <1>2, <1>3, Invariance, PTL DEF Spec
==============================================================================
