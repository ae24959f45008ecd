----------------------------- MODULE ServerMain -----------------------------
(***************************************************************************)
(* The server as a set of processes: main of src/src/server.c, the workers *)
(* it forks, the descriptors they share, the signals main handles, the two *)
(* named shared-memory segments (src/src/common/ipc.c) and the monitor     *)
(* (src/src/monitor.c).  Sockets, fork, signals and shm are external.      *)
(*                                                                         *)
(* The program is built with -std=c11, where signal() has the System V     *)
(* meaning: a handler is uninstalled when it is called, and an interrupted *)
(* accept() fails with EINTR.  A server that runs main is a number, and    *)
(* so is the segment it creates.                                           *)
(***************************************************************************)
EXTENDS Integers, Sequences, FiniteSets

CONSTANTS
  MaxServers,    \* bound: server processes started, one after the other
  MaxConns,      \* bound: connections made by clients
  MaxPkts,       \* bound: game packets of a connection
  Signals        \* bound: which signals are sent to which servers

ASSUME ServerAssumption ==
  /\ MaxServers \in Nat \ {0} /\ MaxConns \in Nat /\ MaxPkts \in Nat
  /\ Signals \subseteq (1..MaxServers) \X {"SIGINT", "SIGTERM"}

VARIABLES
  main,       \* server -> [pc, g_stop, handlers, pending, fds, cfd, segs]
  wk,         \* connection -> its worker: [pc, server, fds, segs]
  backlog,    \* server -> connections waiting in its listening socket
  names,      \* "stats", "store" -> the segment of that name, 0 for none
  stats,      \* segment -> [conns, pkts]
  sessions,   \* segment -> the sessions stored in it
  mon,        \* the segment the monitor has mapped, 0 for none
  hist        \* history: see HistInit

vars    == <<main, wk, backlog, names, stats, sessions, mon, hist>>
shmVars == <<names, stats, sessions>>

Servers == 1..MaxServers
Conns   == 1..MaxConns
Parts   == {"stats", "store"}

Listen(s) == <<"listen", s>>
Sock(c)   == <<"conn", c>>

(* Is the socket x open in some server process?                            *)
Open(x) == (\E s \in Servers : x \in main[s].fds) \/ (\E c \in Conns : x \in wk[c].fds)

NoStats == [conns |-> 0, pkts |-> 0]
NoSegs  == [stats |-> 0, store |-> 0]

(* arrived: connections made; tls: accepted ones that passed SSL_accept;   *)
(* recvd: their game packets; caught: servers that on_sigint interrupted   *)
(* in accept(); late: connections accepted after on_sigint; missed: workers*)
(* that ended with no handler for SIGCHLD; orderly: has each server        *)
(* started after the previous ones had returned from main?                 *)
HistInit ==
  [arrived |-> 0, tls |-> {}, recvd |-> [c \in Conns |-> 0],
   caught |-> {}, late |-> [s \in Servers |-> 0],
   missed |-> {}, orderly |-> TRUE]

Init ==
  /\ main = [s \in Servers |-> [pc |-> "off", g_stop |-> FALSE, handlers |-> {},
                                pending |-> FALSE, fds |-> {}, cfd |-> 0, segs |-> NoSegs]]
  /\ wk = [c \in Conns |-> [pc |-> "none", server |-> 0, fds |-> {}, segs |-> NoSegs]]
  /\ backlog = [s \in Servers |-> <<>>]
  /\ names = NoSegs
  /\ stats = [s \in Servers |-> NoStats]
  /\ sessions = [s \in Servers |-> {}]
  /\ mon = 0
  /\ hist = HistInit

At(s, pc) == main[s].pc = pc
Goto(s, pc) == main' = [main EXCEPT ![s].pc = pc]

(* The end of a main process: its descriptors are closed, and its zombies  *)
(* are inherited and reaped by init.                                       *)
Exit(s, pc) ==
  /\ main' = [main EXCEPT ![s] = [@ EXCEPT !.pc = pc, !.fds = {}, !.cfd = 0, !.pending = FALSE]]
  /\ wk' = [c \in Conns |-> IF wk[c].pc = "zombie" /\ wk[c].server = s
                              THEN [wk[c] EXCEPT !.pc = "gone"] ELSE wk[c]]
-----------------------------------------------------------------------------
(* main starts and installs its three handlers.                            *)
Start(s) ==
  /\ At(s, "off")
  /\ \A r \in 1..(s - 1) : ~At(r, "off")
  /\ main' = [main EXCEPT ![s] = [@ EXCEPT !.pc = "ssl",
                                           !.handlers = {"SIGINT", "SIGTERM", "SIGCHLD"}]]
  /\ hist' = [hist EXCEPT !.orderly = @ /\ \A r \in 1..(s - 1) : At(r, "exited")]
  /\ UNCHANGED <<wk, backlog, shmVars, mon>>

(* ssl_init_server_ctx: main goes on, or returns 1 without certificates.   *)
SslInit(s) ==
  /\ At(s, "ssl")
  /\ \/ Goto(s, "stats") /\ UNCHANGED wk
     \/ Exit(s, "failed")
  /\ UNCHANGED <<backlog, shmVars, mon, hist>>

(* The segment that shm_open with O_CREAT opens.                           *)
Opened(s, part) == IF names[part] = 0 THEN s ELSE names[part]

(* ipc_stats_init(1) and ipc_store_init(1): open or create, map, zero.     *)
MapStats(s) ==
  LET g == Opened(s, "stats") IN
  /\ names' = [names EXCEPT !.stats = g]
  /\ stats' = [stats EXCEPT ![g] = NoStats]
  /\ main' = [main EXCEPT ![s].segs.stats = g, ![s].pc = "store"]
  /\ UNCHANGED <<wk, sessions>>

MapStore(s) ==
  LET g == Opened(s, "store") IN
  /\ names' = [names EXCEPT !.store = g]
  /\ sessions' = [sessions EXCEPT ![g] = {}]
  /\ main' = [main EXCEPT ![s].segs.store = g, ![s].pc = "listen"]
  /\ UNCHANGED <<wk, stats>>

(* Either fails in shm_open, or in ftruncate or mmap with the name already *)
(* there: main returns 1 and unlinks nothing.                              *)
InitFails(s, part) ==
  /\ names' \in {names, [names EXCEPT ![part] = Opened(s, part)]}
  /\ Exit(s, "failed")
  /\ UNCHANGED <<stats, sessions>>

StatsInit(s) ==
  /\ At(s, "stats")
  /\ MapStats(s) \/ InitFails(s, "stats")
  /\ UNCHANGED <<backlog, mon, hist>>

StoreInit(s) ==
  /\ At(s, "store")
  /\ MapStore(s) \/ InitFails(s, "store")
  /\ UNCHANGED <<backlog, mon, hist>>

(* tcp_listen: with SO_REUSEADDR only another listening socket is in the   *)
(* way; then main returns 1 and leaves the segments behind.                *)
TcpListen(s) ==
  /\ At(s, "listen")
  /\ IF \E r \in Servers : Open(Listen(r))
       THEN Exit(s, "failed")
       ELSE /\ main' = [main EXCEPT ![s].fds = {Listen(s)}, ![s].pc = "test"]
            /\ UNCHANGED wk
  /\ UNCHANGED <<backlog, shmVars, mon, hist>>

\* mutant: the loop does not look at g_stop
LoopTestForever(s) ==
  /\ At(s, "test")
  /\ Goto(s, "accept")
  /\ UNCHANGED <<wk, backlog, shmVars, mon, hist>>

(* while (!g_stop): a signal after this test is not seen before accept().  *)
LoopTest(s) ==
  /\ At(s, "test")
  /\ Goto(s, IF main[s].g_stop THEN "close" ELSE "accept")
  /\ UNCHANGED <<wk, backlog, shmVars, mon, hist>>

(* accept() returns the oldest waiting connection.                         *)
Accept(s) ==
  /\ At(s, "accept")
  /\ backlog[s] # <<>>
  /\ LET c == Head(backlog[s]) IN
       main' = [main EXCEPT ![s] = [@ EXCEPT !.pc = "fork", !.cfd = c,
                                             !.fds = main[s].fds \union {Sock(c)}]]
  /\ backlog' = [backlog EXCEPT ![s] = Tail(@)]
  /\ hist' = IF main[s].g_stop THEN [hist EXCEPT !.late[s] = @ + 1] ELSE hist
  /\ UNCHANGED <<wk, shmVars, mon>>

(* fork(): the worker starts with a copy of the descriptors and mappings,  *)
(* or there is none; main has to close(cfd) either way.                    *)
Fork(s) ==
  LET c == main[s].cfd IN
  /\ At(s, "fork")
  /\ Goto(s, "forked")
  /\ \/ wk' = [wk EXCEPT ![c] = [pc |-> "child", server |-> s, fds |-> main[s].fds,
                                 segs |-> main[s].segs]]
     \/ UNCHANGED wk
  /\ UNCHANGED <<backlog, shmVars, mon, hist>>

\* mutant: main keeps the connection open
CloseCfdNot(s) ==
  /\ At(s, "forked")
  /\ main' = [main EXCEPT ![s] = [@ EXCEPT !.pc = "test", !.cfd = 0]]
  /\ UNCHANGED <<wk, backlog, shmVars, mon, hist>>

CloseCfd(s) ==
  /\ At(s, "forked")
  /\ main' = [main EXCEPT ![s] = [@ EXCEPT !.pc = "test", !.cfd = 0,
                                           !.fds = main[s].fds \ {Sock(main[s].cfd)}]]
  /\ UNCHANGED <<wk, backlog, shmVars, mon, hist>>

(* Shutdown: close(lfd), then both names are unlinked, and main returns.   *)
CloseLfd(s) ==
  /\ At(s, "close")
  /\ main' = [main EXCEPT ![s].fds = {}, ![s].pc = "unlink_stats"]
  /\ UNCHANGED <<wk, backlog, shmVars, mon, hist>>

UnlinkStats(s) ==
  /\ At(s, "unlink_stats")
  /\ names' = [names EXCEPT !.stats = 0]
  /\ Goto(s, "unlink_store")
  /\ UNCHANGED <<wk, backlog, stats, sessions, mon, hist>>

\* mutant: the session store keeps its name
UnlinkStoreNot(s) ==
  /\ At(s, "unlink_store")
  /\ Exit(s, "exited")
  /\ UNCHANGED <<backlog, shmVars, mon, hist>>

UnlinkStore(s) ==
  /\ At(s, "unlink_store")
  /\ names' = [names EXCEPT !.store = 0]
  /\ Exit(s, "exited")
  /\ UNCHANGED <<backlog, stats, sessions, mon, hist>>
-----------------------------------------------------------------------------
Alive(s) == main[s].pc \notin {"off", "exited", "failed", "killed"}

(* A handler has run: it is uninstalled, and a blocked accept() fails,     *)
(* which sends main back to the test of its loop.                          *)
Handled(s, sig) ==
  [main[s] EXCEPT !.handlers = @ \ {sig}, !.pc = IF @ = "accept" THEN "test" ELSE @]

\* mutant: accept() is restarted after a signal
StopRestarts(s, sig) ==
  /\ Alive(s)
  /\ sig \in main[s].handlers
  /\ main' = [main EXCEPT ![s] = [@ EXCEPT !.handlers = @ \ {sig}, !.g_stop = TRUE]]
  /\ hist' = [hist EXCEPT !.caught = @ \union {r \in {s} : At(r, "accept")}]
  /\ UNCHANGED <<wk, backlog, shmVars, mon>>

(* on_sigint, for the first SIGINT and the first SIGTERM; another one has  *)
(* its default action and ends main on the spot.  (A worker, which         *)
(* inherits the handlers, does not look at g_stop.)                        *)
Stop(s, sig) ==
  /\ Alive(s)
  /\ IF sig \in main[s].handlers
       THEN /\ main' = [main EXCEPT ![s] = [Handled(s, sig) EXCEPT !.g_stop = TRUE]]
            /\ hist' = [hist EXCEPT !.caught = @ \union {r \in {s} : At(r, "accept")}]
            /\ UNCHANGED wk
       ELSE Exit(s, "killed") /\ UNCHANGED hist
  /\ UNCHANGED <<backlog, shmVars, mon>>

\* mutant: the handler reaps one worker only
SigchldOne(s) ==
  /\ main[s].pending
  /\ main' = [main EXCEPT ![s] = [Handled(s, "SIGCHLD") EXCEPT !.pending = FALSE]]
  /\ \E c \in Conns : /\ wk[c].pc = "zombie" /\ wk[c].server = s
                      /\ wk' = [wk EXCEPT ![c].pc = "gone"]
  /\ UNCHANGED <<backlog, shmVars, mon, hist>>

(* on_sigchld: waitpid() until no ended worker is left.  Several workers   *)
(* that end before it runs are one pending signal.                         *)
Sigchld(s) ==
  /\ main[s].pending
  /\ main' = [main EXCEPT ![s] = [Handled(s, "SIGCHLD") EXCEPT !.pending = FALSE]]
  /\ wk' = [c \in Conns |-> IF wk[c].pc = "zombie" /\ wk[c].server = s
                              THEN [wk[c] EXCEPT !.pc = "gone"] ELSE wk[c]]
  /\ UNCHANGED <<backlog, shmVars, mon, hist>>
-----------------------------------------------------------------------------
In(c, pc) == wk[c].pc = pc
Step(c, pc) == wk' = [wk EXCEPT ![c].pc = pc]

\* mutant: the worker keeps the listening socket
ChildStartsKeeping(c) ==
  /\ In(c, "child")
  /\ Step(c, "tls")
  /\ UNCHANGED <<main, backlog, shmVars, mon, hist>>

(* The worker closes its copy of lfd and sets its timeout.                 *)
ChildStarts(c) ==
  /\ In(c, "child")
  /\ wk' = [wk EXCEPT ![c].pc = "tls", ![c].fds = @ \ {Listen(wk[c].server)}]
  /\ UNCHANGED <<main, backlog, shmVars, mon, hist>>

\* mutant: a worker that ends falls out of the loop into main's cleanup
EndCleaning(c) ==
  /\ names' = NoSegs
  /\ wk' = [wk EXCEPT ![c].pc = "gone", ![c].fds = {}]
  /\ UNCHANGED <<main, backlog, stats, sessions, mon, hist>>

(* _exit(): the worker's descriptors are closed, and main gets a SIGCHLD,  *)
(* which changes nothing if its handler is used up.                        *)
End(c) ==
  LET s == wk[c].server IN
  /\ wk' = [wk EXCEPT ![c].pc = IF Alive(s) THEN "zombie" ELSE "gone", ![c].fds = {}]
  /\ main' = [main EXCEPT ![s].pending = @ \/ (Alive(s) /\ "SIGCHLD" \in main[s].handlers)]
  /\ hist' = IF "SIGCHLD" \in main[s].handlers THEN hist
                                               ELSE [hist EXCEPT !.missed = @ \union {c}]
  /\ UNCHANGED <<backlog, shmVars, mon>>

(* SSL_accept succeeds, or fails (after the timeout at the latest).        *)
SslAccept(c) ==
  /\ In(c, "tls")
  /\ Step(c, "count")
  /\ hist' = [hist EXCEPT !.tls = @ \union {c}]
  /\ UNCHANGED <<main, backlog, shmVars, mon>>

SslFails(c) == In(c, "tls") /\ End(c)

\* mutant: the connection is not counted with an atomic increment
IncConnLost(c) ==
  /\ In(c, "count")
  /\ stats' \in {stats, [stats EXCEPT ![wk[c].segs.stats].conns = @ + 1]}
  /\ Step(c, "login")
  /\ UNCHANGED <<main, backlog, names, sessions, mon, hist>>

(* ipc_stats_inc_conn, in whatever segment the worker has inherited.       *)
IncConn(c) ==
  /\ In(c, "count")
  /\ stats' = [stats EXCEPT ![wk[c].segs.stats].conns = @ + 1]
  /\ Step(c, "login")
  /\ UNCHANGED <<main, backlog, names, sessions, mon, hist>>

\* mutant: the id of a refused session is used
LoginUnchecked(c) ==
  /\ In(c, "login")
  /\ \E sid \in {0, c} : sessions' = [sessions EXCEPT ![wk[c].segs.store] = @ \union {sid}]
  /\ Step(c, "recv")
  /\ UNCHANGED <<main, backlog, names, stats, mon, hist>>

(* run_session: the handshake stores the session (Sessions.tla has its     *)
(* details); its packets are not counted.                                  *)
Login(c) ==
  /\ In(c, "login")
  /\ sessions' = [sessions EXCEPT ![wk[c].segs.store] = @ \union {c}]
  /\ Step(c, "recv")
  /\ UNCHANGED <<main, backlog, names, stats, mon, hist>>

(* The main loop of run_session receives a packet and counts it.           *)
Recv(c) ==
  /\ In(c, "recv")
  /\ hist.recvd[c] < MaxPkts
  /\ hist' = [hist EXCEPT !.recvd[c] = @ + 1]
  /\ Step(c, "pkt")
  /\ UNCHANGED <<main, backlog, shmVars, mon>>

IncPkt(c) ==
  /\ In(c, "pkt")
  /\ stats' = [stats EXCEPT ![wk[c].segs.stats].pkts = @ + 1]
  /\ Step(c, "recv")
  /\ UNCHANGED <<main, backlog, names, sessions, mon, hist>>

(* run_session returns: the connection has ended.                          *)
SessionEnds(c) == wk[c].pc \in {"login", "recv"} /\ End(c)
-----------------------------------------------------------------------------
(* A client connects to the socket that listens on the port.               *)
Connect(s) ==
  /\ hist.arrived < MaxConns
  /\ Open(Listen(s))
  /\ backlog' = [backlog EXCEPT ![s] = Append(@, hist.arrived + 1)]
  /\ hist' = [hist EXCEPT !.arrived = @ + 1]
  /\ UNCHANGED <<main, wk, shmVars, mon>>

\* mutant: the monitor creates the segment, as the server does
AttachCreating ==
  /\ mon = 0 /\ names.stats # 0
  /\ mon' = names.stats
  /\ stats' = [stats EXCEPT ![names.stats] = NoStats]
  /\ UNCHANGED <<main, wk, backlog, names, sessions, hist>>

(* The monitor starts: ipc_stats_init(0).  Without the name it ends with   *)
(* "Server is not running", and can be started again; with it, it shows    *)
(* the counters of the segment it has mapped, and changes nothing.         *)
Attach ==
  /\ mon = 0 /\ names.stats # 0
  /\ mon' = names.stats
  /\ UNCHANGED <<main, wk, backlog, shmVars, hist>>

-----------------------------------------------------------------------------
MainStep(s) ==
  \/ SslInit(s) \/ StatsInit(s) \/ StoreInit(s) \/ TcpListen(s)
  \/ LoopTest(s) \/ Accept(s) \/ Fork(s) \/ CloseCfd(s)
  \/ CloseLfd(s) \/ UnlinkStats(s) \/ UnlinkStore(s) \/ Sigchld(s)

WorkerStep(c) ==
  ChildStarts(c) \/ SslAccept(c) \/ SslFails(c) \/ IncConn(c) \/ IncPkt(c)

Next ==
  \/ \E s \in Servers : Start(s) \/ MainStep(s) \/ Connect(s)
  \/ \E sig \in Signals : Stop(sig[1], sig[2])
  \/ \E c \in Conns : WorkerStep(c) \/ Login(c) \/ Recv(c) \/ SessionEnds(c)
  \/ Attach

(* Processes are scheduled.  Nobody has to connect, to send a packet, to   *)
(* close a connection or to send a signal.                                 *)
Fairness ==
  /\ \A s \in Servers : WF_vars(MainStep(s))
  /\ \A c \in Conns : WF_vars(WorkerStep(c))

Spec     == Init /\ [][Next]_vars
FairSpec == Spec /\ Fairness
-----------------------------------------------------------------------------
Counters == [conns : Nat, pkts : Nat]
Sockets  == {Listen(s) : s \in Servers} \union {Sock(c) : c \in Conns}

TypeOK ==
  /\ \A s \in Servers :
       /\ main[s].g_stop \in BOOLEAN /\ main[s].pending \in BOOLEAN
       /\ main[s].handlers \subseteq {"SIGINT", "SIGTERM", "SIGCHLD"}
       /\ main[s].fds \subseteq Sockets /\ main[s].cfd \in 0..MaxConns
       /\ main[s].segs \in [Parts -> 0..MaxServers]
       /\ stats[s] \in Counters /\ sessions[s] \subseteq Conns
       /\ Alive(s) \/ main[s].fds = {}
  /\ \A c \in Conns : wk[c].fds \subseteq Sockets /\ wk[c].segs \in [Parts -> 0..MaxServers]
  /\ names \in [Parts -> 0..MaxServers]
  /\ mon \in 0..MaxServers

(* Every descriptor of a connection is closed in the end once its worker   *)
(* has ended, or was never forked: otherwise the client would not notice,  *)
(* and the GUI would not reconnect.                                        *)
EofSeen ==
  []<>(\A c \in Conns : Open(Sock(c)) => wk[c].pc \in {"login", "recv"})

(* When main ends, however it does, the port is free again soon: the       *)
(* workers, which go on serving, do not keep the listening socket.         *)
PortFreed ==
  []<>(\A s \in Servers : Open(Listen(s)) => Alive(s))

(* A stop signal that finds main in accept() shuts it down; one that comes *)
(* at another time may be noticed after one more connection only.          *)
StopsSoon ==
  []<>(\A s \in Servers : main[s].g_stop /\ Alive(s) =>
         s \notin hist.caught /\ At(s, "accept") /\ backlog[s] = <<>>)

(* After on_sigint has run, main accepts at most one more connection.      *)
OneMoreAtMost == \A s \in Servers : hist.late[s] <= 1

(* Every worker that ends before main's SIGCHLD handler has run is reaped  *)
(* by that run, however many end at once.  (Those that end later are not.) *)
Reaped ==
  \A c \in Conns :
    In(c, "zombie") => main[wk[c].server].pending \/ c \in hist.missed

(* With servers that run one after the other, a worker outlives its main   *)
(* and keeps its session: a later server zeroes another segment.           *)
SessionsKept ==
  hist.orderly => \A c \in Conns : In(c, "recv") => c \in sessions[wk[c].segs.store]

(* The least the counters of s have to show: the handshakes and the game   *)
(* packets of its workers, less those between the event and its increment. *)
CountedConns(s) ==
  {c \in Conns : wk[c].server = s /\ c \in hist.tls /\ ~In(c, "count")}
CountedPkts(s) ==
  {p \in Conns \X (1..MaxPkts) :
     /\ wk[p[1]].server = s
     /\ p[2] < hist.recvd[p[1]] \/ (p[2] = hist.recvd[p[1]] /\ ~In(p[1], "pkt"))}

(* The most they may show: also the connections whose handshake failed or  *)
(* is not over, and the packet of the handshake, number 0.                 *)
HandledConns(s) == {c \in Conns : wk[c].server = s}
HandledPkts(s) ==
  {p \in Conns \X (0..MaxPkts) :
     wk[p[1]].server = s /\ p[1] \in hist.tls /\ p[2] <= hist.recvd[p[1]]}

(* With servers that run one after the other, no increment of a server's   *)
(* counters is lost, doubled or made for the workers of another server,    *)
(* whatever those workers and the monitor do.  The bounds leave open which *)
(* connections and packets count: src/README.md:146 and :149 speak of all  *)
(* that were accepted and handled, while the code counts a connection      *)
(* after SSL_accept only and no packet of the handshake (server.c:293).    *)
CountsBounded ==
  hist.orderly =>
    \A s \in Servers : main[s].segs.stats # 0 =>
      LET shown == stats[main[s].segs.stats] IN
      /\ Cardinality(CountedConns(s)) <= shown.conns
      /\ shown.conns <= Cardinality(HandledConns(s))
      /\ Cardinality(CountedPkts(s)) <= shown.pkts
      /\ shown.pkts <= Cardinality(HandledPkts(s))

(* With servers that run one after the other, the monitor can attach to    *)
(* the segment of a server that accepts connections ("Server is not        *)
(* running" is true when it is said).                                      *)
MonitorFindsServer ==
  hist.orderly =>
    \A s \in Servers : Listen(s) \in main[s].fds => names = main[s].segs

=============================================================================
