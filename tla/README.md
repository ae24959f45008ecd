# Verification of the Mini TCG server and its clients

TLA+ models of the card-game server in `src/`, TLC configurations that check
them on small instances, and TLAPS proofs of every safety property those
configurations check, for all values of the constants (five of them for the
behaviours in which no two workers are in the same session).
`PROJECT.json` says which definition models which lines, which run checks which
property, which mutation of the model breaks it, and which hazards of the code
the properties are for.

The tree does not compile as it is (`net_set_timeout` is defined twice in
`common/net.c`; `ctx` and `ssl` are declared twice in `client.c` and
`client_app.c`). The models describe the program obtained by keeping one
of the identical definitions.

## The system

| part | source | state | operations |
| --- | --- | --- | --- |
| rules engine | `server.c` 64-270, `common/cards.c` | one `state_t` and `hand_t` in a worker | play a card, end a turn, run the AI's turn |
| session worker | `server.c` 272-427 | its session id, `st`, `hand`, one connection | handshake (LOGIN, RESUME, PING), main loop, save then reply |
| session store | `common/ipc.c` 41-120 | 128 slots in POSIX shared memory, no lock | alloc, save, load, touch |
| parent process | `server.c` 429-516 | listening socket, signal flags | zero the shared memory, accept and fork, unlink |
| battle log | `server.c` 51-60, `client_gui.c` 496-504 | six lines in `state_t` | push a line, show the ring |
| statistics, monitor | `common/ipc.c` 10-39, `monitor.c` | two counters in shared memory | atomic increment, print once a second |
| framing and I/O | `common/proto.c`, `common/net.c` | TLS stream | `proto_send`, `proto_recv`, `conn_readn`, `conn_writen`, timeouts |
| GUI client | `client_gui.c` | `g_sh` (mutex), `g_session_id`, command pipe | network thread: connect, login or resume, select loop; UI thread: draw, click |
| terminal client | `client_app.c` | last board | send a command, `recv_until` STATE and HAND |
| benchmark client | `client.c` | a latency per thread | rounds of PLAY_CARD and END_TURN |

The parent forks one worker per connection. Workers share nothing but the store
and the statistics. A client talks to one worker at a time; the GUI keeps the
session id over a lost connection and asks the next worker to resume it. Inside
the GUI, clicks travel through a pipe and boards through `g_sh`.

What makes it hard: workers race on the store; a resumed session may still have
its previous worker; a process can die between changing, saving and sending a
game; a save is two assignments; clicks outlive the connection they were meant
for; `select()` and TLS buffers see different bytes; timeouts and retries meet in
one loop; signals arrive between a test and the call it guards; descriptors and
mappings are inherited by workers that outlive the parent; replies are matched
to requests by counting. What makes it correct: the outcome fields agree with the hit points, a
worker waits for a packet only when the player can act, every request is
answered, what a player has seen survives, nothing is executed twice, a click
plays a card of the hand it was aimed at, packets keep their frames, workers,
descriptors and the port are released, and each reply is taken for its own
request. Not all of this is true of the code: see the findings.

## Modules

| module | models | extends / uses |
| --- | --- | --- |
| `Cards` | the card table | |
| `Duel` | abstract specification of a session: turns, who can win how, when requests are answered, frozen result | |
| `Game` | rules engine and main loop of one worker | `Cards`, instance of `Duel` |
| `Game_proofs` | theorems about `Game` | `Game` |
| `SessionStore`, `SessionStore_proofs` | shared store, one step per visible store to memory, and theorems about it | |
| `Sessions`, `Sessions_proofs` | workers, store, both GUI threads, connections, kills and restarts, and theorems about them | |
| `ServerMain`, `ServerMain_proofs` | parent process, workers as processes, signals, sockets, named segments, statistics, monitor, and theorems about them | |
| `Clients`, `Clients_proofs` | benchmark threads and terminal client, with what a worker sends, and theorems about them | |
| `Conn`, `Conn_proofs` | one direction of a connection, and theorems about it | |
| `Checksum`, `Checksum_proofs` | `proto_checksum16` and theorems about it | |
| `BattleLog`, `BattleLog_proofs` | the ring of log lines, its panel, theorems about them | |
| `MCGame`, `MCSessionStore`, `MCSessions`, `MCServerMain`, `MCClients`, `MCConn` | instances for TLC; `MCConn` also checks `Checksum` and `MCSessions` also `BattleLog` against reference definitions, as assumptions | |

Definitions under a comment `\* mutant:` are wrong variants of a definition that
follows them; no specification uses them.

**Game.** The variables are the fields of `state_t`, with the stores to
`int16_t` and `uint8_t` fields as `I16` and `U8`. `pc` says whether the worker is
in `proto_recv` or inside `process_ai_turn`; `reply` is what the last packet was
answered with. One action per packet kind and outcome; the AI's turn is one
action per iteration of its loop. Left out: the battle log.

**Duel.** What a session promises, without cards, mana or hit points. Its
variables are the turn, the end, the winner, whether the turn had come to its
end (`ended`) and whether the worker waits for a packet (`waits`). A card ends
the game only in favour of the side that plays it; any other result, a draw
included, needs the end of a turn; after a turn of the player the worker waits
again only when the AI has finished its own.
`Game` maps `ended` to the END phase and `waits` to a worker in `proto_recv`; that
the handler has sent a board by then is `BoardAlwaysSent`.

**SessionStore.** `ipc_alloc_session` is three steps (test `valid`, set it,
write the id), save is search, `st`, `hand`; load is search with `st`, then
`hand`. Any number of workers is anywhere in them at once, a session may be
resumed while other workers still play it, and a worker may be killed at any
step. Contents are the number of the save that wrote them, tagged with their
session. The store has no lock, so games do get lost. Three history variables
name the mishaps and the sessions they happen to: `met` (logins that found the
same slot free), `stale` (sessions saved by a worker after another one had
resumed them) and `torn` (sessions with a save or a load cut in two, by a kill
or by another worker of the session); the properties say that nothing else does
damage. Session ids are taken as unique (they mix time, slot, pid and 31 random
bits). A failed resume ends the worker, because the GUI closes the connection
then.

**Sessions.** A game is its list of executed clicks, the turn, whether it is
over and which deal its hand is from; the outcomes of cards are the ones `Duel`
allows. The refusals for a wrong turn or phase are absent because `ReadyToRecv`
(proved) shows they are never sent. A send to a closed connection is lost or
kills the worker (SIGPIPE is not ignored). `Close` may lose any suffix of what
the client had sent. `Overlap` is the set of connections that may meet a worker
of an older one; the GUI's sleep of one second usually prevents it and nothing
guarantees it. `Killable` adds the death of a worker between any two steps,
`Restart` the zeroing of the store by a new server. `HsFull` is the login that
finds no slot (`full`, from then on until a restart, as no slot is ever freed):
the worker sends an error and closes. `failed` is the history of the connections
that were lost, refused by a full server or whose worker was killed.
The UI thread selects a card with one press and plays it with the next; a
command is a place in the hand, and the model adds what the program does not
send: which hand the player saw (`aim`) and which hand the worker applied it to
(`onto`). The thread takes its copy of `g_sh` and writes to the pipe in one step;
a click based on an older copy looks the same as one that waited in the pipe.

**ServerMain.** One `pc` per server process and per worker; a step is a system
call or a store to shared memory. A socket is open while some process holds a
descriptor. The build uses `-std=c11`, where `signal()` resets a handler when it
runs and an interrupted `accept()` fails: a second SIGINT ends the server at
once and leaves the names of the segments behind, and only the workers that end
before the first run of `on_sigchld` are reaped. A segment lives on under its
mappings when its name is unlinked. `hist.orderly` says that each server
started after the previous one had returned from `main`; the three properties
that need it fail when a second server is started beside a running one, since
both open the same segments, the newcomer zeroes them before it tries the port,
and the first to leave unlinks the names. An initialisation of the segments may
fail, with the name created or not; `main` then returns without unlinking.

**Clients.** A thread of the benchmark is its position in `worker`, the two
flags of its waiting loop and its result; the terminal client is the same record
in thread 0. Packets of a worker carry the number of the request they answer,
which the clients do not see. A worker that is gone closes its connection, or it
is just not heard of any more (`silent`): `proto_recv` fails in the first case
and goes on waiting in the second (finding 4). A send to a closed connection is
lost, fails, or ends the whole process (SIGPIPE); a send to a silent peer is
lost.

**Checksum, BattleLog.** Pure operators. `Folded` is the carry loop unrolled
twice, which `LoopEnds` shows to be enough; a line of the log is an opaque value.

**Conn.** Bytes are cells naming their packet and position. TLS records, socket
buffers and end of file are modelled from how the code uses them. The checksum
holds exactly for the cells of one packet in order: a 16-bit collision is not
modelled (`Checksum` says which changes are noticed: any change of a single
byte, but not the exchange of two).

## Runs

| run | instance | what it shows |
| --- | --- | --- |
| `game` | a card of each kind, 4 hp, 2 player turns, fair | outcome fields right (wins of either side, by card or poison, and draws), growth bounds of the statuses, readiness, a board per request, frozen end, damage rule, the AI's choice and the end of its turn, refinement of `Duel` |
| `store` | 3 workers, 2 slots, saves up to number 3, kills | a game is lost only by logins that met in a slot or by the save of an overtaken worker, and mixed up only by a copy cut in two; no login takes two slots |
| `store_full` | 3 workers, 2 slots | **violated**: refused though every earlier player has left |
| `sessions` | 3 connections, 2 clicks, kills, 1 restart | what was seen is stored and never taken back, board and hand match, player never locked out; a card click hits the hand it was aimed at, unless the player's END_TURN was on its way before it or the session changed |
| `sessions_live` | 3 connections, the second may overlap, 1 click, kills, 1 restart, the store may be full, fair | no click executed twice, clicks answered, GUI recovers |
| `sessions_rollback` | 3 connections, overlap | **violated**: the old worker's save undoes seen moves |
| `sessions_stuck` | 2 connections, overlap | **violated**: resume between the two saves of END_TURN |
| `server` | 2 servers, 2 connections, 1 packet each, SIGINTs to the first, fair | at most one connection after SIGINT, workers that end before the SIGCHLD handler runs are reaped, sessions kept over an orderly hand-over, no increment lost or doubled, monitor finds the server, descriptors and port released, shutdown happens |
| `clients` | 2 threads, 2 rounds, 3 keys, fair | replies matched to their requests; every benchmark thread ends, unless its own peer is silent or SIGPIPE ends the process |
| `bench_ok` | 2 threads, 2 rounds | **violated**: an interrupted session is counted as ok |
| `conn` | header 2, payloads 0-5, cap 3, records of 3, 3 packets, fair | framing, nothing hidden from `select()`, delivery |
| `conn_timeout` | 1 packet, silent sender, fair | **violated**: the timeout does not end `proto_recv` |

Bounds. Two slots and three workers let two logins meet in a slot beside a third
session or a third worker resume a session of the two, let two workers play one
session while a third resumes it, and fill the store; three saves are the login,
the turn's end and the AI's turn. Hit points are low and cards
cheap so that games end by each cause within the bound on turns, a draw by poison
included. Three connections are needed for the rollback (one
worker left behind, one that shows progress, one that loses it), and two clicks
for each of them to have one. Two clicks are also what a card click behind an
END_TURN needs; an instance with three clicks, two connections and no kills
was checked too. `sessions` allows no overlap because the two findings are what
overlap leads to. Two servers and two connections give a worker that outlives
its server beside one of its successor, two workers that end at once, and a
connection behind the one that the stop signal let through. Two rounds and two
threads let one thread be interrupted at each of its waits while the other ends.
Sizes in `Conn` put a packet below, at and above a
record, the receiver's capacity and the stack buffer. Deadlock is checked for
`Game`; the other instances stop when their bounds are used up.

Fairness. The AI's turn and every worker step need no outside event, so a
scheduled process takes them (weak fairness). The GUI's network thread likewise.
Nobody has to click, send, close, kill or restart. In `ServerMain` the parent
and the workers are scheduled, and `SSL_accept` ends (its timeout is not retried
by this code); nobody has to connect, send, close or signal. In `Clients` a
worker that lives answers what it receives, which is `BoardAlwaysSent` of
`Game`; nobody has to press a key. In `Conn` both ends run, but
the sender need not say anything: that is the silent peer.

## Findings

1. Slots are never freed (`store_full`).
2. Two workers of one session overwrite each other's saves (`sessions_rollback`).
3. A session resumed on the AI's turn locks the GUI (`sessions_stuck`).
4. Socket timeouts have no effect under TLS (`conn_timeout`).
5. The benchmark counts interrupted sessions as ok (`bench_ok`).

`PROJECT.json` quotes what the repository says instead.

Also seen, without a run of their own, although `src/README.md` promises
something else:

- `ipc_alloc_session` lets two simultaneous logins share a slot, as the comment at
  `ipc.c:69` concedes; one of the two games is lost. `src/README.md:49` lists the
  correct handling of concurrent connections and `:51` correct synchronization. The `store` run contains the race: without `met` in it,
  `AckedIsStored` is violated.
- Workers that end after the first SIGCHLD stay zombies until the parent ends;
  `src/README.md:52` lists the absence of resource leaks. `Reaped` is about the
  others only.
- Connections whose TLS handshake fails are not counted as accepted
  (`src/README.md:146`), nor packets of the handshake as handled (`:149`, `:117`).
  `CountsBounded` holds whichever way these are counted; it is about lost, doubled
  and misdirected increments.
- One SIGPIPE ends the benchmark without its report, so the interrupted sessions of
  `src/README.md:109` are not reported.

And, where no document says otherwise: a second SIGINT leaves the segments' names
behind, and the next server then zeroes what workers of the first still use; so
does a second server started beside a running one, before it finds the port
taken; the monitor prints the total of connections as "Active Connections" and
does not follow a restart.

## Proofs

`Game_proofs` proves for every non-empty pool of cards, 1 to 100 starting hit
points and up to 250 player turns: `TypeOK`, `OutcomeCorrect`, `StatusBounds`,
`ReadyToRecv`, `BoardAlwaysSent`, `AiPicksFirstBest`, `FinalBoardFrozen`,
`DamageRule` and the refinement `DuelSpec`.

The inductive invariant `IInv` is the conjunction of the five state properties
and `ControlInv` (a live game is in its MAIN phase with no winner; the AI's loop
runs only on the AI's turn of a live game). They need each other. That the
fields do not wrap needs `StatusBounds`; it is inductive because it counts the
mana still to be spent, at the best rate any card offers (`CardFacts`), and for
poison because both sides tick at the end of both turns. `OutcomeCorrect` needs
the fields not to wrap. `BoardAlwaysSent` needs `ReadyToRecv`, which needs
`ControlInv`. `PlayerEffect` and `AiEffect` say what a card does,
`PlayerCardStep`, `AiCardStep` and `PhaseEndStep` carry it to the invariant, one
lemma per action follows, and the action properties and the refinement use the
invariant and `StepShape`. The AI's choice needs only the types: every score is
above the -9999 the loop starts from (`ScoreAboveStart`), and comparing with `>`
keeps the first of equal scores (`LoopKeepsFirstBest`).

`HandlerOutcomes` is the bridge to `Sessions`, which keeps of a game only its
turn, its end and its number: a request is refused, plays one card, or ends the
turn, and a round of the AI's loop plays one card, and nothing else happens to
what `Sessions` keeps (`PlayOutcomes`, `EndOutcomes`, `AiOutcomes`). Each round of
the AI uses up a card, so a turn has at most `HAND_N` of them.

`Checksum_proofs` proves that the sum of every packet that fits the buffers stays
within the `uint32_t` (`SumFits`), that the carry loop then ends after two
iterations below 65536 (`LoopEnds`), and that a packet in which one byte was
changed is refused (`DamagedByteRefused`, from the same about sums,
`ByteChangeDetected`). The argument: what is left of a sum is congruent to it
modulo 65535 (`FoldedIsRemainder`, from `CarryStep`), two bytes differ by less
than that, and changing a byte changes the sum by their difference (`SumChange`).

`BattleLog_proofs` proves that pushing a line scrolls the panel by one, for every
ring (`PushScrolls`), and by induction that the panel shows the last six of any
number of lines (`PanelShowsLast`).

The inductions over a packet and over the pushed lines go by least counterexample
(`Least`, `Induct`): the set of the numbers for which the claim fails has a least
element. A set can be a parameter of a lemma that the provers instantiate, where
the predicate of the library's induction theorems cannot.

`SessionStore_proofs` proves `TypeOK`, `AckedIsStored`, `ResumedWhole` and
`NoSlotWasted` for any number of workers, slots and saves, without a hypothesis on
who races with whom, resumes what or is killed where. `SidInv` says who is in
which session, `NameInv` that names are unique and that a login which met nobody
keeps its slot; `TakeInv` and `UseInv` that whoever writes into a slot that is not
its own has met the slot's owner, so damage stays among the sessions in `met`;
`CountInv` that every valid slot is due to a login of its own. For the other
sessions `OrderInv` puts what was sent, what is stored and what the session's last
worker holds in the order of the saves, and `TearInv` says that board and hand
belong together except while a single worker is between its two copies.

`Sessions_proofs` proves `TypeOK` and `AtMostOnce` for any numbers of connections,
clicks and restarts, with kills and any overlap. `SeenIsDurable`, `NoRollback`,
`PairShown`, `NobodyStuck` and `AimedAtSeen` are proved for every behaviour in which
no two workers are in the same session (`[]OnePerSession`: `SeenIfApart`,
`OnlyTwinsRollBack`, `PairIfApart`, `NotStuckIfApart`, `AimedIfApart`), however many
workers run at once: a GUI that lost its connection before the first answer logs in
anew while its old worker still runs. The hypothesis is about behaviours, not
constants, because nothing in the code guarantees it: the GUI's sleep of one second
only makes it likely. The runs `sessions_rollback` and `sessions_stuck` show that it cannot be
dropped: in both counterexamples a resumed session has two workers. So it is not the
overlap as such that the program suffers from, but that `ipc_load_session` hands out
a session some other worker still plays. The invariants are layers, each used by the
next:

- `PendingInv`, `LogsInv`: a click is in the pipe, on one connection or in a log,
  and in one place of it; this gives `AtMostOnce`.
- `WaitInv`: the clicks on their way, the boards that answer some and the one the
  worker owes are covered by the count of unanswered clicks.
- `NamesInv`: every session id in sight is one that a login made.
- `SeenInv`: the boards on the screen, on their way, in the worker and in the store
  come in the order of the game; the save before the send is what makes the steps
  of a worker keep this. With `OnePerSession` nobody else stores a board of the
  worker's session, or saves half of it while it is loaded.
- `HandsInv`, `ShowInv`: in worker, store, queue and screen a hand belongs to the
  board beside it, except within a save, a load, or a STATE without its HAND.
- `TurnInv`, `LatestInv`: only a worker in mid END_TURN stores a board of the AI's
  turn, and the last board sent is the game the worker waits with.
- `DealInv`, `HeldInv`, `LogInv`: every hand in view is the one of the player's
  present turn, or has an END_TURN on it in the log, or its game is over.

`ServerMain_proofs` proves `TypeOK`, `OneMoreAtMost`, `Reaped`, `SessionsKept`,
`MonitorFindsServer` and `CountsBounded` for any number of servers, connections,
packets and signals (the last three contain `hist.orderly`, as in the run).
`OrderInv` is the heart of it: earlier servers have returned, a name belongs to
the server between its initialisation and its unlink, nobody maps a segment of
another server. The counters need three invariants more: a connection is on its
way to one worker only (`FlowInv`), so the events of a worker follow its program
counter (`EventInv`), so each is counted once (`CountInv`, what the code does
exactly: handshakes that succeed and packets of the main loop).

`Conn_proofs` proves `TypeOK`, `FramesInOrder` and `NothingHidden` for every header
size, capacity, record size and buffer. What the receiver has read, what is inside
SSL, each record on the wire and what is still to be written are pieces of
packets, and each starts at the place where the one before it ends
(`PendingInv`, `WireInv`, `OutInv`); a record never spans two packets, because
`conn_writen` is called once for each.

`Clients_proofs` proves `TypeOK`, `AppInStep` and `BenchInStep` for any number of
threads, rounds and keys. `ThreadInv` gives, for each point of a thread, which
request may be on its way (`RequestInv`), what it has read (`ReadInv`) and the
lists of packets it can still find unread (`UnreadInv`): the benchmark's are
always one HAND behind, the terminal client's are empty at each key.

The assumptions on constants say that they are natural numbers (positive where
0 makes no sense), that `NO_SID` is no session's id, and in `Game` what was said
above; TLC evaluates them in every run.

Only model-checked. Liveness (`AiTurnEnds`, `ClicksAnswered`, `Recovers`,
`Delivered`, `EofSeen`, `PortFreed`, `StopsSoon`, `ThreadsJoined`) needs fairness
and ENABLED, which are not within the prover's reach. The violated
properties have counterexamples instead of proofs.

## Not modelled, and the plan

Every component is modelled except what is listed below, every invariant and
action property that a passing run checks is proved, and the plan is done. One
question could be taken further: `PairShown` and `AimedAtSeen` are about runs
without a kill or a restart, because a worker killed between the two halves of a
save leaves a hand beside another board; what holds again once that session has
been saved whole is not stated.

Out of scope: drawing (raylib, ncurses), the monitor's output, `test_ssl.c`, OpenSSL and its contexts, certificate
scripts, wording of messages, and `readn`, `writen`, `ssl_readn`, `ssl_writen`,
which no program of the repository calls with TLS in use.
