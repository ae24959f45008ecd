--------------------------- MODULE Clients_proofs ---------------------------
(***************************************************************************)
(* Proofs about Clients: for any number of threads, rounds and commands.   *)
(* The invariant says, for each state a thread can be in, which packets    *)
(* may still be unread on its connection, as a prefix of a list of (op,    *)
(* request) pairs; while the worker lives it is the whole list.            *)
(***************************************************************************)
EXTENDS Clients, SequenceTheorems, FiniteSetTheorems, TLAPS

Ops      == {"NONE", "LOGIN_RESP", "RESUME_RESP", "STATE", "HAND", "ERROR"}
Commands == {"PLAY_CARD", "END_TURN"}
Packets  == [op : Ops, n : Nat, over : BOOLEAN]
Waits    == {"wait_play", "wait_end"}
BenchPcs == {"connect", "login", "play", "end", "ended"} \union Waits
Pcs      == BenchPcs \union {"recv_until", "getch"}
Thread   == [pc : Pcs, round : Nat, seen_state : BOOLEAN, seen_hand : BOOLEAN, st : Packets,
             hand : Packets, lat : {-1, 0, 1}, nsent : Nat, missed : BOOLEAN]
Worker   == [alive : BOOLEAN, silent : BOOLEAN, n : Nat, over : BOOLEAN]

(* What a list T of pairs says of the packets s that are not read yet.     *)
Sig(m) == <<m.op, m.n>>
Pairs  == Ops \X Int
Matches(s, T) == Len(s) <= Len(T) /\ \A i \in 1..Len(s) : Sig(s[i]) = T[i]
Unread(s, alive, Ts) == \E T \in Ts : Matches(s, T) /\ (alive => Len(s) = Len(T))

(* What is unread of the reply to the login, and of the reply to request n *)
(* before its STATE is read.                                               *)
LoginLists ==
  { << <<"LOGIN_RESP", 0>>, <<"RESUME_RESP", 0>>, <<"STATE", 0>>, <<"HAND", 0>> >>,
    << <<"RESUME_RESP", 0>>, <<"STATE", 0>>, <<"HAND", 0>> >>,
    << <<"STATE", 0>>, <<"HAND", 0>> >>,
    << <<"ERROR", 0>> >>, << >> }
ReplyLists(n) ==
  { << <<"ERROR", n>>, <<"STATE", n>>, <<"HAND", n>> >>, << <<"STATE", n>>, <<"HAND", n>> >> }
LateLists(n) ==
  { << <<"HAND", n - 1>>, <<"ERROR", n>>, <<"STATE", n>>, <<"HAND", n>> >>,
    << <<"HAND", n - 1>>, <<"STATE", n>>, <<"HAND", n>> >> }
HandList(n) == << <<"HAND", n>> >>

(* A thread x, its worker v, its requests c on their way.                  *)
Fresh(x, v, c, s) ==
  x.pc = "connect" => /\ ~v.alive /\ c = <<>> /\ s = <<>> /\ v.n = 0
                      /\ x.nsent = 0 /\ x.round = 0 /\ ~x.seen_state /\ ~x.seen_hand

RoundInv(x) ==
  /\ x.round <= Rounds
  /\ x.pc = "login" => x.round = 0
  /\ x.pc \in {"play", "end"} \union Waits => x.round < Rounds

RequestInv(x, v, c) ==
  /\ ~v.alive => c = <<>>
  /\ v.alive => \/ c = <<"LOGIN_REQ">> /\ x.nsent = 0 /\ v.n = 0
                \/ c = <<>> /\ v.n = x.nsent
                \/ \E op \in Commands : c = <<op>> /\ v.n + 1 = x.nsent
  /\ x.missed => ~v.alive /\ x.pc \notin {"connect", "login", "recv_until", "getch"}

(* What a thread that has missed no packet has read.                       *)
ReadInv(x, c) ==
  /\ x.pc = "login" => x.nsent = 0 /\ ~x.seen_state /\ ~x.seen_hand
  /\ x.pc \in {"play", "end"} => x.st.n = x.nsent /\ c = <<>>
  /\ x.pc \in Waits => x.nsent > 0 /\ ~x.seen_state
  /\ x.pc = "recv_until" => ~x.seen_hand /\ (x.seen_state => x.st.n = x.nsent /\ c = <<>>)
  /\ x.pc = "getch" => x.st.n = x.nsent /\ x.hand.n = x.nsent /\ c = <<>>

UnreadInv(x, v, c, s) ==
  /\ x.pc = "login" \/ (x.pc = "recv_until" /\ ~x.seen_state /\ x.nsent = 0) =>
       Unread(s, v.alive, IF c = <<>> THEN LoginLists ELSE {<<>>})
  /\ x.pc \in {"play", "end"} \/ (x.pc = "recv_until" /\ x.seen_state) =>
       Unread(s, v.alive, {HandList(x.nsent)})
  /\ x.pc \in Waits /\ ~x.seen_hand =>
       Unread(s, v.alive, IF c = <<>> THEN LateLists(x.nsent) ELSE {HandList(x.nsent - 1)})
  /\ \/ x.pc \in Waits /\ x.seen_hand
     \/ x.pc = "recv_until" /\ ~x.seen_state /\ x.nsent > 0
     => Unread(s, v.alive, IF c = <<>> THEN ReplyLists(x.nsent) ELSE {<<>>})
  /\ x.pc = "getch" => s = <<>>

ThreadInv(x, v, c, s) ==
  /\ Fresh(x, v, c, s) /\ RoundInv(x) /\ RequestInv(x, v, c)
  /\ ~x.missed => ReadInv(x, c) /\ UnreadInv(x, v, c, s)

Types ==
  /\ proc \in {"bench", "app", "killed", "exited"}
  /\ th \in [Ids -> Thread] /\ srv \in [Ids -> Worker]
  /\ c2s \in [Ids -> Seq({"LOGIN_REQ"} \union Commands)] /\ s2c \in [Ids -> Seq(Packets)]

Threaded == \A t \in Ids : ThreadInv(th[t], srv[t], c2s[t], s2c[t])

(* The results of the benchmark.                                           *)
Results ==
  proc \in {"bench", "exited"} =>
    \A t \in Ids : th[t].pc \in BenchPcs /\ (th[t].pc = "ended" => th[t].lat # 0)

Reported == report = NoReport \/ report.ok + report.fail = Threads

IInv == Types /\ Threaded /\ Results /\ Reported
-----------------------------------------------------------------------------
(* Facts about the lists of unread packets.                                *)

(* The first unread packet is the first of its list, the others match the  *)
(* others.                                                                 *)
LEMMA MatchesTail ==
  ASSUME NEW S, NEW s \in Seq(S), NEW P, NEW T \in Seq(P), Matches(s, T), s # <<>>
  PROVE  /\ T # <<>> /\ Sig(Head(s)) = T[1]
         /\ Matches(Tail(s), Tail(T))
         /\ Len(s) = Len(T) => Len(Tail(s)) = Len(Tail(T))
<1>1. Len(s) \in Nat /\ Len(T) \in Nat /\ Len(s) > 0 BY EmptySeq, LenProperties
<1>2. Len(T) > 0 /\ T # <<>> BY <1>1, EmptySeq DEF Matches
<1>3. /\ Len(Tail(s)) = Len(s) - 1 /\ \A i \in 1..Len(Tail(s)) : Tail(s)[i] = s[i + 1]
      /\ Len(Tail(T)) = Len(T) - 1 /\ \A i \in 1..Len(Tail(T)) : Tail(T)[i] = T[i + 1]
      /\ Head(s) = s[1]
  BY <1>1, <1>2, HeadTailProperties
<1>4. ASSUME NEW i \in 1..Len(Tail(s)) PROVE Sig(Tail(s)[i]) = Tail(T)[i]
  <2>1. i + 1 \in 1..Len(s) /\ i \in 1..Len(Tail(T)) BY <1>1, <1>3 DEF Matches
  <2> QED BY <1>3, <2>1 DEF Matches
<1>5. Sig(Head(s)) = T[1] BY <1>1, <1>3 DEF Matches
<1>6. Len(Tail(s)) <= Len(Tail(T)) BY <1>1, <1>3 DEF Matches
<1>7. Matches(Tail(s), Tail(T)) BY <1>4, <1>6 DEF Matches
<1> QED BY <1>2, <1>3, <1>5, <1>7

(* A connection that is lost loses a suffix.                               *)
LEMMA MatchesFront ==
  ASSUME NEW S, NEW s \in Seq(S), NEW T, Len(T) \in Nat, Matches(s, T), NEW k \in 0..Len(s)
  PROVE  Matches(SubSeq(s, 1, k), T) /\ SubSeq(s, 1, k) \in Seq(S)
<1>1. Len(s) \in Nat /\ k \in Nat BY LenProperties
<1>2. \A i \in 1..k : s[i] \in S BY <1>1
<1>3. /\ SubSeq(s, 1, k) \in Seq(S) /\ Len(SubSeq(s, 1, k)) = k
      /\ \A i \in 1..k : SubSeq(s, 1, k)[i] = s[i]
  BY <1>1, <1>2, SubSeqProperties
<1> DEFINE f == SubSeq(s, 1, k)
<1> HIDE DEF f
<1>4. Len(f) <= Len(T) /\ \A i \in 1..Len(f) : Sig(f[i]) = T[i] BY <1>1, <1>3 DEF Matches, f
<1>5. Matches(f, T) BY <1>4 DEF Matches
<1> QED BY <1>3, <1>5 DEF f

(* A worker's reply comes behind all that is unread.                       *)
LEMMA MatchesConcat ==
  ASSUME NEW S, NEW s \in Seq(S), NEW r \in Seq(S), NEW P, NEW T \in Seq(P), NEW U \in Seq(P),
         Matches(s, T), Len(s) = Len(T), Matches(r, U), Len(r) = Len(U)
  PROVE  Matches(s \o r, T \o U) /\ Len(s \o r) = Len(T \o U)
<1>1. Len(s) \in Nat /\ Len(r) \in Nat BY LenProperties
<1>2. /\ Len(s \o r) = Len(s) + Len(r) /\ Len(T \o U) = Len(s) + Len(r)
      /\ \A i \in 1..(Len(s) + Len(r)) : (s \o r)[i] = IF i <= Len(s) THEN s[i] ELSE r[i - Len(s)]
      /\ \A i \in 1..(Len(s) + Len(r)) : (T \o U)[i] = IF i <= Len(s) THEN T[i] ELSE U[i - Len(s)]
  <2>1. Len(T) = Len(s) /\ Len(U) = Len(r) OBVIOUS
  <2>2. /\ Len(s \o r) = Len(s) + Len(r)
        /\ \A i \in 1..(Len(s) + Len(r)) : (s \o r)[i] = IF i <= Len(s) THEN s[i] ELSE r[i - Len(s)]
    BY ConcatProperties
  <2>3. /\ Len(T \o U) = Len(T) + Len(U)
        /\ \A i \in 1..(Len(T) + Len(U)) : (T \o U)[i] = IF i <= Len(T) THEN T[i] ELSE U[i - Len(T)]
    BY ConcatProperties
  <2> QED BY <2>1, <2>2, <2>3
<1>3. ASSUME NEW i \in 1..(Len(s) + Len(r)) PROVE Sig((s \o r)[i]) = (T \o U)[i]
  <2>1. CASE i <= Len(s)
    <3>1. i \in 1..Len(s) BY <1>1, <2>1
    <3> QED BY <1>2, <2>1, <3>1 DEF Matches
  <2>2. CASE ~(i <= Len(s))
    <3>1. i - Len(s) \in 1..Len(r) BY <1>1, <2>2
    <3> QED BY <1>2, <2>2, <3>1 DEF Matches
  <2> QED BY <2>1, <2>2
<1> QED BY <1>1, <1>2, <1>3 DEF Matches

(* No packet matches the empty list.                                       *)
LEMMA UnreadNone ==
  ASSUME NEW s \in Seq(Packets), NEW alive \in BOOLEAN, Unread(s, alive, {<<>>})
  PROVE  s = <<>>
<1>1. Len(s) <= Len(<<>>) BY DEF Unread, Matches
<1>2. Len(<<>>) = 0 /\ Len(s) \in Nat BY LenProperties
<1> QED BY <1>1, <1>2, EmptySeq

(* Nothing is unread: the start of any list, if the worker is gone.        *)
LEMMA UnreadEmpty ==
  ASSUME NEW Ts, NEW T \in Ts, Len(T) \in Nat
  PROVE  Unread(<<>>, FALSE, Ts) /\ (Len(T) = 0 => Unread(<<>>, TRUE, Ts))
<1>1. Len(<<>>) = 0 /\ 1..0 = {} OBVIOUS
<1>2. Matches(<<>>, T) BY <1>1 DEF Matches
<1> QED BY <1>1, <1>2 DEF Unread

(* The lists are sequences of pairs.                                       *)
LEMMA Lists ==
  ASSUME NEW n \in Int
  PROVE  /\ \A T \in LoginLists : T \in Seq(Pairs) /\ Len(T) \in Nat
         /\ \A T \in ReplyLists(n) : T \in Seq(Pairs) /\ Len(T) \in Nat
         /\ \A T \in LateLists(n) : T \in Seq(Pairs) /\ Len(T) \in Nat
         /\ HandList(n) \in Seq(Pairs) /\ Len(HandList(n)) = 1
<1>1. /\ <<"ERROR", n>> \in Pairs /\ <<"STATE", n>> \in Pairs /\ <<"HAND", n>> \in Pairs
      /\ <<"HAND", n - 1>> \in Pairs
  BY DEF Pairs, Ops
<1>2. /\ <<"LOGIN_RESP", 0>> \in Pairs /\ <<"RESUME_RESP", 0>> \in Pairs
      /\ <<"STATE", 0>> \in Pairs /\ <<"HAND", 0>> \in Pairs /\ <<"ERROR", 0>> \in Pairs
  BY DEF Pairs, Ops
<1>3. \A T \in LoginLists : T \in Seq(Pairs)
  <2>1. << <<"LOGIN_RESP", 0>>, <<"RESUME_RESP", 0>>, <<"STATE", 0>>, <<"HAND", 0>> >> \in Seq(Pairs)
    BY <1>2
  <2>2. << <<"RESUME_RESP", 0>>, <<"STATE", 0>>, <<"HAND", 0>> >> \in Seq(Pairs) BY <1>2
  <2>3. << <<"STATE", 0>>, <<"HAND", 0>> >> \in Seq(Pairs) BY <1>2
  <2>4. << <<"ERROR", 0>> >> \in Seq(Pairs) /\ <<>> \in Seq(Pairs) BY <1>2
  <2> QED BY <2>1, <2>2, <2>3, <2>4, Zenon DEF LoginLists
<1>4. \A T \in ReplyLists(n) : T \in Seq(Pairs)
  <2>1. << <<"ERROR", n>>, <<"STATE", n>>, <<"HAND", n>> >> \in Seq(Pairs) BY <1>1
  <2>2. << <<"STATE", n>>, <<"HAND", n>> >> \in Seq(Pairs) BY <1>1
  <2> QED BY <2>1, <2>2, Zenon DEF ReplyLists
<1>5. \A T \in LateLists(n) : T \in Seq(Pairs)
  <2>1. << <<"HAND", n - 1>>, <<"ERROR", n>>, <<"STATE", n>>, <<"HAND", n>> >> \in Seq(Pairs) BY <1>1
  <2>2. << <<"HAND", n - 1>>, <<"STATE", n>>, <<"HAND", n>> >> \in Seq(Pairs) BY <1>1
  <2> QED BY <2>1, <2>2, Zenon DEF LateLists
<1>6. HandList(n) \in Seq(Pairs) /\ Len(HandList(n)) = 1 BY <1>1 DEF HandList
<1> QED BY <1>3, <1>4, <1>5, <1>6, LenProperties

(* The last HAND.                                                          *)
LEMMA ReadHand ==
  ASSUME NEW s \in Seq(Packets), NEW alive \in BOOLEAN, NEW n \in Int,
         Unread(s, alive, {HandList(n)}), s # <<>>
  PROVE  Head(s).op = "HAND" /\ Head(s).n = n /\ Tail(s) = <<>>
<1> DEFINE T == << <<"HAND", n>> >>
<1>1. T \in Seq(Pairs) /\ Tail(T) = <<>> /\ T[1] = <<"HAND", n>>
  <2>1. <<"HAND", n>> \in Pairs BY DEF Pairs, Ops
  <2> QED BY <2>1
<1>2. Matches(s, T) BY DEF Unread, HandList
<1> HIDE DEF T
<1>3. Sig(Head(s)) = T[1] /\ Matches(Tail(s), Tail(T)) BY <1>1, <1>2, MatchesTail
<1>4. Tail(s) \in Seq(Packets) /\ Len(Tail(s)) <= Len(<<>>) BY <1>1, <1>3, HeadTailProperties DEF Matches
<1>5. Len(<<>>) = 0 /\ Len(Tail(s)) \in Nat BY <1>4, LenProperties
<1>6. Tail(s) = <<>> BY <1>4, <1>5, EmptySeq
<1> QED BY <1>1, <1>3, <1>6 DEF Sig

(* A packet of the reply to request n.                                     *)
LEMMA ReadReply ==
  ASSUME NEW s \in Seq(Packets), NEW alive \in BOOLEAN, NEW n \in Int,
         Unread(s, alive, ReplyLists(n)), s # <<>>
  PROVE  /\ Head(s).op # "HAND"
         /\ Head(s).op = "STATE" => Head(s).n = n /\ Unread(Tail(s), alive, {HandList(n)})
         /\ Head(s).op # "STATE" => Unread(Tail(s), alive, ReplyLists(n))
<1>1. PICK T \in ReplyLists(n) : Matches(s, T) /\ (alive => Len(s) = Len(T)) BY DEF Unread
<1>2. T \in Seq(Pairs) BY <1>1, Lists
<1>3. /\ Sig(Head(s)) = T[1] /\ Matches(Tail(s), Tail(T))
      /\ alive => Len(Tail(s)) = Len(Tail(T))
  BY <1>1, <1>2, MatchesTail
<1>4. CASE T = << <<"ERROR", n>>, <<"STATE", n>>, <<"HAND", n>> >>
  <2>1. Tail(T) = << <<"STATE", n>>, <<"HAND", n>> >> /\ T[1] = <<"ERROR", n>> BY <1>4
  <2>2. Tail(T) \in ReplyLists(n) BY <2>1 DEF ReplyLists
  <2>3. Unread(Tail(s), alive, ReplyLists(n)) BY <1>3, <2>2 DEF Unread
  <2> QED BY <1>3, <2>1, <2>3 DEF Sig
<1>5. CASE T = << <<"STATE", n>>, <<"HAND", n>> >>
  <2>1. Tail(T) = HandList(n) /\ T[1] = <<"STATE", n>> BY <1>5 DEF HandList
  <2>2. Unread(Tail(s), alive, {HandList(n)}) BY <1>3, <2>1 DEF Unread
  <2> QED BY <1>3, <2>1, <2>2 DEF Sig
<1> QED BY <1>1, <1>4, <1>5 DEF ReplyLists

(* A packet of the reply to the login.                                     *)
LEMMA ReadLogin ==
  ASSUME NEW s \in Seq(Packets), NEW alive \in BOOLEAN,
         Unread(s, alive, LoginLists), s # <<>>
  PROVE  /\ Head(s).op # "HAND"
         /\ Head(s).op = "STATE" => Head(s).n = 0 /\ Unread(Tail(s), alive, {HandList(0)})
         /\ Head(s).op # "STATE" => Unread(Tail(s), alive, LoginLists)
<1>1. PICK T \in LoginLists : Matches(s, T) /\ (alive => Len(s) = Len(T)) BY DEF Unread
<1>2. T \in Seq(Pairs) BY <1>1, Lists
<1>3. /\ T # <<>> /\ Sig(Head(s)) = T[1] /\ Matches(Tail(s), Tail(T))
      /\ alive => Len(Tail(s)) = Len(Tail(T))
  BY <1>1, <1>2, MatchesTail
<1>4. CASE T = << <<"LOGIN_RESP", 0>>, <<"RESUME_RESP", 0>>, <<"STATE", 0>>, <<"HAND", 0>> >>
  <2>1. /\ Tail(T) = << <<"RESUME_RESP", 0>>, <<"STATE", 0>>, <<"HAND", 0>> >>
        /\ T[1] = <<"LOGIN_RESP", 0>>
    BY <1>4
  <2>2. Tail(T) \in LoginLists BY <2>1 DEF LoginLists
  <2>3. Unread(Tail(s), alive, LoginLists) BY <1>3, <2>2 DEF Unread
  <2> QED BY <1>3, <2>1, <2>3 DEF Sig
<1>5. CASE T = << <<"RESUME_RESP", 0>>, <<"STATE", 0>>, <<"HAND", 0>> >>
  <2>1. Tail(T) = << <<"STATE", 0>>, <<"HAND", 0>> >> /\ T[1] = <<"RESUME_RESP", 0>> BY <1>5
  <2>2. Tail(T) \in LoginLists BY <2>1 DEF LoginLists
  <2>3. Unread(Tail(s), alive, LoginLists) BY <1>3, <2>2 DEF Unread
  <2> QED BY <1>3, <2>1, <2>3 DEF Sig
<1>6. CASE T = << <<"STATE", 0>>, <<"HAND", 0>> >>
  <2>1. Tail(T) = HandList(0) /\ T[1] = <<"STATE", 0>> BY <1>6 DEF HandList
  <2>2. Unread(Tail(s), alive, {HandList(0)}) BY <1>3, <2>1 DEF Unread
  <2> QED BY <1>3, <2>1, <2>2 DEF Sig
<1>7. CASE T = << <<"ERROR", 0>> >>
  <2>1. Tail(T) = <<>> /\ T[1] = <<"ERROR", 0>> BY <1>7
  <2>2. Tail(T) \in LoginLists BY <2>1 DEF LoginLists
  <2>3. Unread(Tail(s), alive, LoginLists) BY <1>3, <2>2 DEF Unread
  <2> QED BY <1>3, <2>1, <2>3 DEF Sig
<1> QED BY <1>1, <1>3, <1>4, <1>5, <1>6, <1>7 DEF LoginLists

(* The HAND of the request before comes first in a benchmark's wait.       *)
LEMMA ReadLate ==
  ASSUME NEW s \in Seq(Packets), NEW alive \in BOOLEAN, NEW n \in Int,
         Unread(s, alive, LateLists(n)), s # <<>>
  PROVE  Head(s).op = "HAND" /\ Unread(Tail(s), alive, ReplyLists(n))
<1>1. PICK T \in LateLists(n) : Matches(s, T) /\ (alive => Len(s) = Len(T)) BY DEF Unread
<1>2. T \in Seq(Pairs) BY <1>1, Lists
<1>3. /\ Sig(Head(s)) = T[1] /\ Matches(Tail(s), Tail(T))
      /\ alive => Len(Tail(s)) = Len(Tail(T))
  BY <1>1, <1>2, MatchesTail
<1>4. CASE T = << <<"HAND", n - 1>>, <<"ERROR", n>>, <<"STATE", n>>, <<"HAND", n>> >>
  <2>1. /\ Tail(T) = << <<"ERROR", n>>, <<"STATE", n>>, <<"HAND", n>> >>
        /\ T[1] = <<"HAND", n - 1>>
    BY <1>4
  <2>2. Tail(T) \in ReplyLists(n) BY <2>1 DEF ReplyLists
  <2>3. Unread(Tail(s), alive, ReplyLists(n)) BY <1>3, <2>2 DEF Unread
  <2> QED BY <1>3, <2>1, <2>3 DEF Sig
<1>5. CASE T = << <<"HAND", n - 1>>, <<"STATE", n>>, <<"HAND", n>> >>
  <2>1. Tail(T) = << <<"STATE", n>>, <<"HAND", n>> >> /\ T[1] = <<"HAND", n - 1>> BY <1>5
  <2>2. Tail(T) \in ReplyLists(n) BY <2>1 DEF ReplyLists
  <2>3. Unread(Tail(s), alive, ReplyLists(n)) BY <1>3, <2>2 DEF Unread
  <2> QED BY <1>3, <2>1, <2>3 DEF Sig
<1> QED BY <1>1, <1>4, <1>5 DEF LateLists
-----------------------------------------------------------------------------
(* The steps of the worker, for a thread x with its worker v, its requests *)
(* c and its unread packets s.                                             *)

(* The two kinds of reply to a request.                                    *)
LEMMA Replies ==
  ASSUME NEW n \in Nat, NEW over \in BOOLEAN,
         NEW r \in {Board(n, over), << Pkt("ERROR", n, over) >> \o Board(n, over)}
  PROVE  /\ r \in Seq(Packets)
         /\ \E U \in ReplyLists(n) : Matches(r, U) /\ Len(r) = Len(U)
<1> DEFINE e == Pkt("ERROR", n, over)
           a == Pkt("STATE", n, over)
           b == Pkt("HAND", n, over)
<1>1. /\ e \in Packets /\ a \in Packets /\ b \in Packets
      /\ Sig(e) = <<"ERROR", n>> /\ Sig(a) = <<"STATE", n>> /\ Sig(b) = <<"HAND", n>>
  BY DEF Pkt, Packets, Ops, Sig
<1>2. r = <<a, b>> \/ r = <<e, a, b>> BY DEF Board
<1> HIDE DEF e, a, b
<1>3. CASE r = <<a, b>>
  <2> DEFINE U == << <<"STATE", n>>, <<"HAND", n>> >>
  <2>1. U \in ReplyLists(n) BY DEF ReplyLists
  <2>2. Len(r) = 2 /\ Len(U) = 2 /\ r[1] = a /\ r[2] = b BY <1>3
  <2>3. Matches(r, U) BY <1>1, <2>2 DEF Matches
  <2>4. r \in Seq(Packets) BY <1>1, <1>3
  <2> QED BY <2>1, <2>2, <2>3, <2>4
<1>4. CASE r = <<e, a, b>>
  <2> DEFINE U == << <<"ERROR", n>>, <<"STATE", n>>, <<"HAND", n>> >>
  <2>1. U \in ReplyLists(n) BY DEF ReplyLists
  <2>2. Len(r) = 3 /\ Len(U) = 3 /\ r[1] = e /\ r[2] = a /\ r[3] = b BY <1>4
  <2>3. Matches(r, U) BY <1>1, <2>2 DEF Matches
  <2>4. r \in Seq(Packets) BY <1>1, <1>4
  <2> QED BY <2>1, <2>2, <2>3, <2>4
<1> QED BY <1>2, <1>3, <1>4

(* What a concatenation of short lists is.                                 *)
LEMMA Joined ==
  ASSUME NEW a, NEW b, NEW d, NEW e
  PROVE  <<a>> \o <<b, d>> = <<a, b, d>> /\ <<a>> \o <<b, d, e>> = <<a, b, d, e>>
<1> DEFINE S == {a, b, d, e}
<1>1. /\ <<a>> \in Seq(S) /\ <<b, d>> \in Seq(S) /\ <<b, d, e>> \in Seq(S)
      /\ <<a, b, d>> \in Seq(S) /\ <<a, b, d, e>> \in Seq(S)
  OBVIOUS
<1> HIDE DEF S
<1>2. <<a>> \o <<b, d>> = <<a, b, d>>
  <2>1. <<a>> \o <<b, d>> \in Seq(S) /\ Len(<<a>> \o <<b, d>>) = 3 BY <1>1, ConcatProperties
  <2>2. ASSUME NEW i \in 1..3 PROVE (<<a>> \o <<b, d>>)[i] = <<a, b, d>>[i]
    <3>1. (<<a>> \o <<b, d>>)[i] = IF i <= 1 THEN <<a>>[i] ELSE <<b, d>>[i - 1]
      BY <1>1, ConcatProperties
    <3>2. i = 1 \/ i = 2 \/ i = 3 OBVIOUS
    <3> QED BY <3>1, <3>2
  <2> QED BY <1>1, <2>1, <2>2, SeqEqual
<1>3. <<a>> \o <<b, d, e>> = <<a, b, d, e>>
  <2>1. <<a>> \o <<b, d, e>> \in Seq(S) /\ Len(<<a>> \o <<b, d, e>>) = 4 BY <1>1, ConcatProperties
  <2>2. ASSUME NEW i \in 1..4 PROVE (<<a>> \o <<b, d, e>>)[i] = <<a, b, d, e>>[i]
    <3>1. (<<a>> \o <<b, d, e>>)[i] = IF i <= 1 THEN <<a>>[i] ELSE <<b, d, e>>[i - 1]
      BY <1>1, ConcatProperties
    <3>2. i = 1 \/ i = 2 \/ i = 3 \/ i = 4 OBVIOUS
    <3> QED BY <3>1, <3>2
  <2> QED BY <1>1, <2>1, <2>2, SeqEqual
<1> QED BY <1>2, <1>3

(* A packet and a sequence of packets behind another one.                  *)
LEMMA AppendConcat ==
  ASSUME NEW s \in Seq(Packets), NEW e \in Packets, NEW b \in Seq(Packets)
  PROVE  Append(s, e) \o b = s \o (<<e>> \o b)
<1>1. <<e>> \in Seq(Packets) OBVIOUS
<1>2. (s \o <<e>>) \o b = s \o (<<e>> \o b) BY <1>1, ConcatAssociative
<1> QED BY <1>2, AppendIsConcat

(* A reply behind the HAND of the request before.                          *)
LEMMA LateReply ==
  ASSUME NEW n \in Nat, NEW s \in Seq(Packets), NEW r \in Seq(Packets),
         Unread(s, TRUE, {HandList(n - 1)}),
         NEW U \in ReplyLists(n), Matches(r, U), Len(r) = Len(U)
  PROVE  Unread(s \o r, TRUE, LateLists(n))
<1> DEFINE T == HandList(n - 1)
<1>1. Matches(s, T) /\ Len(s) = Len(T) BY DEF Unread
<1>2. T \in Seq(Pairs) /\ U \in Seq(Pairs) BY Lists
<1>3. T \o U \in LateLists(n)
  <2>1. CASE U = << <<"ERROR", n>>, <<"STATE", n>>, <<"HAND", n>> >>
    <3>1. HandList(n - 1) \o << <<"ERROR", n>>, <<"STATE", n>>, <<"HAND", n>> >>
            = << <<"HAND", n - 1>>, <<"ERROR", n>>, <<"STATE", n>>, <<"HAND", n>> >>
      <4>1. HandList(n - 1) = << <<"HAND", n - 1>> >> BY DEF HandList
      <4>2. \A a, b, d, e : <<a>> \o <<b, d, e>> = <<a, b, d, e>> BY Joined, ZenonT(60)
      <4> QED BY <4>1, <4>2, ZenonT(60)
    <3> QED BY <2>1, <3>1 DEF LateLists
  <2>2. CASE U = << <<"STATE", n>>, <<"HAND", n>> >>
    <3>1. HandList(n - 1) \o << <<"STATE", n>>, <<"HAND", n>> >>
            = << <<"HAND", n - 1>>, <<"STATE", n>>, <<"HAND", n>> >>
      BY Joined DEF HandList
    <3> QED BY <2>2, <3>1 DEF LateLists
  <2> QED BY <2>1, <2>2 DEF ReplyLists
<1> HIDE DEF T
<1>4. Matches(s \o r, T \o U) /\ Len(s \o r) = Len(T \o U) BY <1>1, <1>2, MatchesConcat
<1> QED BY <1>3, <1>4 DEF Unread

(* The HAND of the request before, without any reply.                      *)
LEMMA LateFront ==
  ASSUME NEW n \in Nat, NEW s \in Seq(Packets), NEW alive, Unread(s, alive, {HandList(n - 1)})
  PROVE  Unread(s, FALSE, LateLists(n))
<1> DEFINE T == << <<"HAND", n - 1>>, <<"STATE", n>>, <<"HAND", n>> >>
<1>1. Matches(s, HandList(n - 1)) BY DEF Unread
<1>2. Len(HandList(n - 1)) = 1 /\ HandList(n - 1)[1] = <<"HAND", n - 1>> BY DEF HandList
<1>3. Len(T) = 3 /\ T[1] = <<"HAND", n - 1>> OBVIOUS
<1>4. T \in LateLists(n) BY DEF LateLists
<1> HIDE DEF T
<1>5. Len(s) \in Nat BY LenProperties
<1>6. Matches(s, T) BY <1>1, <1>2, <1>3, <1>5 DEF Matches
<1> QED BY <1>4, <1>6 DEF Unread

(* The thread is ended: only its requests are counted.                     *)
LEMMA Ended ==
  ASSUME NEW x \in Thread, NEW v \in Worker, NEW c, NEW s, x.pc = "ended",
         x.round <= Rounds, RequestInv(x, v, c)
  PROVE  ThreadInv(x, v, c, s)
BY DEF ThreadInv, Fresh, RoundInv, ReadInv, UnreadInv, Waits

(* Where a request can be under way.                                       *)
LEMMA Asked ==
  ASSUME NEW x \in Thread, NEW v \in Worker, NEW c, NEW s, ThreadInv(x, v, c, s),
         v.alive, c # <<>>
  PROVE  /\ ~x.missed /\ x.round <= Rounds
         /\ \/ c = <<"LOGIN_REQ">> /\ x.nsent = 0 /\ v.n = 0
            \/ \E op \in Commands : c = <<op>> /\ v.n + 1 = x.nsent
         /\ \/ x.pc = "ended"
            \/ x.pc = "login" /\ x.nsent = 0
            \/ x.pc = "recv_until" /\ ~x.seen_state
            \/ x.pc \in Waits /\ x.nsent > 0
<1>1. ~x.missed BY DEF ThreadInv, RequestInv
<1>2. \/ c = <<"LOGIN_REQ">> /\ x.nsent = 0 /\ v.n = 0
      \/ \E op \in Commands : c = <<op>> /\ v.n + 1 = x.nsent
  BY DEF ThreadInv, RequestInv
<1>3. x.pc \in Pcs BY DEF Thread
<1>4. x.pc \notin {"connect", "play", "end", "getch"} BY <1>1 DEF ThreadInv, Fresh, ReadInv
<1>5. x.pc = "recv_until" => ~x.seen_state BY <1>1 DEF ThreadInv, ReadInv
<1>6. /\ x.pc = "login" => x.nsent = 0
      /\ x.pc \in Waits => x.nsent > 0
      /\ x.round <= Rounds
  BY <1>1 DEF ThreadInv, ReadInv, RoundInv
<1> QED BY <1>1, <1>2, <1>3, <1>4, <1>5, <1>6 DEF Pcs, BenchPcs

(* LOGIN_REQ is answered.                                                  *)
LEMMA SrvLoginThread ==
  ASSUME NEW x \in Thread, NEW v \in Worker, NEW c, NEW s, ThreadInv(x, v, c, s),
         v.alive, c # <<>>, Head(c) = "LOGIN_REQ"
  PROVE  /\ Tail(c) = <<>>
         /\ ThreadInv(x, v, <<>>, << Pkt("LOGIN_RESP", 0, FALSE), Pkt("RESUME_RESP", 0, FALSE),
                                     Pkt("STATE", 0, FALSE), Pkt("HAND", 0, FALSE) >>)
         /\ ThreadInv(x, [v EXCEPT !.alive = FALSE], <<>>, << Pkt("ERROR", 0, FALSE) >>)
<1>1. c = <<"LOGIN_REQ">> /\ x.nsent = 0 /\ v.n = 0 /\ ~x.missed /\ x.round <= Rounds
  <2>1. \A op \in Commands : Head(<<op>>) # "LOGIN_REQ" BY DEF Commands
  <2> QED BY <2>1, Asked
<1>2. \/ x.pc = "ended"
      \/ x.pc = "login"
      \/ x.pc = "recv_until" /\ ~x.seen_state
  BY <1>1, Asked
<1>3. x.pc # "ended" => ReadInv(x, <<>>) BY <1>1, <1>2 DEF ThreadInv, ReadInv, Waits
<1>4. ASSUME NEW w \in Worker, w.n = v.n, NEW r, Unread(r, w.alive, LoginLists)
      PROVE  ThreadInv(x, w, <<>>, r)
  <2>1. RequestInv(x, w, <<>>) BY <1>1, <1>4 DEF ThreadInv, RequestInv
  <2>2. CASE x.pc = "ended" BY <1>1, <2>1, <2>2, Ended
  <2>3. CASE x.pc # "ended"
    <3>1. UnreadInv(x, w, <<>>, r) BY <1>1, <1>2, <1>4, <2>3 DEF UnreadInv, Waits
    <3>2. Fresh(x, w, <<>>, r) BY <1>2, <2>3 DEF Fresh
    <3> QED BY <1>1, <1>3, <2>1, <2>3, <3>1, <3>2 DEF ThreadInv
  <2> QED BY <2>2, <2>3
<1>5. Unread(<< Pkt("LOGIN_RESP", 0, FALSE), Pkt("RESUME_RESP", 0, FALSE),
                Pkt("STATE", 0, FALSE), Pkt("HAND", 0, FALSE) >>, v.alive, LoginLists)
  <2> DEFINE T == << <<"LOGIN_RESP", 0>>, <<"RESUME_RESP", 0>>, <<"STATE", 0>>, <<"HAND", 0>> >>
             a == Pkt("LOGIN_RESP", 0, FALSE)
             b == Pkt("RESUME_RESP", 0, FALSE)
             d == Pkt("STATE", 0, FALSE)
             e == Pkt("HAND", 0, FALSE)
             r == <<a, b, d, e>>
  <2>1. /\ Sig(a) = <<"LOGIN_RESP", 0>> /\ Sig(b) = <<"RESUME_RESP", 0>>
        /\ Sig(d) = <<"STATE", 0>> /\ Sig(e) = <<"HAND", 0>>
    BY DEF Sig, Pkt
  <2> HIDE DEF a, b, d, e
  <2>2. Len(r) = 4 /\ Len(T) = 4 /\ r[1] = a /\ r[2] = b /\ r[3] = d /\ r[4] = e OBVIOUS
  <2>3. /\ T[1] = <<"LOGIN_RESP", 0>> /\ T[2] = <<"RESUME_RESP", 0>>
        /\ T[3] = <<"STATE", 0>> /\ T[4] = <<"HAND", 0>>
    OBVIOUS
  <2>4. T \in LoginLists BY DEF LoginLists
  <2> HIDE DEF r, T
  <2>5. Matches(r, T)
    <3>1. ASSUME NEW i \in 1..4 PROVE Sig(r[i]) = T[i]
      <4>1. i = 1 \/ i = 2 \/ i = 3 \/ i = 4 OBVIOUS
      <4> QED BY <2>1, <2>2, <2>3, <4>1
    <3> QED BY <2>2, <3>1 DEF Matches
  <2>6. Unread(r, v.alive, LoginLists) BY <2>2, <2>4, <2>5 DEF Unread
  <2> QED BY <2>6 DEF r, a, b, d, e
<1>6. Unread(<< Pkt("ERROR", 0, FALSE) >>, FALSE, LoginLists)
  <2> DEFINE T == << <<"ERROR", 0>> >>
             e == Pkt("ERROR", 0, FALSE)
             r == <<e>>
  <2>1. Sig(e) = <<"ERROR", 0>> BY DEF Sig, Pkt
  <2> HIDE DEF e
  <2>2. Len(r) = 1 /\ Len(T) = 1 /\ r[1] = e /\ T[1] = <<"ERROR", 0>> OBVIOUS
  <2>4. T \in LoginLists BY DEF LoginLists
  <2> HIDE DEF r, T
  <2>5. Matches(r, T) BY <2>1, <2>2 DEF Matches
  <2>6. Unread(r, FALSE, LoginLists) BY <2>2, <2>4, <2>5 DEF Unread
  <2> QED BY <2>6 DEF r, e
<1>7. [v EXCEPT !.alive = FALSE] \in Worker /\ [v EXCEPT !.alive = FALSE].n = v.n
      /\ [v EXCEPT !.alive = FALSE].alive = FALSE
  BY DEF Worker
<1>8. Tail(c) = <<>> BY <1>1
<1> QED BY <1>4, <1>5, <1>6, <1>7, <1>8

(* A request is answered.                                                  *)
LEMMA SrvRequestThread ==
  ASSUME NEW x \in Thread, NEW v \in Worker, NEW c, NEW s \in Seq(Packets),
         ThreadInv(x, v, c, s), v.alive, c # <<>>, Head(c) \in Commands,
         NEW over \in BOOLEAN, NEW w \in Worker, w.alive, w.n = v.n + 1,
         NEW r \in {Board(w.n, over), << Pkt("ERROR", w.n, over) >> \o Board(w.n, over)}
  PROVE  Tail(c) = <<>> /\ s \o r \in Seq(Packets) /\ ThreadInv(x, w, <<>>, s \o r)
<1>1. /\ \E op \in Commands : c = <<op>>
      /\ w.n = x.nsent /\ ~x.missed /\ x.round <= Rounds
  <2>1. Head(<<"LOGIN_REQ">>) \notin Commands BY DEF Commands
  <2> QED BY <2>1, Asked
<1>2. w.n \in Nat /\ w.n > 0 /\ Tail(c) = <<>> BY <1>1 DEF Worker
<1>3. \/ x.pc = "ended"
      \/ x.pc = "recv_until" /\ ~x.seen_state
      \/ x.pc \in Waits
  <2>1. ~(x.nsent = 0) BY <1>1, <1>2
  <2> QED BY <2>1, Asked
<1>4. /\ r \in Seq(Packets)
      /\ \E U \in ReplyLists(w.n) : Matches(r, U) /\ Len(r) = Len(U)
  BY <1>2, Replies
<1>5. s \o r \in Seq(Packets) BY <1>4, ConcatProperties
<1>6. RequestInv(x, w, <<>>) BY <1>1 DEF ThreadInv, RequestInv
<1>7. CASE x.pc = "ended" BY <1>1, <1>2, <1>5, <1>6, <1>7, Ended
<1>8. CASE x.pc # "ended"
  <2>1. ReadInv(x, <<>>) BY <1>1, <1>3, <1>8 DEF ThreadInv, ReadInv, Waits
  <2>2. Fresh(x, w, <<>>, s \o r) BY <1>3, <1>8 DEF Fresh, Waits
  <2>3. UnreadInv(x, v, c, s) /\ RoundInv(x) BY <1>1 DEF ThreadInv
  <2>4. CASE x.pc \in Waits /\ ~x.seen_hand
    <3>1. Unread(s, TRUE, {HandList(w.n - 1)}) BY <1>1, <2>3, <2>4 DEF UnreadInv
    <3>2. Unread(s \o r, TRUE, LateLists(w.n)) BY <1>2, <1>4, <3>1, LateReply
    <3>3. UnreadInv(x, w, <<>>, s \o r) BY <1>1, <2>4, <3>2 DEF UnreadInv, Waits
    <3> QED BY <1>1, <1>2, <1>5, <1>6, <2>1, <2>2, <2>3, <3>3 DEF ThreadInv
  <2>5. CASE ~(x.pc \in Waits /\ ~x.seen_hand)
    <3>1. Unread(s, TRUE, {<<>>}) BY <1>1, <1>2, <1>3, <1>8, <2>3, <2>5 DEF UnreadInv
    <3>2. s \o r = r BY <1>4, <3>1, UnreadNone, ConcatEmptySeq
    <3>3. Unread(r, TRUE, ReplyLists(w.n)) BY <1>4 DEF Unread
    <3>4. x.nsent > 0 /\ x.nsent # 0 BY <1>1, <1>2
    <3>5. \/ x.pc \in Waits /\ x.seen_hand
          \/ x.pc = "recv_until" /\ ~x.seen_state
      BY <1>3, <1>8, <2>5
    <3>6. UnreadInv(x, w, <<>>, r) BY <1>1, <3>3, <3>4, <3>5 DEF UnreadInv, Waits
    <3> QED BY <1>1, <1>2, <1>5, <1>6, <2>1, <2>2, <2>3, <3>2, <3>6 DEF ThreadInv
  <2> QED BY <2>4, <2>5
<1> QED BY <1>7, <1>8

(* The worker is gone, with any suffix of what it has sent.                *)
LEMMA SrvGoneThread ==
  ASSUME NEW x \in Thread, NEW v \in Worker, NEW c, NEW s \in Seq(Packets),
         ThreadInv(x, v, c, s), v.alive, NEW k \in 0..Len(s), NEW silent \in BOOLEAN
  PROVE  /\ SubSeq(s, 1, k) \in Seq(Packets)
         /\ ThreadInv(x, [v EXCEPT !.alive = FALSE, !.silent = silent], <<>>, SubSeq(s, 1, k))
<1> DEFINE w == [v EXCEPT !.alive = FALSE, !.silent = silent]
           f == SubSeq(s, 1, k)
<1>1. w \in Worker /\ w.alive = FALSE /\ w.n = v.n BY DEF Worker
<1>2. f \in Seq(Packets)
  <2>1. \A i \in 1..k : s[i] \in Packets BY LenProperties
  <2> QED BY <2>1, LenProperties, SubSeqProperties
<1>3. x.nsent \in Nat BY DEF Thread
<1>4. ASSUME NEW Ts, \A T \in Ts : Len(T) \in Nat, NEW alive, Unread(s, alive, Ts)
      PROVE  Unread(f, FALSE, Ts)
  <2>1. PICK T \in Ts : Matches(s, T) BY <1>4 DEF Unread
  <2>2. Len(T) \in Nat BY <1>4, <2>1
  <2>3. Matches(f, T) BY <2>1, <2>2, MatchesFront
  <2> QED BY <2>1, <2>3 DEF Unread
<1>5. Unread(s, v.alive, {<<>>}) => f = <<>>
  <2>1. \A T \in {<<>>} : Len(T) \in Nat OBVIOUS
  <2> QED BY <1>2, <1>4, <2>1, UnreadNone
<1> HIDE DEF w, f
<1>6. ~x.missed => UnreadInv(x, w, <<>>, f)
  <2> SUFFICES ASSUME ~x.missed PROVE UnreadInv(x, w, <<>>, f) OBVIOUS
  <2>0. UnreadInv(x, v, c, s) BY DEF ThreadInv
  <2>1. Unread(s, v.alive, LoginLists) \/ f = <<>> => Unread(f, FALSE, LoginLists)
    <3>1. \A T \in LoginLists : Len(T) \in Nat BY Lists
    <3>2. <<>> \in LoginLists BY DEF LoginLists
    <3> QED BY <1>4, <3>1, <3>2, UnreadEmpty
  <2>2. Unread(s, v.alive, {HandList(x.nsent)}) => Unread(f, FALSE, {HandList(x.nsent)})
    <3>1. \A T \in {HandList(x.nsent)} : Len(T) \in Nat BY <1>3, Lists
    <3> QED BY <1>4, <3>1
  <2>3. \/ Unread(s, v.alive, LateLists(x.nsent)) \/ Unread(s, v.alive, {HandList(x.nsent - 1)})
        => Unread(f, FALSE, LateLists(x.nsent))
    <3>1. \A T \in LateLists(x.nsent) : Len(T) \in Nat BY <1>3, Lists
    <3>2. CASE Unread(s, v.alive, LateLists(x.nsent)) BY <1>4, <3>1, <3>2
    <3>3. CASE Unread(s, v.alive, {HandList(x.nsent - 1)})
      <4>1. Unread(s, FALSE, LateLists(x.nsent)) BY <1>3, <3>3, LateFront
      <4> QED BY <1>4, <3>1, <4>1
    <3> QED BY <3>2, <3>3
  <2>4. Unread(s, v.alive, ReplyLists(x.nsent)) \/ f = <<>> => Unread(f, FALSE, ReplyLists(x.nsent))
    <3>1. \A T \in ReplyLists(x.nsent) : Len(T) \in Nat BY <1>3, Lists
    <3>2. << <<"STATE", x.nsent>>, <<"HAND", x.nsent>> >> \in ReplyLists(x.nsent) BY DEF ReplyLists
    <3> QED BY <1>4, <3>1, <3>2, UnreadEmpty
  <2>5. s = <<>> => f = <<>>
    <3>1. Unread(<<>>, TRUE, {<<>>})
      <4>1. <<>> \in {<<>>} /\ Len(<<>>) = 0 OBVIOUS
      <4> QED BY <4>1, UnreadEmpty
    <3> QED BY <1>5, <3>1
  <2> QED BY <1>1, <1>5, <2>0, <2>1, <2>2, <2>3, <2>4, <2>5 DEF UnreadInv
<1>7. RequestInv(x, w, <<>>) BY <1>1 DEF ThreadInv, RequestInv
<1>8. ~x.missed => ReadInv(x, <<>>) BY DEF ThreadInv, ReadInv
<1>9. Fresh(x, w, <<>>, f) /\ RoundInv(x) BY DEF ThreadInv, Fresh
<1> QED BY <1>2, <1>6, <1>7, <1>8, <1>9 DEF ThreadInv, f, w
-----------------------------------------------------------------------------
(* The steps of the thread.                                                *)

(* tcp_connect: the login is under way.                                    *)
LEMMA ConnectedThread ==
  ASSUME NEW x \in Thread, NEW v \in Worker, NEW c, NEW s, ThreadInv(x, v, c, s),
         x.pc = "connect", NEW next \in {"login", "recv_until"}
  PROVE  ThreadInv([x EXCEPT !.pc = next], [v EXCEPT !.alive = TRUE], <<"LOGIN_REQ">>, s)
<1> DEFINE y == [x EXCEPT !.pc = next]
           w == [v EXCEPT !.alive = TRUE]
<1>1. /\ y \in Thread /\ y.pc = next /\ y.round = x.round /\ y.nsent = x.nsent
      /\ y.seen_state = x.seen_state /\ y.seen_hand = x.seen_hand /\ y.missed = x.missed
  BY DEF Thread, Pcs, BenchPcs
<1>2. w \in Worker /\ w.alive = TRUE /\ w.n = v.n BY DEF Worker
<1>3. /\ x.nsent = 0 /\ v.n = 0 /\ x.round = 0 /\ ~x.seen_state /\ ~x.seen_hand /\ ~x.missed
      /\ s = <<>>
  BY DEF ThreadInv, Fresh, RequestInv
<1> HIDE DEF y, w
<1>4. Unread(s, TRUE, {<<>>})
  <2>1. <<>> \in {<<>>} /\ Len(<<>>) = 0 OBVIOUS
  <2> QED BY <1>3, <2>1, UnreadEmpty
<1>5. <<"LOGIN_REQ">> # <<>> OBVIOUS
<1>6. UnreadInv(y, w, <<"LOGIN_REQ">>, s) BY <1>1, <1>2, <1>3, <1>4, <1>5 DEF UnreadInv, Waits
<1>7. ReadInv(y, <<"LOGIN_REQ">>) BY <1>1, <1>3 DEF ReadInv, Waits
<1>8. RequestInv(y, w, <<"LOGIN_REQ">>) BY <1>1, <1>2, <1>3 DEF RequestInv
<1>9. RoundInv(y) /\ Fresh(y, w, <<"LOGIN_REQ">>, s)
  BY <1>1, <1>3, ClientsAssumption DEF RoundInv, Fresh, Waits
<1> QED BY <1>6, <1>7, <1>8, <1>9 DEF ThreadInv, y, w

(* Between two requests of the benchmark.                                  *)
LEMMA Playing ==
  ASSUME NEW x \in Thread, NEW v \in Worker, NEW c, NEW s, x.pc = "play" \/ x.pc = "end",
         x.round < Rounds, RequestInv(x, v, c),
         ~x.missed => /\ x.st.n = x.nsent /\ c = <<>>
                      /\ Unread(s, v.alive, {HandList(x.nsent)})
  PROVE  ThreadInv(x, v, c, s)
<1>1. RoundInv(x)
  <2>1. x.round \in Nat BY DEF Thread
  <2> QED BY <2>1, ClientsAssumption DEF RoundInv
<1>2. Fresh(x, v, c, s) BY DEF Fresh
<1>3. ~x.missed => ReadInv(x, c) /\ UnreadInv(x, v, c, s) BY DEF ReadInv, UnreadInv, Waits
<1> QED BY <1>1, <1>2, <1>3 DEF ThreadInv

(* The top of the loop over the rounds.                                    *)
LEMMA NextRoundThread ==
  ASSUME NEW x \in Thread, NEW v \in Worker, NEW c, NEW s, x.round <= Rounds,
         RequestInv(x, v, c),
         ~x.missed => /\ x.st.n = x.nsent /\ c = <<>>
                      /\ Unread(s, v.alive, {HandList(x.nsent)})
  PROVE  /\ NextRound(x) \in Thread /\ NextRound(x).pc \in {"play", "ended"}
         /\ NextRound(x).pc = "ended" => NextRound(x).lat # 0
         /\ ThreadInv(NextRound(x), v, c, s)
<1>0. x.round \in Nat BY DEF Thread
<1>1. CASE x.round = Rounds
  <2> DEFINE y == [x EXCEPT !.pc = "ended", !.lat = 1]
  <2>1. NextRound(x) = y BY <1>1 DEF NextRound, Done
  <2>2. /\ y \in Thread /\ y.pc = "ended" /\ y.lat = 1 /\ y.round = x.round
        /\ y.nsent = x.nsent /\ y.missed = x.missed
    BY DEF Thread, Pcs, BenchPcs
  <2> HIDE DEF y
  <2>3. RequestInv(y, v, c) BY <2>2 DEF RequestInv
  <2> QED BY <2>1, <2>2, <2>3, Ended
<1>2. CASE x.round # Rounds
  <2> DEFINE y == [x EXCEPT !.pc = "play"]
  <2>1. NextRound(x) = y BY <1>2 DEF NextRound
  <2>2. /\ y \in Thread /\ y.pc = "play" /\ y.round = x.round
        /\ y.nsent = x.nsent /\ y.missed = x.missed /\ y.st = x.st
    BY DEF Thread, Pcs, BenchPcs
  <2> HIDE DEF y
  <2>3. RequestInv(y, v, c) BY <2>2 DEF RequestInv
  <2>4. y.round < Rounds BY <1>0, <1>2, <2>2, ClientsAssumption
  <2>5. ~y.missed => /\ y.st.n = y.nsent /\ c = <<>>
                      /\ Unread(s, v.alive, {HandList(y.nsent)})
    BY <2>2
  <2>6. y \in Thread /\ y.pc \in {"play", "end"} BY <2>2
  <2>7. ThreadInv(y, v, c, s) BY <2>3, <2>4, <2>5, <2>6, Playing
  <2> QED BY <2>1, <2>2, <2>7
<1> QED BY <1>1, <1>2

(* After a wait.                                                           *)
LEMMA WaitOverThread ==
  ASSUME NEW x \in Thread, NEW v \in Worker, NEW c, NEW s, x.pc \in Waits, x.round < Rounds,
         RequestInv(x, v, c),
         ~x.missed => /\ x.st.n = x.nsent /\ c = <<>>
                      /\ Unread(s, v.alive, {HandList(x.nsent)})
  PROVE  /\ WaitOver(x) \in Thread /\ WaitOver(x).pc \in {"play", "end", "ended"}
         /\ WaitOver(x).pc = "ended" => WaitOver(x).lat # 0
         /\ ThreadInv(WaitOver(x), v, c, s)
<1>0. x.round \in Nat BY DEF Thread
<1>1. CASE x.pc = "wait_play"
  <2> DEFINE y == [x EXCEPT !.pc = "end"]
  <2>1. WaitOver(x) = y BY <1>1 DEF WaitOver
  <2>2. /\ y \in Thread /\ y.pc = "end" /\ y.round = x.round
        /\ y.nsent = x.nsent /\ y.missed = x.missed /\ y.st = x.st
    BY DEF Thread, Pcs, BenchPcs
  <2> HIDE DEF y
  <2>3. RequestInv(y, v, c) BY <2>2 DEF RequestInv, Waits
  <2>4. ~y.missed => /\ y.st.n = y.nsent /\ c = <<>>
                      /\ Unread(s, v.alive, {HandList(y.nsent)})
    BY <2>2
  <2>6. y \in Thread /\ y.pc \in {"play", "end"} /\ y.round < Rounds BY <2>2
  <2>5. ThreadInv(y, v, c, s) BY <2>3, <2>4, <2>6, Playing
  <2> QED BY <2>1, <2>2, <2>5
<1>2. CASE x.pc # "wait_play"
  <2> DEFINE y == [x EXCEPT !.round = x.round + 1]
  <2>1. WaitOver(x) = NextRound(y) BY <1>2 DEF WaitOver
  <2>2. /\ y \in Thread /\ y.pc = x.pc /\ y.round = x.round + 1
        /\ y.nsent = x.nsent /\ y.missed = x.missed /\ y.st = x.st
    BY DEF Thread
  <2> HIDE DEF y
  <2>3. RequestInv(y, v, c) BY <2>2 DEF RequestInv
  <2>4. y.round <= Rounds BY <1>0, <2>2, ClientsAssumption
  <2> QED BY <2>1, <2>2, <2>3, <2>4, NextRoundThread
<1> QED BY <1>1, <1>2

(* What reading a packet notes.                                            *)
LEMMA NotedThread ==
  ASSUME NEW x \in Thread, NEW m \in Packets
  PROVE  /\ Noted(x, m) \in Thread
         /\ Noted(x, m).pc = x.pc /\ Noted(x, m).round = x.round /\ Noted(x, m).nsent = x.nsent
         /\ Noted(x, m).missed = x.missed /\ Noted(x, m).lat = x.lat
         /\ Noted(x, m).seen_state = (x.seen_state \/ m.op = "STATE")
         /\ Noted(x, m).seen_hand = (x.seen_hand \/ m.op = "HAND")
         /\ m.op = "STATE" => Noted(x, m).st = m
         /\ m.op # "STATE" => Noted(x, m).st = x.st
         /\ m.op = "HAND" => Noted(x, m).hand = m
<1>1. /\ (x.seen_state \/ m.op = "STATE") \in BOOLEAN /\ (x.seen_hand \/ m.op = "HAND") \in BOOLEAN
      /\ (IF m.op = "STATE" THEN m ELSE x.st) \in Packets
      /\ (IF m.op = "HAND" THEN m ELSE x.hand) \in Packets
  BY DEF Thread
<1>2. Noted(x, m) = [x EXCEPT !.seen_state = x.seen_state \/ m.op = "STATE",
                              !.seen_hand = x.seen_hand \/ m.op = "HAND",
                              !.st   = IF m.op = "STATE" THEN m ELSE x.st,
                              !.hand = IF m.op = "HAND" THEN m ELSE x.hand]
  BY DEF Noted
<1> QED BY <1>1, <1>2, ZenonT(60) DEF Thread

(* The client sends a request: bench (next is a wait) or terminal client.  *)
LEMMA SendThread ==
  ASSUME NEW x \in Thread, NEW v \in Worker, NEW c, NEW s \in Seq(Packets), ThreadInv(x, v, c, s),
         NEW y \in Thread, y.nsent = x.nsent + 1, y.round = x.round, y.missed = x.missed,
         ~y.seen_state, ~y.seen_hand,
         \/ x.pc = "play" /\ y.pc = "wait_play"
         \/ x.pc = "end" /\ y.pc = "wait_end"
         \/ x.pc = "getch" /\ y.pc = "recv_until"
  PROVE  /\ ~v.alive => ThreadInv(y, v, c, s)
         /\ v.alive => c = <<>> /\ \A op \in Commands : ThreadInv(y, v, <<op>>, s)
<1> DEFINE n == x.nsent + 1
<1>0. ~v.alive => v.alive = FALSE BY DEF Worker
<1>1. x.nsent \in Nat /\ y.nsent = n /\ n \in Nat /\ n > 0 /\ n # 0 /\ n - 1 = x.nsent BY DEF Thread
<1>2. v.alive => ~x.missed BY DEF ThreadInv, RequestInv
<1>3. c = <<>>
  <2>1. CASE v.alive BY <1>2, <2>1 DEF ThreadInv, ReadInv
  <2>2. CASE ~v.alive BY <2>2 DEF ThreadInv, RequestInv
  <2> QED BY <2>1, <2>2
<1>4. v.alive => v.n = x.nsent
  <2>1. \A op : <<op>> # <<>> OBVIOUS
  <2> QED BY <1>3, <2>1 DEF ThreadInv, RequestInv
<1>5. RoundInv(y) /\ \A d : Fresh(y, v, d, s) BY DEF ThreadInv, RoundInv, Fresh, Waits
<1>6. ~v.alive => RequestInv(y, v, c)
  BY <1>3 DEF ThreadInv, RequestInv
<1>7. v.alive => \A op \in Commands : RequestInv(y, v, <<op>>)
  BY <1>1, <1>2, <1>4 DEF ThreadInv, RequestInv
<1>8. \A d : ReadInv(y, d) BY <1>1 DEF ReadInv, Waits
<1>9. CASE x.missed BY <1>2, <1>5, <1>6, <1>9 DEF ThreadInv
<1>10. CASE ~x.missed /\ x.pc = "getch"
  <2>1. s = <<>> BY <1>10 DEF ThreadInv, UnreadInv
  <2>2. Unread(s, FALSE, ReplyLists(n))
    <3>1. << <<"STATE", n>>, <<"HAND", n>> >> \in ReplyLists(n) BY DEF ReplyLists
    <3>2. Len(<< <<"STATE", n>>, <<"HAND", n>> >>) \in Nat OBVIOUS
    <3> QED BY <2>1, <3>1, <3>2, UnreadEmpty
  <2>3. Unread(s, TRUE, {<<>>})
    <3>1. <<>> \in {<<>>} /\ Len(<<>>) = 0 OBVIOUS
    <3> QED BY <2>1, <3>1, UnreadEmpty
  <2>4. y.pc = "recv_until" BY <1>10
  <2>5. ~v.alive => UnreadInv(y, v, c, s) BY <1>0, <1>1, <1>3, <2>2, <2>4 DEF UnreadInv, Waits
  <2>6. v.alive => \A op \in Commands : UnreadInv(y, v, <<op>>, s)
    <3>1. \A op : <<op>> # <<>> OBVIOUS
    <3> QED BY <1>1, <2>3, <2>4, <3>1 DEF UnreadInv, Waits
  <2> QED BY <1>3, <1>5, <1>6, <1>7, <1>8, <2>5, <2>6 DEF ThreadInv
<1>11. CASE ~x.missed /\ x.pc # "getch"
  <2>1. Unread(s, v.alive, {HandList(n - 1)}) BY <1>1, <1>11 DEF ThreadInv, UnreadInv
  <2>2. Unread(s, FALSE, LateLists(n)) BY <1>1, <2>1, LateFront
  <2>3. y.pc \in Waits BY <1>11 DEF Waits
  <2>4. ~v.alive => UnreadInv(y, v, c, s) BY <1>0, <1>1, <1>3, <2>2, <2>3 DEF UnreadInv, Waits
  <2>5. v.alive => \A op \in Commands : UnreadInv(y, v, <<op>>, s)
    <3>1. \A op : <<op>> # <<>> OBVIOUS
    <3> QED BY <1>1, <2>1, <2>3, <3>1 DEF UnreadInv, Waits
  <2> QED BY <1>3, <1>5, <1>6, <1>7, <1>8, <2>4, <2>5 DEF ThreadInv
<1> QED BY <1>9, <1>10, <1>11

(* recv_until of the terminal client.                                      *)
LEMMA RecvUntilThread ==
  ASSUME NEW x \in Thread, NEW v \in Worker, NEW c, NEW s \in Seq(Packets), ThreadInv(x, v, c, s),
         x.pc = "recv_until", s # <<>>,
         NEW y, y = Noted(x, Head(s)),
         NEW z, z = IF y.seen_state /\ y.seen_hand THEN [y EXCEPT !.pc = "getch"] ELSE y
  PROVE  z \in Thread /\ z.pc \in {"recv_until", "getch"} /\ ThreadInv(z, v, c, Tail(s))
<1> DEFINE m == Head(s)
<1>1. m \in Packets /\ Tail(s) \in Seq(Packets) BY HeadTailProperties
<1>2. m.op \in Ops /\ m.n \in Nat /\ x.nsent \in Nat /\ v.alive \in BOOLEAN BY <1>1 DEF Packets, Thread, Worker
<1>3. ~x.missed /\ ~x.seen_hand BY DEF ThreadInv, RequestInv, ReadInv
<1>4. ReadInv(x, c) /\ UnreadInv(x, v, c, s) /\ RoundInv(x) /\ RequestInv(x, v, c)
  BY <1>3 DEF ThreadInv
<1>5. /\ y \in Thread /\ y.pc = "recv_until" /\ y.round = x.round /\ y.nsent = x.nsent /\ ~y.missed
      /\ y.seen_state <=> x.seen_state \/ m.op = "STATE"
      /\ y.seen_hand <=> m.op = "HAND"
      /\ m.op = "STATE" => y.st = m
      /\ m.op # "STATE" => y.st = x.st
      /\ m.op = "HAND" => y.hand = m
  <2> HIDE DEF m
  <2>1. /\ y \in Thread /\ y.pc = x.pc /\ y.round = x.round /\ y.nsent = x.nsent
        /\ y.missed = x.missed
        /\ y.seen_state = (x.seen_state \/ m.op = "STATE")
        /\ y.seen_hand = (x.seen_hand \/ m.op = "HAND")
    <3>1. y = Noted(x, m) BY DEF m
    <3> QED BY <1>1, <3>1, NotedThread, SMTT(60)
  <2>2. /\ m.op = "STATE" => y.st = m
        /\ m.op # "STATE" => y.st = x.st
        /\ m.op = "HAND" => y.hand = m
    <3>1. y = Noted(x, m) BY DEF m
    <3> QED BY <1>1, <3>1, NotedThread, SMTT(60)
  <2> QED BY <1>3, <2>1, <2>2
<1> HIDE DEF m
<1>6. RequestInv(y, v, c) /\ RoundInv(y) /\ Fresh(y, v, c, Tail(s))
  BY <1>3, <1>4, <1>5 DEF RequestInv, RoundInv, Fresh, Waits
<1>7. CASE x.seen_state
  <2>1. Unread(s, v.alive, {HandList(x.nsent)}) BY <1>4, <1>7 DEF UnreadInv
  <2>2. m.op = "HAND" /\ m.n = x.nsent /\ Tail(s) = <<>> BY <1>2, <2>1, ReadHand, SMTT(60) DEF m
  <2>3. z = [y EXCEPT !.pc = "getch"] BY <1>5, <1>7, <2>2
  <2>4. /\ z \in Thread /\ z.pc = "getch" /\ z.nsent = x.nsent /\ z.st = x.st /\ z.hand = m
        /\ z.round = x.round /\ z.missed = y.missed
    BY <1>5, <2>2, <2>3 DEF Thread, Pcs
  <2>5. x.st.n = x.nsent /\ c = <<>> BY <1>4, <1>7 DEF ReadInv
  <2>6. ReadInv(z, c) BY <2>2, <2>4, <2>5 DEF ReadInv, Waits
  <2>7. UnreadInv(z, v, c, Tail(s)) BY <2>2, <2>4 DEF UnreadInv, Waits
  <2>8. RequestInv(z, v, c) /\ RoundInv(z) /\ Fresh(z, v, c, Tail(s))
    BY <1>3, <1>4, <1>5, <2>4 DEF RequestInv, RoundInv, Fresh, Waits
  <2> QED BY <2>4, <2>6, <2>7, <2>8 DEF ThreadInv
<1>8. CASE ~x.seen_state
  <2>1. c = <<>>
    <3>1. CASE c # <<>>
      <4>1. Unread(s, v.alive, {<<>>}) BY <1>2, <1>4, <1>8, <3>1 DEF UnreadInv
      <4> QED BY <1>2, <4>1, UnreadNone
    <3> QED BY <3>1
  <2> DEFINE Ts == IF x.nsent = 0 THEN LoginLists ELSE ReplyLists(x.nsent)
  <2>2. Unread(s, v.alive, Ts) BY <1>2, <1>4, <1>8, <2>1 DEF UnreadInv
  <2>3. /\ m.op # "HAND"
        /\ m.op = "STATE" => m.n = x.nsent /\ Unread(Tail(s), v.alive, {HandList(x.nsent)})
        /\ m.op # "STATE" => Unread(Tail(s), v.alive, Ts)
    <3>1. CASE x.nsent = 0
      <4>1. Unread(s, v.alive, LoginLists) BY <2>2, <3>1
      <4> QED BY <1>2, <3>1, <4>1, ReadLogin DEF m
    <3>2. CASE x.nsent # 0
      <4>1. Unread(s, v.alive, ReplyLists(x.nsent)) BY <2>2, <3>2
      <4>2. /\ m.op # "HAND"
            /\ m.op = "STATE" => m.n = x.nsent /\ Unread(Tail(s), v.alive, {HandList(x.nsent)})
            /\ m.op # "STATE" => Unread(Tail(s), v.alive, ReplyLists(x.nsent))
        <5>1. x.nsent \in Int BY <1>2
        <5> QED BY <1>2, <4>1, <5>1, ReadReply, Zenon DEF m
      <4> QED BY <3>2, <4>2
    <3> QED BY <3>1, <3>2
  <2>4. z = y BY <1>5, <2>3
  <2>5. ReadInv(y, c) BY <1>5, <1>8, <2>1, <2>3 DEF ReadInv, Waits
  <2>6. UnreadInv(y, v, c, Tail(s))
    <3>1. CASE m.op = "STATE" BY <1>5, <2>3, <3>1 DEF UnreadInv, Waits
    <3>2. CASE m.op # "STATE"
      <4>1. Unread(Tail(s), v.alive, Ts) /\ ~y.seen_state BY <1>5, <1>8, <2>3, <3>2
      <4> QED BY <1>2, <1>5, <2>1, <4>1 DEF UnreadInv, Waits
    <3> QED BY <3>1, <3>2
  <2> QED BY <1>5, <1>6, <2>4, <2>5, <2>6 DEF ThreadInv
<1> QED BY <1>7, <1>8

(* The packets read after the login of the benchmark.                      *)
LEMMA BenchLoginThread ==
  ASSUME NEW x \in Thread, NEW v \in Worker, NEW c, NEW s \in Seq(Packets), ThreadInv(x, v, c, s),
         x.pc = "login", s # <<>>,
         NEW z, z = IF Head(s).op = "STATE" THEN NextRound([x EXCEPT !.st = Head(s)]) ELSE x
  PROVE  /\ z \in Thread /\ z.pc \in BenchPcs /\ (z.pc = "ended" => z.lat # 0)
         /\ ThreadInv(z, v, c, Tail(s))
<1> DEFINE m == Head(s)
<1>1. m \in Packets /\ Tail(s) \in Seq(Packets) BY HeadTailProperties
<1>2. m.op \in Ops /\ m.n \in Nat /\ x.nsent = 0 /\ x.nsent \in Nat /\ v.alive \in BOOLEAN /\ ~x.missed
  BY <1>1 DEF Packets, Thread, Worker, ThreadInv, RequestInv, ReadInv
<1>3. ReadInv(x, c) /\ UnreadInv(x, v, c, s) /\ RoundInv(x) /\ RequestInv(x, v, c)
  BY <1>2 DEF ThreadInv
<1>4. c = <<>>
  <2>1. CASE c # <<>>
    <3>1. Unread(s, v.alive, {<<>>}) BY <1>3, <2>1 DEF UnreadInv
    <3> QED BY <1>2, <3>1, UnreadNone
  <2> QED BY <2>1
<1>5. Unread(s, v.alive, LoginLists) BY <1>3, <1>4 DEF UnreadInv
<1> HIDE DEF m
<1>6. CASE m.op = "STATE"
  <2> DEFINE y == [x EXCEPT !.st = m]
  <2>1. z = NextRound(y) BY <1>6 DEF m
  <2>2. /\ y \in Thread /\ y.pc = "login" /\ y.st = m /\ y.nsent = x.nsent /\ y.round = x.round
        /\ y.missed = x.missed
    BY <1>1 DEF Thread, m
  <2>3. m.n = 0 /\ Unread(Tail(s), v.alive, {HandList(0)}) BY <1>2, <1>5, <1>6, ReadLogin DEF m
  <2> HIDE DEF y
  <2>4. RequestInv(y, v, c) /\ y.round <= Rounds BY <1>3, <2>2 DEF RequestInv, RoundInv
  <2>5. /\ y.st.n = y.nsent /\ c = <<>>
        /\ Unread(Tail(s), v.alive, {HandList(y.nsent)})
    BY <1>2, <1>4, <2>2, <2>3
  <2>6. /\ NextRound(y) \in Thread /\ NextRound(y).pc \in {"play", "ended"}
        /\ NextRound(y).pc = "ended" => NextRound(y).lat # 0
        /\ ThreadInv(NextRound(y), v, c, Tail(s))
    BY <2>2, <2>4, <2>5, NextRoundThread
  <2> QED BY <2>1, <2>6 DEF BenchPcs
<1>7. CASE m.op # "STATE"
  <2>1. Unread(Tail(s), v.alive, LoginLists) BY <1>2, <1>5, <1>7, ReadLogin DEF m
  <2>2. UnreadInv(x, v, c, Tail(s)) BY <1>4, <2>1 DEF UnreadInv, Waits
  <2>3. Fresh(x, v, c, Tail(s)) BY DEF Fresh
  <2>4. z = x BY <1>7 DEF m
  <2> QED BY <1>3, <2>2, <2>3, <2>4 DEF ThreadInv, BenchPcs
<1> QED BY <1>6, <1>7

(* The packets read in a wait of the benchmark.                            *)
LEMMA BenchWaitThread ==
  ASSUME NEW x \in Thread, NEW v \in Worker, NEW c, NEW s \in Seq(Packets), ThreadInv(x, v, c, s),
         x.pc \in Waits, s # <<>>,
         NEW y, y = Noted(x, Head(s)),
         NEW z, \/ z = Done(y)
                \/ z = WaitOver(y) /\ y.seen_state /\ y.seen_hand
                \/ z = y /\ ~(y.seen_state /\ y.seen_hand)
  PROVE  /\ z \in Thread /\ z.pc \in BenchPcs /\ (z.pc = "ended" => z.lat # 0)
         /\ ThreadInv(z, v, c, Tail(s))
<1> DEFINE m == Head(s)
<1>1. m \in Packets /\ Tail(s) \in Seq(Packets) BY HeadTailProperties
<1>2. m.op \in Ops /\ m.n \in Nat /\ x.nsent \in Nat /\ v.alive \in BOOLEAN /\ x.missed \in BOOLEAN
  BY <1>1 DEF Packets, Thread, Worker
<1>3. /\ y \in Thread /\ y.pc = x.pc /\ y.round = x.round /\ y.nsent = x.nsent
      /\ y.missed = x.missed
      /\ y.seen_state <=> x.seen_state \/ m.op = "STATE"
      /\ y.seen_hand <=> x.seen_hand \/ m.op = "HAND"
      /\ m.op = "STATE" => y.st = m
  BY <1>1, NotedThread
<1>4. RoundInv(x) /\ RequestInv(x, v, c) BY DEF ThreadInv
<1>5. RequestInv(y, v, c) /\ RoundInv(y) /\ Fresh(y, v, c, Tail(s)) /\ y.round < Rounds
  BY <1>3, <1>4 DEF RequestInv, RoundInv, Fresh, Waits
<1> HIDE DEF m
<1>6. ~x.missed =>
        /\ y.seen_state /\ y.seen_hand =>
             y.st.n = y.nsent /\ c = <<>> /\ Unread(Tail(s), v.alive, {HandList(y.nsent)})
        /\ ~(y.seen_state /\ y.seen_hand) => ReadInv(y, c) /\ UnreadInv(y, v, c, Tail(s))
  <2> SUFFICES ASSUME ~x.missed PROVE
        /\ y.seen_state /\ y.seen_hand =>
             y.st.n = y.nsent /\ c = <<>> /\ Unread(Tail(s), v.alive, {HandList(y.nsent)})
        /\ ~(y.seen_state /\ y.seen_hand) => ReadInv(y, c) /\ UnreadInv(y, v, c, Tail(s))
    OBVIOUS
  <2>1. ReadInv(x, c) /\ UnreadInv(x, v, c, s) BY DEF ThreadInv
  <2>2. x.nsent > 0 /\ ~x.seen_state BY <2>1 DEF ReadInv
  <2>3. CASE x.seen_hand
    <3>1. c = <<>>
      <4>1. CASE c # <<>>
        <5>1. Unread(s, v.alive, {<<>>}) BY <2>1, <2>3, <4>1 DEF UnreadInv
        <5> QED BY <1>2, <5>1, UnreadNone
      <4> QED BY <4>1
    <3>2. Unread(s, v.alive, ReplyLists(x.nsent)) BY <2>1, <2>3, <3>1 DEF UnreadInv
    <3>3. /\ m.op = "STATE" => m.n = x.nsent /\ Unread(Tail(s), v.alive, {HandList(x.nsent)})
          /\ m.op # "STATE" => Unread(Tail(s), v.alive, ReplyLists(x.nsent))
      <4>1. x.nsent \in Int /\ v.alive \in BOOLEAN BY <1>2
      <4>2. /\ Head(s).op = "STATE" =>
                 Head(s).n = x.nsent /\ Unread(Tail(s), v.alive, {HandList(x.nsent)})
            /\ Head(s).op # "STATE" => Unread(Tail(s), v.alive, ReplyLists(x.nsent))
        BY <3>2, <4>1, ReadReply
      <4> QED BY <4>2 DEF m
    <3>4. CASE m.op = "STATE" BY <1>3, <2>3, <3>1, <3>3, <3>4
    <3>5. CASE m.op # "STATE"
      <4>1. ReadInv(y, c) BY <1>3, <2>2, <3>5 DEF ReadInv, Waits
      <4>2. UnreadInv(y, v, c, Tail(s)) BY <1>3, <2>3, <3>1, <3>3, <3>5 DEF UnreadInv, Waits
      <4> QED BY <1>3, <2>2, <3>5, <4>1, <4>2
    <3> QED BY <3>4, <3>5
  <2>4. CASE ~x.seen_hand
    <3>1. /\ m.op = "HAND"
          /\ Unread(Tail(s), v.alive, IF c = <<>> THEN ReplyLists(x.nsent) ELSE {<<>>})
      <4>1. CASE c = <<>>
        <5>1. Unread(s, v.alive, LateLists(x.nsent)) BY <2>1, <2>4, <4>1 DEF UnreadInv
        <5> QED BY <1>2, <4>1, <5>1, ReadLate DEF m
      <4>2. CASE c # <<>>
        <5>1. Unread(s, v.alive, {HandList(x.nsent - 1)}) BY <2>1, <2>4, <4>2 DEF UnreadInv
        <5>2. m.op = "HAND" /\ Tail(s) = <<>> BY <1>2, <5>1, ReadHand DEF m
        <5>3. <<>> \in {<<>>} /\ Len(<<>>) = 0 OBVIOUS
        <5>4. Unread(Tail(s), v.alive, {<<>>}) BY <1>2, <5>2, <5>3, UnreadEmpty
        <5> QED BY <4>2, <5>2, <5>4
      <4> QED BY <4>1, <4>2
    <3>2. ~y.seen_state /\ y.seen_hand BY <1>3, <2>2, <3>1
    <3>3. ReadInv(y, c) BY <1>3, <2>2, <3>2 DEF ReadInv, Waits
    <3>4. UnreadInv(y, v, c, Tail(s)) BY <1>3, <3>1, <3>2 DEF UnreadInv, Waits
    <3> QED BY <3>2, <3>3, <3>4
  <2> QED BY <2>3, <2>4
<1>7. CASE z = Done(y)
  <2>1. /\ z \in Thread /\ z.pc = "ended" /\ z.lat = 1 /\ z.round = y.round /\ z.nsent = y.nsent
        /\ z.missed = y.missed
    BY <1>3, <1>7 DEF Done, Thread, Pcs, BenchPcs
  <2>2. RequestInv(z, v, c) BY <1>5, <2>1 DEF RequestInv
  <2>3. z.round <= Rounds BY <1>5, <2>1 DEF RoundInv
  <2>4. ThreadInv(z, v, c, Tail(s)) BY <2>1, <2>2, <2>3, Ended
  <2> QED BY <2>1, <2>4 DEF BenchPcs
<1>8. CASE z = WaitOver(y) /\ y.seen_state /\ y.seen_hand
  <2>1. ~y.missed => /\ y.st.n = y.nsent /\ c = <<>>
                     /\ Unread(Tail(s), v.alive, {HandList(y.nsent)})
    BY <1>3, <1>6, <1>8
  <2>2. y.pc \in Waits BY <1>3
  <2>3. /\ WaitOver(y) \in Thread /\ WaitOver(y).pc \in {"play", "end", "ended"}
        /\ WaitOver(y).pc = "ended" => WaitOver(y).lat # 0
        /\ ThreadInv(WaitOver(y), v, c, Tail(s))
    BY <1>3, <1>5, <2>1, <2>2, WaitOverThread
  <2> QED BY <1>8, <2>3 DEF BenchPcs
<1>9. CASE z = y /\ ~(y.seen_state /\ y.seen_hand)
  <2>1. ThreadInv(y, v, c, Tail(s)) BY <1>3, <1>5, <1>6, <1>9 DEF ThreadInv
  <2> QED BY <1>3, <1>9, <2>1 DEF BenchPcs, Waits
<1> QED BY <1>7, <1>8, <1>9

-----------------------------------------------------------------------------
(* The steps of the specification: each is a step of one thread or of its  *)
(* worker.                                                                 *)
LEMMA OneThread ==
  ASSUME IInv, NEW t \in Ids,
         NEW x \in Thread, NEW v \in Worker, NEW c \in Seq({"LOGIN_REQ"} \union Commands),
         NEW s \in Seq(Packets), ThreadInv(x, v, c, s),
         th' = [th EXCEPT ![t] = x], srv' = [srv EXCEPT ![t] = v],
         c2s' = [c2s EXCEPT ![t] = c], s2c' = [s2c EXCEPT ![t] = s], report' = report,
         proc' = proc \/ proc' = "killed",
         proc' \in {"bench", "exited"} => x.pc \in BenchPcs /\ (x.pc = "ended" => x.lat # 0)
  PROVE  IInv'
<1>1. Types'
  <2>1. th' \in [Ids -> Thread] /\ srv' \in [Ids -> Worker] BY DEF IInv, Types
  <2>2. c2s' \in [Ids -> Seq({"LOGIN_REQ"} \union Commands)] BY DEF IInv, Types
  <2>3. s2c' \in [Ids -> Seq(Packets)] BY DEF IInv, Types
  <2>4. proc' \in {"bench", "app", "killed", "exited"} BY DEF IInv, Types
  <2> QED BY <2>1, <2>2, <2>3, <2>4 DEF Types
<1>2. /\ th'[t] = x /\ srv'[t] = v /\ c2s'[t] = c /\ s2c'[t] = s
      /\ \A u \in Ids \ {t} : /\ th'[u] = th[u] /\ srv'[u] = srv[u]
                              /\ c2s'[u] = c2s[u] /\ s2c'[u] = s2c[u]
  BY DEF IInv, Types
<1>3. Threaded'
  <2>1. ASSUME NEW u \in Ids PROVE ThreadInv(th'[u], srv'[u], c2s'[u], s2c'[u])
    <3>1. CASE u = t BY <1>2, <3>1
    <3>2. CASE u # t BY <1>2, <3>2 DEF IInv, Threaded
    <3> QED BY <3>1, <3>2
  <2> QED BY <2>1 DEF Threaded
<1>4. Results'
  <2> SUFFICES ASSUME proc' \in {"bench", "exited"}, NEW u \in Ids
               PROVE  th'[u].pc \in BenchPcs /\ (th'[u].pc = "ended" => th'[u].lat # 0)
    BY DEF Results
  <2>1. CASE u = t BY <1>2, <2>1
  <2>2. CASE u # t
    <3>1. proc \in {"bench", "exited"} OBVIOUS
    <3> QED BY <1>2, <2>2, <3>1 DEF IInv, Results
  <2> QED BY <2>1, <2>2
<1>5. Reported' BY DEF IInv, Reported
<1> QED BY <1>1, <1>3, <1>4, <1>5 DEF IInv

(* What IInv says of one thread.                                           *)
LEMMA Here ==
  ASSUME IInv, NEW t \in Ids
  PROVE  /\ th[t] \in Thread /\ srv[t] \in Worker /\ s2c[t] \in Seq(Packets)
         /\ c2s[t] \in Seq({"LOGIN_REQ"} \union Commands)
         /\ ThreadInv(th[t], srv[t], c2s[t], s2c[t])
         /\ proc \in {"bench", "exited"} =>
              th[t].pc \in BenchPcs /\ (th[t].pc = "ended" => th[t].lat # 0)
         /\ th = [th EXCEPT ![t] = th[t]] /\ srv = [srv EXCEPT ![t] = srv[t]]
         /\ c2s = [c2s EXCEPT ![t] = c2s[t]] /\ s2c = [s2c EXCEPT ![t] = s2c[t]]
         /\ <<>> \in Seq({"LOGIN_REQ"} \union Commands)
<1>1. th = [th EXCEPT ![t] = th[t]] /\ srv = [srv EXCEPT ![t] = srv[t]] BY DEF IInv, Types
<1>2. c2s = [c2s EXCEPT ![t] = c2s[t]] /\ s2c = [s2c EXCEPT ![t] = s2c[t]] BY DEF IInv, Types
<1>3. /\ th[t] \in Thread /\ srv[t] \in Worker /\ s2c[t] \in Seq(Packets)
      /\ c2s[t] \in Seq({"LOGIN_REQ"} \union Commands)
  BY DEF IInv, Types
<1>4. ThreadInv(th[t], srv[t], c2s[t], s2c[t]) BY DEF IInv, Threaded
<1>5. proc \in {"bench", "exited"} =>
        th[t].pc \in BenchPcs /\ (th[t].pc = "ended" => th[t].lat # 0)
  BY DEF IInv, Results
<1> QED BY <1>1, <1>2, <1>3, <1>4, <1>5

(* The answer to LOGIN_REQ.                                                *)
LEMMA SrvLoginInv == ASSUME IInv, NEW t \in Ids, SrvLogin(t) PROVE IInv'
<1> DEFINE x == th[t]
           r == << Pkt("LOGIN_RESP", 0, FALSE), Pkt("RESUME_RESP", 0, FALSE),
                   Pkt("STATE", 0, FALSE), Pkt("HAND", 0, FALSE) >>
           e == << Pkt("ERROR", 0, FALSE) >>
           w == [srv[t] EXCEPT !.alive = FALSE]
<1>1. /\ Tail(c2s[t]) = <<>> /\ ThreadInv(x, srv[t], <<>>, r) /\ ThreadInv(x, w, <<>>, e)
  BY Here, SrvLoginThread DEF SrvLogin
<1>2. r \in Seq(Packets) /\ e \in Seq(Packets)
  <2>1. \A op \in Ops : Pkt(op, 0, FALSE) \in Packets BY DEF Pkt, Packets
  <2>2. /\ Pkt("LOGIN_RESP", 0, FALSE) \in Packets /\ Pkt("RESUME_RESP", 0, FALSE) \in Packets
        /\ Pkt("STATE", 0, FALSE) \in Packets /\ Pkt("HAND", 0, FALSE) \in Packets
        /\ Pkt("ERROR", 0, FALSE) \in Packets
    BY <2>1 DEF Ops
  <2>3. ASSUME NEW a \in Packets, NEW b \in Packets, NEW d \in Packets, NEW f \in Packets
        PROVE  <<a, b, d, f>> \in Seq(Packets) /\ <<a>> \in Seq(Packets)
    OBVIOUS
  <2> QED BY <2>2, <2>3, Zenon
<1>3. w \in Worker BY Here DEF Worker
<1>4. c2s' = [c2s EXCEPT ![t] = <<>>] /\ th' = [th EXCEPT ![t] = x] /\ proc' = proc /\ report' = report
  BY <1>1, Here DEF SrvLogin
<1>5. proc' \in {"bench", "exited"} => x.pc \in BenchPcs /\ (x.pc = "ended" => x.lat # 0)
  BY <1>4, Here
<1>6. \/ s2c' = [s2c EXCEPT ![t] = r] /\ srv' = [srv EXCEPT ![t] = srv[t]]
      \/ s2c' = [s2c EXCEPT ![t] = e] /\ srv' = [srv EXCEPT ![t] = w]
  BY Here DEF SrvLogin
<1>7. x \in Thread /\ srv[t] \in Worker /\ <<>> \in Seq({"LOGIN_REQ"} \union Commands) BY Here
<1> HIDE DEF x, r, e, w
<1> QED BY <1>1, <1>2, <1>3, <1>4, <1>5, <1>6, <1>7, OneThread

(* The answer to a request.                                                *)
LEMMA SrvRequestInv == ASSUME IInv, NEW t \in Ids, SrvRequest(t) PROVE IInv'
<1> DEFINE x == th[t]
           n == srv[t].n + 1
<1>1. x \in Thread /\ srv[t] \in Worker /\ <<>> \in Seq({"LOGIN_REQ"} \union Commands) BY Here
<1>2. srv[t].alive /\ c2s[t] # <<>> /\ Head(c2s[t]) \in Commands
  BY DEF SrvRequest, Request, Commands
<1>3. n \in Nat /\ srv[t].over \in BOOLEAN BY <1>1, SMTT(60) DEF Worker
<1>4. PICK over \in BOOLEAN, w \in Worker, r \in Seq(Packets) :
        /\ r \in {Board(n, over), << Pkt("ERROR", n, over) >> \o Board(n, over)}
        /\ w.alive /\ w.n = n
        /\ srv' = [srv EXCEPT ![t] = w] /\ s2c' = [s2c EXCEPT ![t] = s2c[t] \o r]
  <2>1. CASE /\ s2c' = [s2c EXCEPT ![t] = Append(s2c[t], Pkt("ERROR", n, FALSE)) \o Board(n, FALSE)]
             /\ srv' = [srv EXCEPT ![t].n = n]
    <3> DEFINE e == Pkt("ERROR", n, FALSE)
               w == [srv[t] EXCEPT !.n = n]
               r == <<e>> \o Board(n, FALSE)
    <3>1. w \in Worker /\ w.alive /\ w.n = n BY <1>1, <1>2, <1>3 DEF Worker
    <3>2. e \in Packets /\ <<e>> \in Seq(Packets) BY <1>3 DEF Packets, Pkt, Ops
    <3>3. Board(n, FALSE) \in Seq(Packets) BY <1>3, Replies
    <3>4. Append(s2c[t], e) \o Board(n, FALSE) = s2c[t] \o r
      <4>1. s2c[t] \in Seq(Packets) BY Here, SMTT(60)
      <4> QED BY <3>2, <3>3, <4>1, AppendConcat
    <3>6. s2c' = [s2c EXCEPT ![t] = s2c[t] \o r] BY <2>1, <3>4
    <3>7. srv' = [srv EXCEPT ![t] = w] BY <2>1
    <3>8. r \in {Board(n, FALSE), << Pkt("ERROR", n, FALSE) >> \o Board(n, FALSE)} OBVIOUS
    <3>9. r \in Seq(Packets) BY <1>3, Replies
    <3> HIDE DEF r, w
    <3> QED BY <3>1, <3>6, <3>7, <3>8, <3>9
  <2>2. CASE \E over \in {srv[t].over, TRUE} :
               /\ s2c' = [s2c EXCEPT ![t] = @ \o Board(n, over)]
               /\ srv' = [srv EXCEPT ![t].n = n, ![t].over = over]
    <3>1. PICK over \in {srv[t].over, TRUE} :
               /\ s2c' = [s2c EXCEPT ![t] = @ \o Board(n, over)]
               /\ srv' = [srv EXCEPT ![t].n = n, ![t].over = over]
      BY <2>2
    <3> DEFINE w == [srv[t] EXCEPT !.n = n, !.over = over]
               r == Board(n, over)
    <3>2. over \in BOOLEAN BY <1>3, <3>1
    <3>3. w \in Worker /\ w.alive /\ w.n = n BY <1>1, <1>2, <1>3, <3>2 DEF Worker
    <3>4. srv' = [srv EXCEPT ![t] = w] BY <3>1, Here DEF IInv, Types, Worker
    <3>5. s2c' = [s2c EXCEPT ![t] = s2c[t] \o r] BY <3>1
    <3>6. r \in {Board(n, over), << Pkt("ERROR", n, over) >> \o Board(n, over)} OBVIOUS
    <3>7. r \in Seq(Packets) BY <1>3, <3>2, Replies
    <3> HIDE DEF r, w
    <3> QED BY <3>2, <3>3, <3>4, <3>5, <3>6, <3>7
  <2> QED BY <2>1, <2>2 DEF SrvRequest
<1>5. Tail(c2s[t]) = <<>> /\ s2c[t] \o r \in Seq(Packets) /\ ThreadInv(x, w, <<>>, s2c[t] \o r)
  <2>1. r \in {Board(w.n, over), << Pkt("ERROR", w.n, over) >> \o Board(w.n, over)} BY <1>4
  <2>2. w.n = srv[t].n + 1 /\ w.alive BY <1>4
  <2>3. s2c[t] \in Seq(Packets) /\ ThreadInv(x, srv[t], c2s[t], s2c[t]) BY Here, SMTT(60)
  <2>4. over \in BOOLEAN /\ w \in Worker BY <1>4, SMTT(60)
  <2> HIDE DEF x, n
  <2> QED BY <1>1, <1>2, <2>1, <2>2, <2>3, <2>4, SrvRequestThread, ZenonT(60)
<1>6. c2s' = [c2s EXCEPT ![t] = <<>>] /\ th' = [th EXCEPT ![t] = x] /\ proc' = proc /\ report' = report
  BY <1>5, Here DEF SrvRequest
<1>7. proc' \in {"bench", "exited"} => x.pc \in BenchPcs /\ (x.pc = "ended" => x.lat # 0)
  BY <1>6, Here
<1> HIDE DEF x
<1> QED BY <1>1, <1>4, <1>5, <1>6, <1>7, OneThread

(* The worker is gone.                                                     *)
LEMMA SrvGoneInv == ASSUME IInv, NEW t \in Ids, SrvGone(t) PROVE IInv'
<1>0. PICK silent \in BOOLEAN : srv' = [srv EXCEPT ![t].alive = FALSE, ![t].silent = silent]
  BY DEF SrvGone
<1> DEFINE x == th[t]
           w == [srv[t] EXCEPT !.alive = FALSE, !.silent = silent]
<1>1. x \in Thread /\ srv[t] \in Worker /\ <<>> \in Seq({"LOGIN_REQ"} \union Commands) BY Here
<1>2. PICK k \in 0..Len(s2c[t]) : s2c' = [s2c EXCEPT ![t] = SubSeq(s2c[t], 1, k)] BY DEF SrvGone
<1>3. /\ SubSeq(s2c[t], 1, k) \in Seq(Packets) /\ ThreadInv(x, w, <<>>, SubSeq(s2c[t], 1, k))
  BY Here, SrvGoneThread DEF SrvGone
<1>4. w \in Worker BY <1>1 DEF Worker
<1>5. /\ srv' = [srv EXCEPT ![t] = w] /\ c2s' = [c2s EXCEPT ![t] = <<>>]
      /\ th' = [th EXCEPT ![t] = x] /\ proc' = proc /\ report' = report
  <2>1. srv' = [srv EXCEPT ![t] = w] BY <1>0, Here
  <2> QED BY <2>1, Here DEF SrvGone
<1>6. proc' \in {"bench", "exited"} => x.pc \in BenchPcs /\ (x.pc = "ended" => x.lat # 0)
  BY <1>5, Here
<1> HIDE DEF x, w
<1> QED BY <1>1, <1>2, <1>3, <1>4, <1>5, <1>6, OneThread

(* A silent connection is reset.                                           *)
LEMMA SrvResetInv == ASSUME IInv, NEW t \in Ids, SrvReset(t) PROVE IInv'
<1> DEFINE x == th[t]
           w == [srv[t] EXCEPT !.silent = FALSE]
<1>1. /\ x \in Thread /\ srv[t] \in Worker /\ c2s[t] \in Seq({"LOGIN_REQ"} \union Commands)
      /\ s2c[t] \in Seq(Packets) /\ ThreadInv(x, srv[t], c2s[t], s2c[t])
      /\ c2s' = [c2s EXCEPT ![t] = c2s[t]] /\ s2c' = [s2c EXCEPT ![t] = s2c[t]]
  BY Here DEF SrvReset
<1>2. w \in Worker /\ w.alive = srv[t].alive /\ w.n = srv[t].n BY <1>1 DEF Worker
<1>3. /\ srv' = [srv EXCEPT ![t] = w] /\ th' = [th EXCEPT ![t] = x]
      /\ proc' = proc /\ report' = report
  BY Here DEF SrvReset
<1>4. proc' \in {"bench", "exited"} => x.pc \in BenchPcs /\ (x.pc = "ended" => x.lat # 0)
  BY <1>3, Here
<1> HIDE DEF x, w
<1>5. ThreadInv(x, w, c2s[t], s2c[t])
  BY <1>1, <1>2 DEF ThreadInv, Fresh, RequestInv, UnreadInv
<1> QED BY <1>1, <1>2, <1>3, <1>4, <1>5, OneThread

(* Failed and Quit end a thread.                                           *)
LEMMA EndForms ==
  ASSUME NEW x \in Thread
  PROVE  /\ Failed(x) \in Thread /\ Failed(x).pc = "ended" /\ Failed(x).lat = -1
         /\ Failed(x).nsent = x.nsent /\ Failed(x).round = x.round /\ Failed(x).missed = x.missed
         /\ Quit(x) \in Thread /\ Quit(x).pc = "ended" /\ Quit(x).nsent = x.nsent
         /\ Quit(x).round = x.round /\ Quit(x).missed = x.missed
BY DEF Failed, Quit, Thread, Pcs, BenchPcs

(* A thread gives up: a connect or proto_recv has failed, or the player    *)
(* leaves.                                                                 *)
LEMMA GiveUpInv ==
  ASSUME IInv, NEW t \in Ids, UNCHANGED <<proc, srv, c2s, s2c, report>>,
         \/ proc = "bench" /\ th' = [th EXCEPT ![t] = Failed(th[t])]
         \/ proc = "app" /\ th' = [th EXCEPT ![t] = Quit(th[t])]
  PROVE  IInv'
<1>1. th[t] \in Thread /\ srv[t].alive \in BOOLEAN /\ th[t].missed \in BOOLEAN
  BY Here DEF Thread, Worker
<1>2. /\ srv[t] \in Worker /\ c2s[t] \in Seq({"LOGIN_REQ"} \union Commands)
      /\ s2c[t] \in Seq(Packets) /\ ThreadInv(th[t], srv[t], c2s[t], s2c[t])
      /\ srv' = [srv EXCEPT ![t] = srv[t]] /\ c2s' = [c2s EXCEPT ![t] = c2s[t]]
      /\ s2c' = [s2c EXCEPT ![t] = s2c[t]] /\ report' = report /\ proc' = proc
  BY Here
<1>3. PICK y \in Thread : /\ th' = [th EXCEPT ![t] = y] /\ y.pc = "ended" /\ y.nsent = th[t].nsent
                          /\ y.round = th[t].round /\ y.missed = th[t].missed
                          /\ proc = "bench" => y.lat # 0
                          /\ proc \in {"bench", "app"}
  BY <1>1, EndForms
<1>4. RequestInv(y, srv[t], c2s[t]) BY <1>2, <1>3 DEF ThreadInv, RequestInv
<1>5. y.round <= Rounds BY <1>2, <1>3 DEF ThreadInv, RoundInv
<1>6. ThreadInv(y, srv[t], c2s[t], s2c[t]) BY <1>2, <1>3, <1>4, <1>5, Ended
<1>7. proc' \in {"bench", "exited"} => y.pc \in BenchPcs /\ (y.pc = "ended" => y.lat # 0)
  BY <1>2, <1>3 DEF BenchPcs
<1>8. y \in Thread /\ th' = [th EXCEPT ![t] = y] BY <1>3
<1>9. proc' = proc \/ proc' = "killed" BY <1>2
<1> QED BY <1>2, <1>6, <1>7, <1>8, <1>9, OneThread, ZenonT(60)

(* A connection is made.                                                   *)
LEMMA ConnectedInv ==
  ASSUME IInv, NEW t \in Ids, th[t].pc = "connect", UNCHANGED <<proc, s2c, report>>,
         NEW next, Connected(t, next),
         \/ proc = "bench" /\ next = "login"
         \/ proc = "app" /\ next = "recv_until"
  PROVE  IInv'
<1> DEFINE y == [th[t] EXCEPT !.pc = next]
           w == [srv[t] EXCEPT !.alive = TRUE]
<1>1. /\ th[t] \in Thread /\ srv[t] \in Worker /\ s2c[t] \in Seq(Packets)
      /\ ThreadInv(th[t], srv[t], c2s[t], s2c[t])
      /\ s2c' = [s2c EXCEPT ![t] = s2c[t]] /\ report' = report /\ proc' = proc
  BY Here
<1>2. next \in {"login", "recv_until"} OBVIOUS
<1>3. y \in Thread /\ w \in Worker /\ y.pc = next BY <1>1, <1>2 DEF Thread, Pcs, BenchPcs, Worker
<1>4. /\ th' = [th EXCEPT ![t] = y] /\ srv' = [srv EXCEPT ![t] = w]
      /\ c2s' = [c2s EXCEPT ![t] = <<"LOGIN_REQ">>]
  BY DEF Connected
<1>5. <<"LOGIN_REQ">> \in Seq({"LOGIN_REQ"} \union Commands) OBVIOUS
<1>6. ThreadInv(y, w, <<"LOGIN_REQ">>, s2c[t]) BY <1>1, <1>2, ConnectedThread
<1> HIDE DEF y, w
<1>7. proc' \in {"bench", "exited"} => y.pc \in BenchPcs /\ (y.pc = "ended" => y.lat # 0)
  BY <1>1, <1>2, <1>3 DEF BenchPcs
<1> QED BY <1>1, <1>3, <1>4, <1>5, <1>6, <1>7, OneThread

(* A packet is read.                                                       *)
LEMMA ReadOneInv ==
  ASSUME IInv, NEW t \in Ids, Taken(t), s2c[t] # <<>>, UNCHANGED <<proc, srv, c2s, report>>,
         NEW z \in Thread, th' = [th EXCEPT ![t] = z],
         ThreadInv(z, srv[t], c2s[t], Tail(s2c[t])), proc \in {"bench", "app"},
         proc = "bench" => z.pc \in BenchPcs /\ (z.pc = "ended" => z.lat # 0)
  PROVE  IInv'
<1>1. /\ srv[t] \in Worker /\ c2s[t] \in Seq({"LOGIN_REQ"} \union Commands)
      /\ s2c[t] \in Seq(Packets)
      /\ srv' = [srv EXCEPT ![t] = srv[t]] /\ c2s' = [c2s EXCEPT ![t] = c2s[t]]
      /\ report' = report /\ proc' = proc
  BY Here
<1>2. Tail(s2c[t]) \in Seq(Packets) BY <1>1, HeadTailProperties
<1>3. s2c' = [s2c EXCEPT ![t] = Tail(s2c[t])] BY DEF Taken
<1>4. proc' \in {"bench", "exited"} => z.pc \in BenchPcs /\ (z.pc = "ended" => z.lat # 0)
  BY <1>1
<1> QED BY <1>1, <1>2, <1>3, <1>4, OneThread

(* A request is sent.                                                      *)
LEMMA SendInv ==
  ASSUME IInv, NEW t \in Ids, NEW op \in Commands, NEW next \in Thread, NEW failed \in Thread,
         Send(t, op, next, failed), UNCHANGED <<srv, s2c, report>>,
         next.nsent = th[t].nsent, next.round = th[t].round, next.missed = th[t].missed,
         ~next.seen_state, ~next.seen_hand,
         \/ proc = "bench" /\ th[t].pc = "play" /\ next.pc = "wait_play"
         \/ proc = "bench" /\ th[t].pc = "end" /\ next.pc = "wait_end"
         \/ proc = "app" /\ th[t].pc = "getch" /\ next.pc = "recv_until",
         failed.pc = "ended", failed.nsent = th[t].nsent, failed.round = th[t].round,
         failed.missed => th[t].pc # "getch",
         proc = "bench" => failed.lat # 0
  PROVE  IInv'
<1> DEFINE y == [next EXCEPT !.nsent = next.nsent + 1]
<1>1. /\ th[t] \in Thread /\ srv[t] \in Worker /\ c2s[t] \in Seq({"LOGIN_REQ"} \union Commands)
      /\ s2c[t] \in Seq(Packets) /\ ThreadInv(th[t], srv[t], c2s[t], s2c[t])
      /\ srv' = [srv EXCEPT ![t] = srv[t]] /\ s2c' = [s2c EXCEPT ![t] = s2c[t]]
      /\ report' = report
      /\ th = [th EXCEPT ![t] = th[t]] /\ c2s = [c2s EXCEPT ![t] = c2s[t]]
  BY Here
<1>2. /\ y \in Thread /\ y.nsent = th[t].nsent + 1 /\ y.round = th[t].round
      /\ y.missed = th[t].missed /\ ~y.seen_state /\ ~y.seen_hand /\ y.pc = next.pc
  BY <1>1, SMTT(60) DEF Thread
<1>3. y.pc \in Pcs /\ (proc = "bench" => y.pc \in Waits) BY <1>2 DEF Waits, Thread
<1>4. /\ ~srv[t].alive => ThreadInv(y, srv[t], c2s[t], s2c[t])
      /\ srv[t].alive => /\ c2s[t] = <<>>
                         /\ \A o \in Commands : ThreadInv(y, srv[t], <<o>>, s2c[t])
  <2>1. \/ th[t].pc = "play" /\ y.pc = "wait_play"
        \/ th[t].pc = "end" /\ y.pc = "wait_end"
        \/ th[t].pc = "getch" /\ y.pc = "recv_until"
    BY <1>2
  <2> HIDE DEF y
  <2> QED BY <1>1, <1>2, <2>1, SendThread
<1> HIDE DEF y
<1>5. proc' = proc => proc' \notin {"exited"} OBVIOUS
<1>6. CASE /\ srv[t].alive
           /\ c2s' = [c2s EXCEPT ![t] = Append(c2s[t], op)]
           /\ th' = [th EXCEPT ![t] = y] /\ proc' = proc
  <2>0. Append(<<>>, op) = <<op>> OBVIOUS
  <2>1. Append(c2s[t], op) = <<op>> BY <1>4, <1>6, <2>0
  <2>2. <<op>> \in Seq({"LOGIN_REQ"} \union Commands) OBVIOUS
  <2>3. ThreadInv(y, srv[t], <<op>>, s2c[t]) BY <1>4, <1>6
  <2>4. proc' \in {"bench", "exited"} => y.pc \in BenchPcs /\ (y.pc = "ended" => y.lat # 0)
    BY <1>3, <1>6 DEF BenchPcs, Waits
  <2>5. /\ c2s' = [c2s EXCEPT ![t] = <<op>>] /\ th' = [th EXCEPT ![t] = y]
        /\ proc' = proc \/ proc' = "killed"
    BY <1>6, <2>1
  <2> QED BY <1>1, <1>2, <2>2, <2>3, <2>4, <2>5, OneThread
<1>7. CASE /\ ~srv[t].alive /\ th' = [th EXCEPT ![t] = y] /\ proc' = proc /\ c2s' = c2s
  <2>1. proc' \in {"bench", "exited"} => y.pc \in BenchPcs /\ (y.pc = "ended" => y.lat # 0)
    BY <1>3, <1>7 DEF BenchPcs, Waits
  <2>2. /\ c2s' = [c2s EXCEPT ![t] = c2s[t]] /\ th' = [th EXCEPT ![t] = y]
        /\ proc' = proc \/ proc' = "killed"
    BY <1>1, <1>7
  <2>3. ThreadInv(y, srv[t], c2s[t], s2c[t]) BY <1>4, <1>7
  <2> QED BY <1>1, <1>2, <2>1, <2>2, <2>3, OneThread
<1>8. CASE /\ ~srv[t].alive /\ th' = [th EXCEPT ![t] = failed] /\ proc' = proc /\ c2s' = c2s
  <2>1. RequestInv(failed, srv[t], c2s[t]) BY <1>1, <1>8 DEF ThreadInv, RequestInv
  <2>2. failed.round <= Rounds BY <1>1 DEF ThreadInv, RoundInv
  <2>3. ThreadInv(failed, srv[t], c2s[t], s2c[t]) BY <1>1, <2>1, <2>2, Ended
  <2>4. proc' \in {"bench", "exited"} =>
          failed.pc \in BenchPcs /\ (failed.pc = "ended" => failed.lat # 0)
    BY <1>8 DEF BenchPcs
  <2>5. /\ c2s' = [c2s EXCEPT ![t] = c2s[t]] /\ th' = [th EXCEPT ![t] = failed]
        /\ proc' = proc \/ proc' = "killed"
    BY <1>1, <1>8
  <2> QED BY <1>1, <2>3, <2>4, <2>5, OneThread
<1>9. CASE ~srv[t].alive /\ proc' = "killed" /\ th' = th /\ c2s' = c2s
  <2>1. proc' \in {"bench", "exited"} =>
          th[t].pc \in BenchPcs /\ (th[t].pc = "ended" => th[t].lat # 0)
    BY <1>9
  <2>2. th' = [th EXCEPT ![t] = th[t]] /\ c2s' = [c2s EXCEPT ![t] = c2s[t]] /\ proc' = "killed"
    BY <1>1, <1>9
  <2> QED BY <1>1, <2>1, <2>2, OneThread
<1>10. [next EXCEPT !.nsent = @ + 1] = y BY DEF y
<1> QED BY <1>6, <1>7, <1>8, <1>9, <1>10 DEF Send

(* The steps of the benchmark's threads.                                   *)
LEMMA BenchConnectInv == ASSUME IInv, NEW t \in Ids, BenchConnect(t) PROVE IInv'
<1>1. CASE Connected(t, "login") BY <1>1, ConnectedInv DEF BenchConnect
<1>2. CASE th' = [th EXCEPT ![t] = Failed(@)] /\ UNCHANGED <<srv, c2s>>
  BY <1>2, GiveUpInv DEF BenchConnect
<1> QED BY <1>1, <1>2 DEF BenchConnect

(* The packets after the login.                                            *)
LEMMA BenchLoginInv == ASSUME IInv, NEW t \in Ids, BenchLogin(t) PROVE IInv'
<1>1. CASE Received(t) /\ Taken(t)
  <2> DEFINE z == IF Head(s2c[t]).op = "STATE" THEN NextRound([th[t] EXCEPT !.st = Head(s2c[t])])
                                               ELSE th[t]
  <2>1. s2c[t] # <<>> /\ th[t].pc = "login" /\ proc = "bench" BY <1>1 DEF Received, BenchLogin
  <2>2. th' = [th EXCEPT ![t] = z] BY <1>1, <2>1 DEF BenchLogin, RecvFails
  <2>3. /\ z \in Thread /\ z.pc \in BenchPcs /\ (z.pc = "ended" => z.lat # 0)
        /\ ThreadInv(z, srv[t], c2s[t], Tail(s2c[t]))
    BY <2>1, Here, BenchLoginThread
  <2> HIDE DEF z
  <2> QED BY <1>1, <2>1, <2>2, <2>3, ReadOneInv DEF BenchLogin
<1>2. CASE RecvFails(t) /\ th' = [th EXCEPT ![t] = Failed(@)] /\ UNCHANGED s2c
  BY <1>2, GiveUpInv DEF BenchLogin
<1> QED BY <1>1, <1>2 DEF BenchLogin

(* PLAY_CARD and END_TURN.                                                 *)
LEMMA BenchSendInv == ASSUME IInv, NEW t \in Ids, BenchSend(t) PROVE IInv'
<1> DEFINE x == th[t]
           next == [x EXCEPT !.pc = IF x.pc = "play" THEN "wait_play" ELSE "wait_end",
                             !.seen_state = FALSE, !.seen_hand = FALSE]
           failed == Done([x EXCEPT !.missed = TRUE])
           op == IF x.pc = "play" THEN "PLAY_CARD" ELSE "END_TURN"
<1>1. x \in Thread /\ proc = "bench" /\ x.pc \in {"play", "end"} BY Here DEF BenchSend
<1>2. /\ next \in Thread /\ next.nsent = x.nsent /\ next.round = x.round /\ next.missed = x.missed
      /\ ~next.seen_state /\ ~next.seen_hand
      /\ x.pc = "play" => next.pc = "wait_play"
      /\ x.pc = "end" => next.pc = "wait_end"
  BY <1>1 DEF Thread, Pcs, BenchPcs, Waits
<1>3. /\ failed \in Thread /\ failed.pc = "ended" /\ failed.nsent = x.nsent
      /\ failed.round = x.round /\ failed.lat # 0
  <2> DEFINE y == [x EXCEPT !.missed = TRUE]
  <2>1. y \in Thread /\ y.nsent = x.nsent /\ y.round = x.round BY <1>1 DEF Thread
  <2> HIDE DEF y
  <2>2. /\ Done(y) \in Thread /\ Done(y).pc = "ended" /\ Done(y).nsent = y.nsent
        /\ Done(y).round = y.round /\ Done(y).lat = 1
    BY <2>1 DEF Done, Thread, Pcs, BenchPcs
  <2> QED BY <2>1, <2>2 DEF y
<1>4. op \in Commands BY DEF Commands
<1>5. Send(t, op, next, failed) /\ UNCHANGED <<srv, s2c, report>> BY DEF BenchSend
<1> HIDE DEF next, failed, op
<1> QED BY <1>1, <1>2, <1>3, <1>4, <1>5, SendInv

(* The packets of a wait.                                                  *)
LEMMA BenchWaitInv == ASSUME IInv, NEW t \in Ids, BenchWait(t) PROVE IInv'
<1> DEFINE m == Head(s2c[t])
           y == Noted(th[t], m)
           z == CASE m.op = "STATE" /\ m.over /\ t = 0 -> Done(y)
                  [] y.seen_state /\ y.seen_hand       -> WaitOver(y)
                  [] OTHER                             -> y
<1>1. /\ s2c[t] # <<>> /\ th[t].pc \in Waits /\ proc = "bench"
      /\ th' = [th EXCEPT ![t] = z]
  BY DEF BenchWait, Waiting, Received, Waits
<1>2. \/ z = Done(y)
      \/ z = WaitOver(y) /\ y.seen_state /\ y.seen_hand
      \/ z = y /\ ~(y.seen_state /\ y.seen_hand)
  OBVIOUS
<1> HIDE DEF z
<1>3. /\ z \in Thread /\ z.pc \in BenchPcs /\ (z.pc = "ended" => z.lat # 0)
      /\ ThreadInv(z, srv[t], c2s[t], Tail(s2c[t]))
  BY <1>1, <1>2, Here, BenchWaitThread
<1> QED BY <1>1, <1>3, ReadOneInv DEF BenchWait

(* The connection is lost in a wait.                                       *)
LEMMA BenchWaitFailsInv == ASSUME IInv, NEW t \in Ids, BenchWaitFails(t) PROVE IInv'
<1> DEFINE y == [th[t] EXCEPT !.missed = TRUE]
           z == WaitOver(y)
<1>1. /\ th[t] \in Thread /\ srv[t] \in Worker /\ c2s[t] \in Seq({"LOGIN_REQ"} \union Commands)
      /\ s2c[t] \in Seq(Packets) /\ ThreadInv(th[t], srv[t], c2s[t], s2c[t])
  BY Here
<1>2. /\ th[t].pc \in Waits /\ proc = "bench" /\ ~srv[t].alive /\ th' = [th EXCEPT ![t] = z]
      /\ proc' = proc /\ report' = report
      /\ srv' = [srv EXCEPT ![t] = srv[t]] /\ c2s' = [c2s EXCEPT ![t] = c2s[t]]
      /\ s2c' = [s2c EXCEPT ![t] = s2c[t]]
  BY Here DEF BenchWaitFails, Waiting, RecvFails, Waits
<1>3. /\ y \in Thread /\ y.pc = th[t].pc /\ y.missed /\ y.nsent = th[t].nsent
      /\ y.round = th[t].round
  BY <1>1 DEF Thread
<1> HIDE DEF y
<1>4. RequestInv(y, srv[t], c2s[t]) /\ y.round < Rounds
  BY <1>1, <1>2, <1>3 DEF ThreadInv, RequestInv, RoundInv, Waits
<1>5. /\ z \in Thread /\ z.pc \in {"play", "end", "ended"} /\ (z.pc = "ended" => z.lat # 0)
      /\ ThreadInv(z, srv[t], c2s[t], s2c[t])
  <2>1. y.pc \in Waits BY <1>2, <1>3
  <2> QED BY <1>1, <1>3, <1>4, <2>1, WaitOverThread
<1> HIDE DEF z
<1>6. proc' \in {"bench", "exited"} => z.pc \in BenchPcs /\ (z.pc = "ended" => z.lat # 0)
  BY <1>5 DEF BenchPcs
<1> QED BY <1>1, <1>2, <1>5, <1>6, OneThread

(* The result of the benchmark.                                            *)
LEMMA ReportInv == ASSUME IInv, Report PROVE IInv'
<1> DEFINE S == {t \in Ids : th[t].lat > 0}
<1>1. Cardinality(S) \in Nat
  <2>1. IsFiniteSet(Ids) BY FS_Interval, ClientsAssumption DEF Ids
  <2> QED BY <2>1, FS_Subset, FS_CardinalityType
<1>2. report'.ok + report'.fail = Threads
  <2> DEFINE k == Cardinality(S)
  <2>1. report' = [ok |-> k, fail |-> Threads - k] BY DEF Report
  <2> HIDE DEF k
  <2>2. k \in Nat BY <1>1 DEF k
  <2> QED BY <2>1, <2>2, ClientsAssumption
<1>3. Types' BY DEF IInv, Types, Report
<1>4. Threaded' BY DEF IInv, Threaded, Report
<1>5. Results' BY DEF IInv, Results, Report
<1> QED BY <1>2, <1>3, <1>4, <1>5 DEF IInv, Reported

(* The steps of the terminal client, in thread 0.                          *)
LEMMA AppInv ==
  ASSUME IInv, AppConnect \/ RecvUntil \/ RecvUntilFails \/ KeyCommand \/ KeyQuit
  PROVE  IInv'
<1>0. 0 \in Ids BY ClientsAssumption DEF Ids
<1>1. CASE AppConnect
  <2>1. CASE Connected(0, "recv_until") BY <1>0, <1>1, <2>1, ConnectedInv DEF AppConnect
  <2>2. CASE th' = [th EXCEPT ![0] = Quit(@)] /\ UNCHANGED <<srv, c2s>>
    BY <1>0, <1>1, <2>2, GiveUpInv DEF AppConnect
  <2> QED BY <1>1, <2>1, <2>2 DEF AppConnect
<1>2. CASE RecvUntil
  <2> DEFINE y == Noted(th[0], Head(s2c[0]))
             z == IF y.seen_state /\ y.seen_hand THEN [y EXCEPT !.pc = "getch"] ELSE y
  <2>1. /\ s2c[0] # <<>> /\ th[0].pc = "recv_until" /\ proc = "app" /\ th' = [th EXCEPT ![0] = z]
        /\ Taken(0) /\ UNCHANGED <<proc, srv, c2s, report>>
    BY <1>2 DEF RecvUntil, Received
  <2>2. z \in Thread /\ ThreadInv(z, srv[0], c2s[0], Tail(s2c[0]))
    BY <1>0, <2>1, Here, RecvUntilThread
  <2> HIDE DEF z
  <2> QED BY <1>0, <2>1, <2>2, ReadOneInv
<1>3. CASE RecvUntilFails BY <1>0, <1>3, GiveUpInv DEF RecvUntilFails
<1>4. CASE KeyCommand
  <2> DEFINE x == th[0]
             next == Expect(x)
             failed == Quit(x)
  <2>1. PICK op \in Commands : Send(0, op, next, failed) BY <1>4 DEF KeyCommand, Commands
  <2>2. proc = "app" /\ x.pc = "getch" /\ UNCHANGED <<srv, s2c, report>> BY <1>4 DEF KeyCommand
  <2>3. x \in Thread BY <1>0, Here
  <2>4. /\ next \in Thread /\ next.nsent = x.nsent /\ next.round = x.round /\ next.missed = x.missed
        /\ ~next.seen_state /\ ~next.seen_hand /\ next.pc = "recv_until"
    BY <2>3 DEF Expect, Thread, Pcs, BenchPcs
  <2>5. /\ failed \in Thread /\ failed.pc = "ended" /\ failed.nsent = x.nsent
        /\ failed.round = x.round /\ failed.missed = x.missed
    BY <2>3, EndForms
  <2>6. ~x.missed
    <3>1. RequestInv(x, srv[0], c2s[0]) BY <1>0, Here DEF ThreadInv
    <3> QED BY <2>2, <3>1 DEF RequestInv
  <2> HIDE DEF next, failed
  <2> QED BY <1>0, <2>1, <2>2, <2>4, <2>5, <2>6, SendInv
<1>5. CASE KeyQuit BY <1>0, <1>5, GiveUpInv DEF KeyQuit
<1> QED BY <1>1, <1>2, <1>3, <1>4, <1>5
-----------------------------------------------------------------------------
(* IInv holds when the program starts.                                     *)
LEMMA InitInv == ASSUME Init PROVE IInv
<1>1. NoPkt \in Packets BY DEF NoPkt, Pkt, Packets, Ops
<1>2. Types
  <2>1. th \in [Ids -> Thread] BY <1>1 DEF Init, Thread, Pcs, BenchPcs
  <2>2. srv \in [Ids -> Worker] BY DEF Init, Worker
  <2>3. <<>> \in Seq({"LOGIN_REQ"} \union Commands) /\ <<>> \in Seq(Packets) BY EmptySeq
  <2>4. c2s \in [Ids -> Seq({"LOGIN_REQ"} \union Commands)] /\ s2c \in [Ids -> Seq(Packets)]
    BY <2>3 DEF Init
  <2> QED BY <2>1, <2>2, <2>4 DEF Init, Types
<1>3. Threaded
  <2> SUFFICES ASSUME NEW t \in Ids PROVE ThreadInv(th[t], srv[t], c2s[t], s2c[t])
    BY DEF Threaded
  <2>1. /\ th[t].pc = "connect" /\ th[t].round = 0 /\ ~th[t].seen_state /\ ~th[t].seen_hand
        /\ th[t].nsent = 0 /\ ~th[t].missed /\ ~srv[t].alive /\ srv[t].n = 0
        /\ c2s[t] = <<>> /\ s2c[t] = <<>>
    BY DEF Init
  <2>2. RoundInv(th[t]) BY <2>1, ClientsAssumption DEF RoundInv, Waits
  <2>3. Fresh(th[t], srv[t], c2s[t], s2c[t]) /\ RequestInv(th[t], srv[t], c2s[t])
    BY <2>1 DEF Fresh, RequestInv
  <2>4. ReadInv(th[t], c2s[t]) /\ UnreadInv(th[t], srv[t], c2s[t], s2c[t])
    BY <2>1 DEF ReadInv, UnreadInv, Waits
  <2> QED BY <2>2, <2>3, <2>4 DEF ThreadInv
<1>4. Results BY DEF Init, Results, BenchPcs
<1>5. Reported BY DEF Init, Reported
<1> QED BY <1>2, <1>3, <1>4, <1>5 DEF IInv

(* IInv is an inductive invariant of the client program.                   *)
LEMMA Invariance == Spec => []IInv
<1>1. Init => IInv BY InitInv
<1>2. IInv /\ [Next]_vars => IInv'
  <2> SUFFICES ASSUME IInv, [Next]_vars PROVE IInv' OBVIOUS
  <2>1. ASSUME NEW t \in Ids, SrvLogin(t) PROVE IInv' BY <2>1, SrvLoginInv
  <2>2. ASSUME NEW t \in Ids, SrvRequest(t) PROVE IInv' BY <2>2, SrvRequestInv
  <2>3. ASSUME NEW t \in Ids, SrvGone(t) \/ SrvReset(t) PROVE IInv'
    BY <2>3, SrvGoneInv, SrvResetInv
  <2>4. ASSUME NEW t \in Ids, BenchConnect(t) PROVE IInv' BY <2>4, BenchConnectInv
  <2>5. ASSUME NEW t \in Ids, BenchLogin(t) PROVE IInv' BY <2>5, BenchLoginInv
  <2>6. ASSUME NEW t \in Ids, BenchSend(t) PROVE IInv' BY <2>6, BenchSendInv
  <2>7. ASSUME NEW t \in Ids, BenchWait(t) PROVE IInv' BY <2>7, BenchWaitInv
  <2>8. ASSUME NEW t \in Ids, BenchWaitFails(t) PROVE IInv' BY <2>8, BenchWaitFailsInv
  <2>9. CASE Report BY <2>9, ReportInv
  <2>10. CASE AppConnect \/ RecvUntil \/ RecvUntilFails \/ KeyCommand \/ KeyQuit BY <2>10, AppInv
  <2>11. CASE UNCHANGED vars
    BY <2>11 DEF vars, IInv, Types, Threaded, Results, Reported
  <2> QED BY <2>1, <2>2, <2>3, <2>4, <2>5, <2>6, <2>7, <2>8, <2>9, <2>10, <2>11
          DEF Next, SrvStep, BenchStep
<1> QED BY <1>1, <1>2, PTL DEF Spec

(* Every variable keeps its type: the threads count their rounds, no more  *)
(* requests are counted than were sent, every thread of the benchmark that *)
(* has ended has left a result, and the report adds up.                    *)
THEOREM TypeCorrect == Spec => []TypeOK
<1>1. IInv => TypeOK
  <2> SUFFICES ASSUME IInv PROVE TypeOK OBVIOUS
  <2>1. ASSUME NEW t \in Ids
        PROVE  /\ th[t].round \in 0..Rounds /\ th[t].lat \in {-1, 0, 1}
               /\ th[t].nsent \in 0..srv[t].n + Len(c2s[t]) \/ ~srv[t].alive
               /\ proc \in {"bench", "exited"} /\ th[t].pc = "ended" => th[t].lat # 0
    <3>1. /\ th[t] \in Thread /\ srv[t] \in Worker
          /\ RoundInv(th[t]) /\ RequestInv(th[t], srv[t], c2s[t])
      BY Here DEF ThreadInv
    <3>2. th[t].round \in 0..Rounds /\ th[t].lat \in {-1, 0, 1}
      BY <3>1, ClientsAssumption DEF RoundInv, Thread
    <3>3. th[t].nsent \in Nat /\ srv[t].n \in Nat BY <3>1 DEF Thread, Worker
    <3>4. Len(<<>>) = 0 /\ Len(<<"LOGIN_REQ">>) = 1 /\ \A op : Len(<<op>>) = 1 OBVIOUS
    <3>5. th[t].nsent \in 0..srv[t].n + Len(c2s[t]) \/ ~srv[t].alive
      <4>1. CASE srv[t].alive
        <5>1. srv[t].n + Len(c2s[t]) \in Nat /\ th[t].nsent <= srv[t].n + Len(c2s[t])
          <6>1. CASE c2s[t] = <<"LOGIN_REQ">> /\ th[t].nsent = 0 /\ srv[t].n = 0
            BY <3>3, <3>4, <6>1
          <6>2. CASE c2s[t] = <<>> /\ srv[t].n = th[t].nsent BY <3>3, <3>4, <6>2
          <6>3. CASE \E op \in Commands : c2s[t] = <<op>> /\ srv[t].n + 1 = th[t].nsent
            <7>1. Len(c2s[t]) = 1 BY <3>4, <6>3
            <7> QED BY <3>3, <6>3, <7>1
          <6> QED BY <3>1, <4>1, <6>1, <6>2, <6>3 DEF RequestInv
        <5> QED BY <3>3, <5>1
      <4> QED BY <4>1
    <3> QED BY <3>2, <3>5, Here
  <2> QED BY <2>1 DEF IInv, Types, Reported, TypeOK
<1> QED BY <1>1, Invariance, PTL

(* The terminal client never takes a packet of one reply for the other:    *)
(* whenever it waits for a key, the board and the hand it shows are the    *)
(* reply to its last command and nothing is unread.                        *)
THEOREM AppTheorem == Spec => []AppInStep
<1>1. IInv => AppInStep
  <2> SUFFICES ASSUME IInv, proc = "app", th[0].pc = "getch"
               PROVE  /\ th[0].st.n = th[0].nsent /\ th[0].hand.n = th[0].nsent
                      /\ s2c[0] = <<>>
    BY DEF AppInStep
  <2>1. 0 \in Ids BY ClientsAssumption DEF Ids
  <2>2. ThreadInv(th[0], srv[0], c2s[0], s2c[0]) BY <2>1, Here
  <2>3. ~th[0].missed BY <2>2 DEF ThreadInv, RequestInv
  <2> QED BY <2>2, <2>3 DEF ThreadInv, ReadInv, UnreadInv
<1> QED BY <1>1, Invariance, PTL

(* The benchmark times its own requests: before each of them the STATE it  *)
(* has read last answers the request before, and only the HAND of that     *)
(* reply can be unread.                                                    *)
THEOREM BenchTheorem == Spec => []BenchInStep
<1>1. IInv => BenchInStep
  <2> SUFFICES ASSUME IInv, NEW t \in Ids, th[t].pc \in {"play", "end"}, ~th[t].missed
               PROVE  /\ th[t].st.n = th[t].nsent
                      /\ Len(s2c[t]) <= 1
                      /\ \A i \in DOMAIN s2c[t] : s2c[t][i].op = "HAND" /\ s2c[t][i].n = th[t].nsent
    BY DEF BenchInStep
  <2> DEFINE s == s2c[t]
             n == th[t].nsent
  <2>1. ThreadInv(th[t], srv[t], c2s[t], s) /\ s \in Seq(Packets) /\ th[t] \in Thread BY Here
  <2>2. th[t].st.n = n /\ Unread(s, srv[t].alive, {HandList(n)})
    BY <2>1 DEF ThreadInv, ReadInv, UnreadInv
  <2>3. Matches(s, HandList(n)) BY <2>2 DEF Unread
  <2>4. Len(HandList(n)) = 1 /\ HandList(n)[1] = <<"HAND", n>> BY DEF HandList
  <2>5. DOMAIN s = 1..Len(s) /\ Len(s) \in Nat BY <2>1, LenProperties
  <2>6. Len(s) <= 1 BY <2>3, <2>4 DEF Matches
  <2>7. ASSUME NEW i \in DOMAIN s PROVE s[i].op = "HAND" /\ s[i].n = n
    <3>1. i = 1 /\ i \in 1..Len(s) BY <2>5, <2>6
    <3>2. Sig(s[i]) = <<"HAND", n>> BY <2>3, <2>4, <3>1 DEF Matches
    <3> QED BY <3>2 DEF Sig
  <2> QED BY <2>2, <2>6, <2>7
<1> QED BY <1>1, Invariance, PTL
=============================================================================
