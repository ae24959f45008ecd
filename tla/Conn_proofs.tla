----------------------------- MODULE Conn_proofs -----------------------------
(***************************************************************************)
(* Proofs about Conn: for any header size, payload lengths, buffer and     *)
(* record sizes and number of packets.  The bytes on their way from        *)
(* proto_send to proto_recv lie in pieces (what SSL holds, the records in  *)
(* the socket buffers, what is not written yet); the invariant says that   *)
(* each piece belongs to one packet and starts where the one before it     *)
(* ends.                                                                   *)
(***************************************************************************)
EXTENDS Conn, SequenceTheorems, TLAPS

Cell == Nat \X Nat

(* The packet of a piece, and the offsets where it starts and ends there.  *)
Pkt(r)  == r[1][1]
From(r) == r[1][2] - 1
Upto(r) == From(r) + Len(r)

Piece(lens, r) ==
  /\ r \in Seq(Cell) /\ Len(r) > 0
  /\ Pkt(r) \in 1..Len(lens) /\ From(r) \in Nat /\ Upto(r) <= lens[Pkt(r)]
  /\ \A i \in 1..Len(r) : r[i] = <<Pkt(r), From(r) + i>>

(* The place in the stream after n bytes of packet k, for packets of the   *)
(* lengths lens.                                                           *)
Place(lens, k, n) ==
  IF k \in 1..Len(lens) /\ n = lens[k] THEN <<k + 1, 0>> ELSE <<k, n>>

(* Where the receiver has come to, what SSL has got from the socket, and   *)
(* what was written to it.                                                 *)
Current  == Len(got) + 1
ReadPos  == Place(sent, Current, IF rpc \in {"hdr", "pay"} THEN Len(buf) ELSE 0)
FetchPos == IF pending = <<>> THEN ReadPos ELSE Place(sent, Pkt(pending), Upto(pending))
WritePos == IF wire = <<>> THEN FetchPos
            ELSE Place(sent, Pkt(wire[Len(wire)]), Upto(wire[Len(wire)]))

Types ==
  /\ sent \in Seq(Nat) /\ out \in Seq(Cell) /\ closed \in BOOLEAN
  /\ wire \in Seq(Seq(Cell)) /\ Len(wire) <= WireCap /\ pending \in Seq(Cell)
  /\ rpc \in {"idle", "hdr", "pay", "failed"}
  /\ buf \in Seq(Cell) /\ Len(buf) <= HDR + CAP
  /\ left \in Nat /\ got \in Seq(Nat) /\ expired \in BOOLEAN

SentInv == \A k \in 1..Len(sent) : HDR <= sent[k] /\ sent[k] <= BUF

(* What proto_recv knows of the packet it is reading.                      *)
RecvInv ==
  /\ rpc \in {"hdr", "pay"} =>
       /\ \A i \in 1..Len(buf) : buf[i] = <<Current, i>>
       /\ Len(buf) > 0 => Current <= Len(sent) /\ Len(buf) <= sent[Current]
  /\ rpc = "hdr" => Len(buf) + left = HDR
  /\ rpc = "pay" => /\ Current <= Len(sent) /\ Len(buf) + left = sent[Current]
                    /\ sent[Current] <= HDR + CAP
  /\ rpc = "idle" => pending = <<>>

(* The pieces, from the receiver back to the sender.                       *)
PendingInv ==
  rpc # "failed" /\ pending # <<>> =>
    Piece(sent, pending) /\ Pkt(pending) = Current /\ ReadPos = <<Pkt(pending), From(pending)>>

WireInv ==
  rpc # "failed" =>
    /\ \A j \in 1..Len(wire) : Piece(sent, wire[j])
    /\ wire # <<>> => FetchPos = <<Pkt(wire[1]), From(wire[1])>>
    /\ \A j \in 1..(Len(wire) - 1) :
         Place(sent, Pkt(wire[j]), Upto(wire[j])) = <<Pkt(wire[j + 1]), From(wire[j + 1])>>

OutInv ==
  rpc # "failed" =>
    /\ out # <<>> => /\ Piece(sent, out) /\ WritePos = <<Pkt(out), From(out)>>
                     /\ Pkt(out) = Len(sent) /\ Upto(out) = sent[Len(sent)]
    /\ out = <<>> /\ ~closed => WritePos = <<Len(sent) + 1, 0>>

IInv == Types /\ SentInv /\ RecvInv /\ PendingInv /\ WireInv /\ OutInv /\ FramesInOrder
-----------------------------------------------------------------------------
(* Facts about pieces, places and the two operators of the loops.          *)

(* Min of two numbers is one of them, and not above the other.             *)
LEMMA MinOfTwo ==
  ASSUME NEW a \in Nat, NEW b \in Nat
  PROVE  /\ Min({a, b}) \in {a, b} /\ Min({a, b}) <= a /\ Min({a, b}) <= b
<1>1. \E x \in {a, b} : \A y \in {a, b} : x <= y
  <2>1. CASE a <= b BY <2>1
  <2>2. CASE b <= a BY <2>2
  <2> QED BY <2>1, <2>2
<1>2. Min({a, b}) \in {a, b} /\ \A y \in {a, b} : Min({a, b}) <= y
  BY <1>1 DEF Min
<1> QED BY <1>2

(* The bytes of a packet are one piece.                                    *)
LEMMA CellsPiece ==
  ASSUME NEW lens \in Seq(Nat), NEW k \in 1..Len(lens), lens[k] > 0
  PROVE  /\ Piece(lens, Cells(k, lens[k])) /\ Len(Cells(k, lens[k])) = lens[k]
         /\ Pkt(Cells(k, lens[k])) = k /\ From(Cells(k, lens[k])) = 0
         /\ Upto(Cells(k, lens[k])) = lens[k]
<1> DEFINE n == lens[k]
           r == Cells(k, n)
<1>1. n \in Nat /\ k \in Nat OBVIOUS
<1>2. r \in Seq(Cell) /\ Len(r) = n /\ \A i \in 1..n : r[i] = <<k, i>>
  <2>1. r \in [1..n -> Cell] /\ \A i \in 1..n : r[i] = <<k, i>> BY <1>1 DEF Cells, Cell
  <2> HIDE DEF r, n
  <2>2. r \in Seq(Cell)
    <3>1. Seq(Cell) = UNION {[1..j -> Cell] : j \in Nat} BY SeqDef
    <3>2. [1..n -> Cell] \in {[1..j -> Cell] : j \in Nat} BY <1>1
    <3> QED BY <2>1, <3>1, <3>2
  <2>3. DOMAIN r = 1..Len(r) /\ Len(r) \in Nat BY <2>2, LenProperties
  <2> QED BY <1>1, <2>1, <2>2, <2>3
<1>3. r[1] = <<k, 1>> BY <1>1, <1>2
<1> HIDE DEF r
<1>4. Pkt(r) = k /\ From(r) = 0 /\ Upto(r) = n BY <1>1, <1>2, <1>3 DEF Pkt, From, Upto
<1> QED BY <1>1, <1>2, <1>4 DEF Piece, r

(* The part of a piece in front of a cut is a piece.                       *)
LEMMA PieceFront ==
  ASSUME NEW lens \in Seq(Nat), NEW r, Piece(lens, r), NEW w \in 1..Len(r)
  PROVE  /\ Piece(lens, SubSeq(r, 1, w)) /\ Len(SubSeq(r, 1, w)) = w
         /\ Pkt(SubSeq(r, 1, w)) = Pkt(r) /\ From(SubSeq(r, 1, w)) = From(r)
         /\ \A i \in 1..w : SubSeq(r, 1, w)[i] = r[i]
<1> DEFINE f == SubSeq(r, 1, w)
<1>1. r \in Seq(Cell) /\ Len(r) \in Nat /\ w \in Nat BY LenProperties DEF Piece
<1>2. \A i \in 1..w : r[i] \in Cell BY <1>1
<1>3. f \in Seq(Cell) /\ Len(f) = w /\ \A i \in 1..w : f[i] = r[i]
  BY <1>1, <1>2, SubSeqProperties
<1> HIDE DEF f
<1>4. f[1] = r[1] BY <1>1, <1>3
<1>5. Pkt(f) = Pkt(r) /\ From(f) = From(r) BY <1>4 DEF Pkt, From
<1>6. /\ From(r) \in Nat /\ Pkt(r) \in 1..Len(lens) /\ From(r) + Len(r) <= lens[Pkt(r)]
      /\ lens[Pkt(r)] \in Nat
  BY SMTT(60) DEF Piece, Upto
<1>7. Upto(f) <= lens[Pkt(f)] BY <1>1, <1>3, <1>5, <1>6, SMTT(60) DEF Upto
<1>8. ASSUME NEW i \in 1..Len(f) PROVE f[i] = <<Pkt(f), From(f) + i>>
  <2>1. i \in 1..Len(r) /\ i \in 1..w BY <1>1, <1>3
  <2>2. r[i] = <<Pkt(r), From(r) + i>> BY <2>1 DEF Piece
  <2> QED BY <1>3, <1>5, <2>1, <2>2
<1>9. Piece(lens, f) BY <1>1, <1>3, <1>5, <1>6, <1>7, <1>8, SMTT(60) DEF Piece
<1> QED BY <1>3, <1>5, <1>9 DEF f

(* So is the part behind the cut.                                          *)
LEMMA PieceBack ==
  ASSUME NEW lens \in Seq(Nat), NEW r, Piece(lens, r), NEW w \in 1..(Len(r) - 1)
  PROVE  /\ Piece(lens, SubSeq(r, w + 1, Len(r))) /\ Len(SubSeq(r, w + 1, Len(r))) = Len(r) - w
         /\ Pkt(SubSeq(r, w + 1, Len(r))) = Pkt(r) /\ From(SubSeq(r, w + 1, Len(r))) = From(r) + w
         /\ Upto(SubSeq(r, w + 1, Len(r))) = Upto(r)
<1> DEFINE f == SubSeq(r, w + 1, Len(r))
<1>1. r \in Seq(Cell) /\ Len(r) \in Nat /\ w \in Nat /\ w < Len(r) BY LenProperties DEF Piece
<1>2. \A i \in (w + 1)..Len(r) : r[i] \in Cell BY <1>1
<1>3. f \in Seq(Cell) /\ Len(f) = Len(r) - w /\ \A i \in 1..(Len(r) - w) : f[i] = r[w + i]
  <2>1. w + 1 \in Int /\ Len(r) \in Int BY <1>1
  <2>2. /\ f \in Seq(Cell) /\ Len(f) = IF w + 1 <= Len(r) THEN Len(r) - (w + 1) + 1 ELSE 0
        /\ \A i \in 1..(Len(r) - (w + 1) + 1) : f[i] = r[(w + 1) + i - 1]
    BY <1>2, <2>1, SubSeqProperties
  <2> HIDE DEF f
  <2>3. Len(f) = Len(r) - w
    <3>1. w + 1 <= Len(r) /\ Len(r) - (w + 1) + 1 = Len(r) - w BY <1>1
    <3> QED BY <2>2, <3>1
  <2>4. ASSUME NEW i \in 1..(Len(r) - w) PROVE f[i] = r[w + i]
    <3>1. i \in 1..(Len(r) - (w + 1) + 1) /\ (w + 1) + i - 1 = w + i BY <1>1
    <3> QED BY <2>2, <3>1
  <2> QED BY <2>2, <2>3, <2>4
<1> HIDE DEF f
<1>4. f[1] = r[w + 1] /\ r[w + 1] = <<Pkt(r), From(r) + (w + 1)>> BY <1>1, <1>3, SMTT(60) DEF Piece
<1>5. /\ From(r) \in Nat /\ Pkt(r) \in 1..Len(lens) /\ From(r) + Len(r) <= lens[Pkt(r)]
      /\ lens[Pkt(r)] \in Nat
  BY SMTT(60) DEF Piece, Upto
<1>6. Pkt(f) = Pkt(r) /\ From(f) = From(r) + w
  <2>1. f[1][1] = Pkt(r) /\ f[1][2] = From(r) + (w + 1) BY <1>4
  <2>2. Pkt(f) = Pkt(r) BY <2>1 DEF Pkt
  <2>3. From(f) = f[1][2] - 1 BY DEF From
  <2> QED BY <1>1, <1>5, <2>1, <2>2, <2>3
<1>7. Upto(f) = Upto(r) BY <1>1, <1>3, <1>5, <1>6 DEF Upto
<1>8. ASSUME NEW i \in 1..Len(f) PROVE f[i] = <<Pkt(f), From(f) + i>>
  <2>1. w + i \in 1..Len(r) /\ i \in 1..(Len(r) - w) BY <1>1, <1>3
  <2>2. r[w + i] = <<Pkt(r), From(r) + (w + i)>> BY <2>1 DEF Piece
  <2>3. From(r) + (w + i) = From(f) + i BY <1>1, <1>5, <1>6, <2>1
  <2> QED BY <1>3, <1>6, <2>1, <2>2, <2>3
<1>9. Piece(lens, f)
  <2>1. Upto(f) <= lens[Pkt(f)] BY <1>5, <1>6, <1>7 DEF Upto
  <2>2. Pkt(f) \in 1..Len(lens) /\ From(f) \in Nat BY <1>1, <1>5, <1>6, SMTT(60)
  <2>3. f \in Seq(Cell) /\ Len(f) > 0 BY <1>1, <1>3
  <2> QED BY <1>8, <2>1, <2>2, <2>3 DEF Piece
<1> QED BY <1>3, <1>6, <1>7, <1>9 DEF f

(* A new packet changes no piece and no place of the earlier ones.         *)
LEMMA LongerLens ==
  ASSUME NEW lens \in Seq(Nat), NEW n \in Nat, n > 0
  PROVE  /\ \A r : Piece(lens, r) => Piece(Append(lens, n), r)
         /\ \A k \in 1..Len(lens), m \in Nat : Place(Append(lens, n), k, m) = Place(lens, k, m)
         /\ Place(Append(lens, n), Len(lens) + 1, 0) = <<Len(lens) + 1, 0>>
         /\ Place(lens, Len(lens) + 1, 0) = <<Len(lens) + 1, 0>>
<1> DEFINE L == Append(lens, n)
<1>1. /\ L \in Seq(Nat) /\ Len(L) = Len(lens) + 1 /\ L[Len(lens) + 1] = n
      /\ \A k \in 1..Len(lens) : L[k] = lens[k] /\ k \in 1..Len(L)
      /\ Len(lens) \in Nat
  BY AppendProperties, LenProperties
<1> HIDE DEF L
<1>2. \A r : Piece(lens, r) => Piece(L, r) BY <1>1 DEF Piece
<1>3. \A k \in 1..Len(lens), m \in Nat : Place(L, k, m) = Place(lens, k, m) BY <1>1 DEF Place
<1>4. Place(L, Len(lens) + 1, 0) = <<Len(lens) + 1, 0>> BY <1>1 DEF Place
<1>5. Place(lens, Len(lens) + 1, 0) = <<Len(lens) + 1, 0>> BY <1>1 DEF Place
<1> QED BY <1>2, <1>3, <1>4, <1>5 DEF L
-----------------------------------------------------------------------------
(* The numbers the invariants are about.                                   *)
LEMMA Numbers ==
  ASSUME IInv
  PROVE  /\ Len(sent) \in Nat /\ Len(got) \in Nat /\ Len(buf) \in Nat /\ Current \in Nat
         /\ Len(wire) \in Nat /\ Current >= 1 /\ Current <= Len(sent) + 1
         /\ \A k \in 1..Len(sent) : sent[k] \in Nat /\ sent[k] > 0
<1>1. Len(sent) \in Nat /\ Len(got) \in Nat /\ Len(buf) \in Nat /\ Len(wire) \in Nat
  BY LenProperties DEF IInv, Types
<1>2. Len(got) <= Len(sent) BY DEF IInv, FramesInOrder
<1>3. \A k \in 1..Len(sent) : sent[k] \in Nat /\ sent[k] > 0
  BY <1>1, ConnAssumption, SMTT(60) DEF IInv, Types, SentInv
<1> QED BY <1>1, <1>2, <1>3 DEF Current

(* proto_send: the new packet is the piece that follows all the others.    *)
LEMMA ProtoSendInv == ASSUME IInv, NEW plen \in PayLens, ProtoSend(plen) PROVE IInv'
<1> USE DEF ProtoSend, recvVars
<1> DEFINE n == HDR + plen
           c == Cells(Len(sent) + 1, n)
<1>1. n \in Nat /\ n > 0 /\ HDR <= n /\ n <= BUF BY ConnAssumption
<1>2. /\ sent' \in Seq(Nat) /\ Len(sent') = Len(sent) + 1 /\ sent'[Len(sent) + 1] = n
      /\ \A k \in 1..Len(sent) : sent'[k] = sent[k]
      /\ sent' = Append(sent, n)
  BY <1>1, AppendProperties DEF IInv, Types
<1>3. UNCHANGED <<closed, wire, pending, rpc, buf, left, got, expired>> OBVIOUS
<1>4. /\ Piece(sent', c) /\ Pkt(c) = Len(sent) + 1 /\ From(c) = 0 /\ Upto(c) = n
  <2> DEFINE lens == sent'
             k == Len(sent) + 1
  <2>1. lens \in Seq(Nat) /\ k \in 1..Len(lens) /\ lens[k] = n /\ n > 0
    BY <1>1, <1>2, Numbers
  <2>2. c = Cells(k, n) OBVIOUS
  <2> HIDE DEF lens, k, n, c, ProtoSend
  <2>3. /\ Piece(lens, Cells(k, n)) /\ Pkt(Cells(k, n)) = k /\ From(Cells(k, n)) = 0
        /\ Upto(Cells(k, n)) = n
    BY <2>1, CellsPiece
  <2> QED BY <2>2, <2>3 DEF lens, k
<1>5. /\ \A r : Piece(sent, r) => Piece(sent', r)
      /\ \A k \in 1..Len(sent), m \in Nat : Place(sent', k, m) = Place(sent, k, m)
      /\ Place(sent', Len(sent) + 1, 0) = <<Len(sent) + 1, 0>>
      /\ Place(sent, Len(sent) + 1, 0) = <<Len(sent) + 1, 0>>
  BY <1>1, <1>2, LongerLens, SMTT(60) DEF IInv, Types
<1>6. out' = c BY DEF c
<1>7. Types' BY <1>2, <1>3, <1>4, <1>6 DEF IInv, Types, Piece
<1> HIDE DEF n, c, ProtoSend
<1>8. SentInv'
  <2> SUFFICES ASSUME NEW k \in 1..Len(sent') PROVE HDR <= sent'[k] /\ sent'[k] <= BUF BY DEF SentInv
  <2>1. k \in 1..Len(sent) \/ k = Len(sent) + 1 BY <1>2, Numbers
  <2> QED BY <1>1, <1>2, <2>1 DEF IInv, SentInv
<1>9. RecvInv'
  <2>1. Current' = Current BY <1>3 DEF Current
  <2>2. Current <= Len(sent) => Current <= Len(sent') /\ sent'[Current] = sent[Current]
    BY <1>2, Numbers
  <2> QED BY <1>3, <2>1, <2>2 DEF IInv, RecvInv
<1>10. FramesInOrder' BY <1>2, <1>3, Numbers DEF IInv, FramesInOrder
<1>11. ASSUME rpc # "failed" PROVE ReadPos' = ReadPos
  <2> DEFINE m == IF rpc \in {"hdr", "pay"} THEN Len(buf) ELSE 0
  <2>1. Current' = Current /\ m \in Nat BY <1>3, Numbers DEF Current
  <2>2. ReadPos = Place(sent, Current, m) /\ ReadPos' = Place(sent', Current, m)
    BY <1>3, <2>1 DEF ReadPos
  <2>3. CASE Current \in 1..Len(sent)
    <3> HIDE DEF m
    <3> QED BY <1>5, <2>1, <2>2, <2>3
  <2>4. CASE Current = Len(sent) + 1
    <3>1. m = 0 BY <2>4, Numbers DEF IInv, RecvInv
    <3> QED BY <1>5, <2>2, <2>4, <3>1
  <2> QED BY <2>3, <2>4, Numbers
<1>12. \A r : Piece(sent, r) => Place(sent', Pkt(r), Upto(r)) = Place(sent, Pkt(r), Upto(r))
  <2> SUFFICES ASSUME NEW r, Piece(sent, r)
               PROVE  Place(sent', Pkt(r), Upto(r)) = Place(sent, Pkt(r), Upto(r))
    OBVIOUS
  <2>1. Pkt(r) \in 1..Len(sent) /\ Upto(r) \in Nat
    BY LenProperties DEF Piece, Upto
  <2> QED BY <1>5, <2>1
<1>13. PendingInv' BY <1>3, <1>5, <1>11 DEF IInv, PendingInv, Current
<1>14. ASSUME rpc # "failed" PROVE FetchPos' = FetchPos
  BY <1>3, <1>11, <1>12, <1>14 DEF IInv, PendingInv, FetchPos
<1>15. WireInv'
  <2> SUFFICES ASSUME rpc # "failed" PROVE WireInv' BY <1>3 DEF WireInv
  <2>1. \A j \in 1..Len(wire) : Piece(sent, wire[j]) BY DEF IInv, WireInv
  <2>2. \A j \in 1..Len(wire) : Piece(sent', wire[j]) BY <1>5, <2>1
  <2>3. wire # <<>> => FetchPos' = <<Pkt(wire[1]), From(wire[1])>> BY <1>14 DEF IInv, WireInv
  <2>4. ASSUME NEW j \in 1..(Len(wire) - 1)
        PROVE  Place(sent', Pkt(wire[j]), Upto(wire[j])) = <<Pkt(wire[j + 1]), From(wire[j + 1])>>
    <3>1. j \in 1..Len(wire) BY Numbers
    <3> QED BY <1>12, <2>1, <3>1 DEF IInv, WireInv
  <2> QED BY <1>3, <2>2, <2>3, <2>4 DEF WireInv
<1>16. ASSUME rpc # "failed" PROVE WritePos' = WritePos
  <2>1. CASE wire = <<>> BY <1>3, <1>14, <1>16, <2>1 DEF WritePos
  <2>2. CASE wire # <<>>
    <3>1. Len(wire) \in 1..Len(wire) BY <2>2, EmptySeq DEF IInv, Types
    <3>2. Piece(sent, wire[Len(wire)]) BY <1>16, <3>1 DEF IInv, WireInv
    <3> QED BY <1>3, <1>12, <2>2, <3>2 DEF WritePos
  <2> QED BY <2>1, <2>2
<1>17. OutInv'
  <2> SUFFICES ASSUME rpc # "failed" PROVE OutInv' BY <1>3 DEF OutInv
  <2>1. WritePos' = <<Len(sent) + 1, 0>>
    <3>1. WritePos = <<Len(sent) + 1, 0>> BY DEF IInv, OutInv, ProtoSend
    <3> QED BY <1>16, <3>1
  <2>2. c # <<>> BY <1>4 DEF Piece
  <2> QED BY <1>2, <1>4, <1>6, <2>1, <2>2 DEF OutInv
<1> QED BY <1>7, <1>8, <1>9, <1>10, <1>13, <1>15, <1>17 DEF IInv

(* conn_writen: the piece is cut, and its front becomes the last record.   *)
LEMMA ConnWritenInv == ASSUME IInv, ConnWriten PROVE IInv'
<1> DEFINE w == Min({RecMax, Len(out)})
           f == SubSeq(out, 1, w)
           b == SubSeq(out, w + 1, Len(out))
<1>1. /\ out # <<>> /\ Len(wire) < WireCap /\ rpc # "failed"
      /\ wire' = Append(wire, f) /\ out' = b
      /\ UNCHANGED <<sent, closed, pending, rpc, buf, left, got, expired>>
  BY DEF ConnWriten, recvVars
<1>2. /\ Piece(sent, out) /\ WritePos = <<Pkt(out), From(out)>> /\ sent \in Seq(Nat)
      /\ Pkt(out) = Len(sent) /\ Upto(out) = sent[Len(sent)] /\ Len(out) \in Nat /\ Len(out) > 0
  BY <1>1, LenProperties DEF IInv, OutInv, Types, Piece
<1>3. w \in 1..Len(out)
  <2>1. w \in {RecMax, Len(out)} /\ w <= Len(out) BY <1>2, ConnAssumption, MinOfTwo
  <2> HIDE DEF w
  <2> QED BY <1>2, <2>1, ConnAssumption
<1> HIDE DEF w
<1>4. Piece(sent, f) /\ Len(f) = w /\ Pkt(f) = Pkt(out) /\ From(f) = From(out)
  BY <1>2, <1>3, PieceFront
<1>5. w = Len(out) => b = <<>> BY <1>2, <1>3, SubSeqEmpty
<1>6. w < Len(out) => /\ Piece(sent, b) /\ Pkt(b) = Pkt(out) /\ From(b) = From(out) + w
                      /\ Upto(b) = Upto(out)
  BY <1>2, <1>3, PieceBack
<1> HIDE DEF f, b
<1>7. /\ Len(wire') = Len(wire) + 1 /\ wire'[Len(wire) + 1] = f
      /\ \A j \in 1..Len(wire) : wire'[j] = wire[j]
      /\ wire' \in Seq(Seq(Cell)) /\ wire' # <<>> /\ Len(wire) \in Nat
  <2>1. wire \in Seq(Seq(Cell)) /\ f \in Seq(Cell) BY <1>4 DEF IInv, Types, Piece
  <2> QED BY <1>1, <2>1, AppendProperties, LenProperties, SMTT(60)
<1>8. b \in Seq(Cell)
  <2>1. CASE w = Len(out) BY <1>5, <2>1, EmptySeq
  <2>2. CASE w < Len(out) BY <1>6, <2>2 DEF Piece
  <2> QED BY <1>2, <1>3, <2>1, <2>2
<1>9. Types' BY <1>1, <1>7, <1>8, ConnAssumption DEF IInv, Types
<1>10. SentInv' /\ RecvInv' /\ FramesInOrder'
  BY <1>1 DEF IInv, SentInv, RecvInv, FramesInOrder, Current
<1>11. ReadPos' = ReadPos /\ FetchPos' = FetchPos BY <1>1 DEF ReadPos, FetchPos, Current
<1>12. PendingInv' BY <1>1, <1>11 DEF IInv, PendingInv, Current
<1>13. WireInv'
  <2>1. ASSUME NEW j \in 1..Len(wire') PROVE Piece(sent, wire'[j])
    <3>1. j \in 1..Len(wire) \/ j = Len(wire) + 1 BY <1>7
    <3> QED BY <1>1, <1>4, <1>7, <3>1 DEF IInv, WireInv
  <2>2. FetchPos' = <<Pkt(wire'[1]), From(wire'[1])>>
    <3>1. CASE wire = <<>>
      <4>1. Len(wire) = 0 BY <3>1, EmptySeq
      <4>2. wire'[1] = f BY <1>7, <4>1
      <4>3. WritePos = FetchPos BY <3>1 DEF WritePos
      <4> QED BY <1>2, <1>4, <1>11, <4>2, <4>3
    <3>2. CASE wire # <<>>
      <4>1. 1 \in 1..Len(wire) BY <3>2, EmptySeq DEF IInv, Types
      <4> QED BY <1>1, <1>7, <1>11, <3>2, <4>1 DEF IInv, WireInv
    <3> QED BY <3>1, <3>2
  <2>3. ASSUME NEW j \in 1..(Len(wire') - 1)
        PROVE  Place(sent, Pkt(wire'[j]), Upto(wire'[j])) = <<Pkt(wire'[j + 1]), From(wire'[j + 1])>>
    <3>1. j \in 1..Len(wire) BY <1>7
    <3>2. CASE j = Len(wire)
      <4>1. wire # <<>> BY <3>1, <3>2, EmptySeq
      <4>2. WritePos = Place(sent, Pkt(wire[j]), Upto(wire[j])) BY <3>2, <4>1 DEF WritePos
      <4> QED BY <1>2, <1>4, <1>7, <3>1, <3>2, <4>2
    <3>3. CASE j # Len(wire)
      <4>1. j \in 1..(Len(wire) - 1) /\ j + 1 \in 1..Len(wire) BY <1>7, <3>1, <3>3
      <4> QED BY <1>1, <1>7, <3>1, <4>1 DEF IInv, WireInv
    <3> QED BY <3>2, <3>3
  <2> QED BY <1>1, <2>1, <2>2, <2>3 DEF WireInv
<1>14. WritePos' = Place(sent, Len(sent), From(out) + w)
  <2>1. wire'[Len(wire')] = f BY <1>7
  <2>2. Upto(f) = From(out) + w BY <1>4 DEF Upto
  <2> QED BY <1>1, <1>2, <1>4, <1>7, <2>1, <2>2 DEF WritePos
<1>15. /\ From(out) \in Nat /\ From(out) + Len(out) = sent[Len(sent)] /\ Len(sent) \in 1..Len(sent)
       /\ w \in Nat
  BY <1>2, <1>3 DEF Piece, Upto
<1>16. OutInv'
  <2>1. CASE w = Len(out)
    <3>1. WritePos' = <<Len(sent) + 1, 0>> BY <1>14, <1>15, <2>1 DEF Place
    <3> QED BY <1>1, <1>5, <2>1, <3>1 DEF OutInv
  <2>2. CASE w < Len(out)
    <3>1. WritePos' = <<Len(sent), From(out) + w>>
      <4>1. From(out) + w # sent[Len(sent)] BY <1>2, <1>15, <2>2
      <4> QED BY <1>14, <4>1 DEF Place
    <3>2. b # <<>> BY <1>6, <2>2 DEF Piece
    <3> QED BY <1>1, <1>2, <1>6, <2>2, <3>1, <3>2 DEF OutInv
  <2> QED BY <1>2, <1>3, <2>1, <2>2
<1> QED BY <1>9, <1>10, <1>12, <1>13, <1>16 DEF IInv

(* The end of the sender cuts the stream off behind the last record.       *)
LEMMA SenderGoneInv == ASSUME IInv, SenderGone PROVE IInv'
<1> USE DEF SenderGone, recvVars
<1>1. Types' /\ SentInv' /\ RecvInv' /\ FramesInOrder'
  BY EmptySeq DEF IInv, Types, SentInv, RecvInv, FramesInOrder, Current
<1>2. ReadPos' = ReadPos /\ FetchPos' = FetchPos BY DEF ReadPos, FetchPos, Current
<1>3. PendingInv' /\ WireInv' BY <1>2 DEF IInv, PendingInv, WireInv, Current
<1>4. OutInv' BY DEF OutInv
<1> QED BY <1>1, <1>3, <1>4 DEF IInv

(* proto_recv starts where it has left off.                                *)
LEMMA ProtoRecvInv == ASSUME IInv, ProtoRecv PROVE IInv'
<1> USE DEF ProtoRecv, sendVars
<1>1. Types'
  <2>1. buf' \in Seq(Cell) /\ Len(buf') = 0 BY EmptySeq
  <2>2. 0 <= HDR + CAP /\ HDR \in Nat BY ConnAssumption
  <2> QED BY <2>1, <2>2 DEF IInv, Types
<1>2. SentInv' /\ FramesInOrder' BY DEF IInv, SentInv, FramesInOrder
<1>3. RecvInv'
  <2>1. Len(buf') = 0 /\ pending' = <<>> BY EmptySeq DEF IInv, RecvInv
  <2> QED BY <2>1, ConnAssumption DEF RecvInv
<1>4. ReadPos' = ReadPos /\ FetchPos' = FetchPos /\ WritePos' = WritePos
  <2>1. Len(buf') = 0 BY EmptySeq
  <2>2. ReadPos' = ReadPos BY <2>1 DEF ReadPos, Current
  <2> QED BY <2>2 DEF FetchPos, WritePos
<1>5. PendingInv' /\ WireInv' /\ OutInv' BY <1>4 DEF IInv, PendingInv, WireInv, OutInv, Current
<1> QED BY <1>1, <1>2, <1>3, <1>5 DEF IInv

(* While a packet is being read, the next byte belongs to it.              *)
LEMMA ReadingPos == ASSUME IInv, Reading PROVE ReadPos = <<Current, Len(buf)>>
<1>1. ReadPos = Place(sent, Current, Len(buf)) BY DEF Reading, ReadPos
<1>2. Current \in 1..Len(sent) => Len(buf) # sent[Current]
  <2> SUFFICES ASSUME Current \in 1..Len(sent) PROVE Len(buf) # sent[Current] OBVIOUS
  <2>1. HDR <= sent[Current] /\ left > 0 /\ left \in Nat /\ Len(buf) \in Nat /\ sent[Current] \in Nat
    BY Numbers DEF IInv, SentInv, Types, Reading
  <2>2. CASE rpc = "hdr" BY <2>1, <2>2, ConnAssumption DEF IInv, RecvInv
  <2>3. CASE rpc = "pay" BY <2>1, <2>3 DEF IInv, RecvInv
  <2> QED BY <2>2, <2>3 DEF Reading
<1> QED BY <1>1, <1>2 DEF Place

(* SSL_read takes a record that starts at the next byte of the packet.     *)
LEMMA SslFetchInv == ASSUME IInv, SslFetch PROVE IInv'
<1>1. /\ Reading /\ rpc # "failed" /\ pending = <<>> /\ wire # <<>>
      /\ pending' = Head(wire) /\ wire' = Tail(wire)
      /\ UNCHANGED <<sent, out, closed, rpc, buf, left, got, expired>>
  BY DEF SslFetch, sendVars, recvVars, Reading
<1>2. /\ Len(wire) \in Nat /\ Len(wire) > 0 /\ Head(wire) = wire[1] /\ wire' \in Seq(Seq(Cell))
      /\ Len(wire') = Len(wire) - 1 /\ \A j \in 1..Len(wire') : wire'[j] = wire[j + 1]
  BY <1>1, HeadTailProperties, EmptySeq DEF IInv, Types
<1>3. /\ \A j \in 1..Len(wire) : Piece(sent, wire[j])
      /\ Piece(sent, wire[1]) /\ FetchPos = <<Pkt(wire[1]), From(wire[1])>>
  <2>1. 1 \in 1..Len(wire) BY <1>2
  <2> QED BY <1>1, <2>1 DEF IInv, WireInv
<1>4. ReadPos = <<Pkt(wire[1]), From(wire[1])>> /\ Pkt(wire[1]) = Current
  BY <1>1, <1>3, ReadingPos DEF FetchPos
<1>5. ReadPos' = ReadPos /\ Current' = Current BY <1>1 DEF ReadPos, Current
<1>6. pending' = wire[1] /\ pending' # <<>> BY <1>1, <1>2, <1>3 DEF Piece
<1>7. Types'
  <2>1. pending' \in Seq(Cell) BY <1>3, <1>6 DEF Piece
  <2> QED BY <1>1, <1>2, <2>1, ConnAssumption DEF IInv, Types
<1>8. SentInv' /\ FramesInOrder' BY <1>1 DEF IInv, SentInv, FramesInOrder
<1>9. RecvInv' BY <1>1, <1>5 DEF IInv, RecvInv, Reading
<1>10. PendingInv' BY <1>1, <1>3, <1>4, <1>5, <1>6 DEF PendingInv
<1>11. FetchPos' = Place(sent, Pkt(wire[1]), Upto(wire[1])) BY <1>1, <1>6 DEF FetchPos
<1>12. WireInv'
  <2>1. \A j \in 1..Len(wire') : Piece(sent, wire'[j])
    <3> TAKE j \in 1..Len(wire')
    <3>1. j + 1 \in 1..Len(wire) BY <1>2
    <3> QED BY <1>2, <1>3, <3>1
  <2>2. ASSUME wire' # <<>> PROVE FetchPos' = <<Pkt(wire'[1]), From(wire'[1])>>
    <3>1. Len(wire') > 0 BY <1>2, <2>2, EmptySeq
    <3>2. 1 \in 1..(Len(wire) - 1) /\ wire'[1] = wire[1 + 1] BY <1>2, <3>1
    <3> QED BY <1>1, <1>11, <3>2 DEF IInv, WireInv
  <2>3. ASSUME NEW j \in 1..(Len(wire') - 1)
        PROVE  Place(sent, Pkt(wire'[j]), Upto(wire'[j])) = <<Pkt(wire'[j + 1]), From(wire'[j + 1])>>
    <3>1. /\ j + 1 \in 1..(Len(wire) - 1) /\ wire'[j] = wire[j + 1]
          /\ wire'[j + 1] = wire[(j + 1) + 1]
      <4>1. j \in 1..Len(wire') /\ j + 1 \in 1..Len(wire') /\ j + 1 \in 1..(Len(wire) - 1) BY <1>2
      <4> QED BY <1>2, <4>1
    <3> QED BY <1>1, <3>1 DEF IInv, WireInv
  <2> QED BY <1>1, <2>1, <2>2, <2>3 DEF WireInv
<1>13. WritePos' = WritePos
  <2>1. CASE wire' = <<>>
    <3>1. Len(wire) = 1 BY <1>2, <2>1, EmptySeq
    <3> QED BY <1>1, <1>11, <2>1, <3>1 DEF WritePos
  <2>2. CASE wire' # <<>>
    <3>1. Len(wire') > 0 BY <1>2, <2>2, EmptySeq
    <3>2. wire'[Len(wire')] = wire[Len(wire)]
      <4>1. Len(wire') \in 1..Len(wire') /\ Len(wire') + 1 = Len(wire) BY <1>2, <3>1
      <4> QED BY <1>2, <4>1
    <3> QED BY <1>1, <2>2, <3>2 DEF WritePos
  <2> QED BY <2>1, <2>2
<1>14. OutInv' BY <1>1, <1>13 DEF IInv, OutInv
<1> QED BY <1>7, <1>8, <1>9, <1>10, <1>12, <1>14 DEF IInv

(* SSL_read moves the front of what it holds to the packet that is read.   *)
LEMMA SslReadInv == ASSUME IInv, SslRead PROVE IInv'
<1> DEFINE r == Min({left, Len(pending)})
           f == SubSeq(pending, 1, r)
           b == SubSeq(pending, r + 1, Len(pending))
<1>1. /\ Reading /\ rpc # "failed" /\ pending # <<>>
      /\ buf' = buf \o f /\ pending' = b /\ left' = left - r
      /\ UNCHANGED <<sent, out, closed, wire, rpc, got, expired>>
  BY DEF SslRead, sendVars, Reading
<1>2. /\ Piece(sent, pending) /\ Pkt(pending) = Current /\ ReadPos = <<Pkt(pending), From(pending)>>
      /\ Len(pending) \in Nat /\ Len(pending) > 0 /\ left \in Nat /\ left > 0
      /\ sent \in Seq(Nat) /\ buf \in Seq(Cell) /\ Len(buf) \in Nat
  BY <1>1, LenProperties DEF IInv, PendingInv, Types, Piece, Reading
<1>3. r \in 1..Len(pending) /\ r <= left
  <2>1. r \in {left, Len(pending)} /\ r <= Len(pending) /\ r <= left BY <1>2, MinOfTwo
  <2> HIDE DEF r
  <2> QED BY <1>2, <2>1
<1> HIDE DEF r
<1>4. /\ Piece(sent, f) /\ Len(f) = r /\ \A i \in 1..r : f[i] = pending[i]
  BY <1>2, <1>3, PieceFront
<1>5. r = Len(pending) => b = <<>> BY <1>2, <1>3, SubSeqEmpty
<1>6. r < Len(pending) => /\ Piece(sent, b) /\ Pkt(b) = Pkt(pending) /\ From(b) = From(pending) + r
                          /\ Upto(b) = Upto(pending)
  BY <1>2, <1>3, PieceBack
<1> HIDE DEF f, b
<1>7. From(pending) = Len(buf) /\ Current \in 1..Len(sent) /\ Len(buf) + Len(pending) <= sent[Current]
  <2>1. From(pending) = Len(buf) BY <1>1, <1>2, ReadingPos
  <2> QED BY <1>2, <2>1 DEF Piece, Upto
<1>8. /\ buf' \in Seq(Cell) /\ Len(buf') = Len(buf) + r
      /\ \A i \in 1..(Len(buf) + r) :
           buf'[i] = IF i <= Len(buf) THEN buf[i] ELSE f[i - Len(buf)]
  <2>1. f \in Seq(Cell) BY <1>4 DEF Piece
  <2>2. /\ buf \o f \in Seq(Cell) /\ Len(buf \o f) = Len(buf) + Len(f)
        /\ \A i \in 1..(Len(buf) + Len(f)) :
             (buf \o f)[i] = IF i <= Len(buf) THEN buf[i] ELSE f[i - Len(buf)]
    BY <1>2, <2>1, ConcatProperties
  <2> QED BY <1>1, <1>4, <2>2
<1>9. b \in Seq(Cell)
  <2>1. CASE r = Len(pending) BY <1>5, <2>1, EmptySeq
  <2>2. CASE r < Len(pending) BY <1>6, <2>2 DEF Piece
  <2> QED BY <1>2, <1>3, <2>1, <2>2
<1>10. r \in Nat /\ sent[Current] \in Nat /\ Len(buf) + r <= sent[Current] /\ left' \in Nat
       /\ Current' = Current
  BY <1>1, <1>2, <1>3, <1>7, Numbers, SMTT(60) DEF Current
<1>11. RecvInv'
  <2>1. ASSUME NEW i \in 1..Len(buf') PROVE buf'[i] = <<Current, i>>
    <3>1. CASE i <= Len(buf)
      <4>1. i \in 1..Len(buf) /\ i \in 1..(Len(buf) + r) BY <1>2, <1>8, <1>10, <3>1
      <4> QED BY <1>1, <1>8, <3>1, <4>1 DEF IInv, RecvInv, Reading
    <3>2. CASE i > Len(buf)
      <4>1. /\ i - Len(buf) \in 1..r /\ i - Len(buf) \in 1..Len(pending) /\ i \in 1..(Len(buf) + r)
            /\ ~(i <= Len(buf))
        BY <1>2, <1>3, <1>8, <1>10, <3>2, SMTT(60)
      <4>2. pending[i - Len(buf)] = <<Pkt(pending), From(pending) + (i - Len(buf))>>
        BY <1>2, <4>1 DEF Piece
      <4>3. From(pending) + (i - Len(buf)) = i BY <1>2, <1>7
      <4> QED BY <1>2, <1>4, <1>8, <4>1, <4>2, <4>3
    <3> QED BY <1>2, <1>8, <1>10, <3>1, <3>2, SMTT(60)
  <2>2. Len(buf') + left' = Len(buf) + left BY <1>1, <1>2, <1>8, <1>10
  <2>3. Current <= Len(sent) /\ Len(buf') <= sent[Current] BY <1>7, <1>8, <1>10
  <2> QED BY <1>1, <1>10, <2>1, <2>2, <2>3 DEF IInv, RecvInv, Reading
<1>12. Types'
  <2>1. Len(buf') <= HDR + CAP
    <3>1. Len(buf') + left' = Len(buf) + left BY <1>1, <1>2, <1>8, <1>10
    <3>2. CASE rpc = "hdr" BY <1>2, <1>8, <1>10, <3>1, <3>2, ConnAssumption DEF IInv, RecvInv
    <3>3. CASE rpc = "pay" BY <1>2, <1>8, <1>10, <3>1, <3>3, ConnAssumption DEF IInv, RecvInv
    <3> QED BY <1>1, <3>2, <3>3 DEF Reading
  <2> QED BY <1>1, <1>8, <1>9, <1>10, <2>1 DEF IInv, Types
<1>13. SentInv' /\ FramesInOrder' BY <1>1 DEF IInv, SentInv, FramesInOrder
<1>14. ReadPos' = Place(sent, Current, Len(buf) + r)
  BY <1>1, <1>8, <1>10 DEF ReadPos, Reading
<1>15. PendingInv'
  <2>1. CASE r = Len(pending) BY <1>1, <1>5, <2>1 DEF PendingInv
  <2>2. CASE r < Len(pending)
    <3>1. Len(buf) + r # sent[Current] BY <1>2, <1>3, <1>7, <1>10, <2>2
    <3>2. ReadPos' = <<Current, Len(buf) + r>> BY <1>14, <3>1 DEF Place
    <3> QED BY <1>1, <1>2, <1>6, <1>7, <1>10, <2>2, <3>2 DEF PendingInv
  <2> QED BY <1>2, <1>3, <2>1, <2>2
<1>16. FetchPos' = FetchPos
  <2>1. FetchPos = Place(sent, Current, Len(buf) + Len(pending))
    BY <1>1, <1>2, <1>7 DEF FetchPos, Upto
  <2>2. CASE r = Len(pending) BY <1>1, <1>5, <1>14, <2>1, <2>2 DEF FetchPos
  <2>3. CASE r < Len(pending)
    <3>1. b # <<>> BY <1>6, <2>3 DEF Piece
    <3> QED BY <1>1, <1>2, <1>6, <2>3, <3>1 DEF FetchPos
  <2> QED BY <1>2, <1>3, <2>2, <2>3
<1>17. WritePos' = WritePos BY <1>1, <1>16 DEF WritePos
<1>18. WireInv' /\ OutInv' BY <1>1, <1>16, <1>17 DEF IInv, WireInv, OutInv
<1> QED BY <1>11, <1>12, <1>13, <1>15, <1>18 DEF IInv

(* A receiver that has failed reads nothing any more.                      *)
LEMMA FailInv ==
  ASSUME IInv, rpc' = "failed",
         UNCHANGED <<sent, out, closed, wire, pending, buf, left, got, expired>>
  PROVE  IInv'
<1>1. Types' /\ SentInv' /\ FramesInOrder' BY DEF IInv, Types, SentInv, FramesInOrder
<1>2. RecvInv' /\ PendingInv' /\ WireInv' /\ OutInv' BY DEF RecvInv, PendingInv, WireInv, OutInv
<1> QED BY <1>1, <1>2 DEF IInv

(* An expired timeout, or nothing at all, changes none of the pieces.      *)
LEMMA TimeoutInv ==
  ASSUME IInv, expired' \in BOOLEAN,
         UNCHANGED <<sent, out, closed, wire, pending, rpc, buf, left, got>>
  PROVE  IInv'
<1>1. Types' /\ SentInv' /\ FramesInOrder' BY DEF IInv, Types, SentInv, FramesInOrder
<1>2. ReadPos' = ReadPos /\ FetchPos' = FetchPos /\ WritePos' = WritePos
  BY DEF ReadPos, FetchPos, WritePos, Current
<1>3. RecvInv' /\ PendingInv' /\ WireInv' /\ OutInv'
  BY <1>2 DEF IInv, RecvInv, PendingInv, WireInv, OutInv, Current
<1> QED BY <1>1, <1>3 DEF IInv

(* The header is read: the payload follows it in the same packet.          *)
LEMMA HeaderReadInv == ASSUME IInv, HeaderRead PROVE IInv'
<1> USE DEF HeaderRead, sendVars
<1>1. CASE Fail BY <1>1, FailInv DEF Fail
<1>2. CASE /\ ~(~IsHeader \/ TotalLen > HDR + CAP)
           /\ rpc' = "pay" /\ left' = TotalLen - HDR /\ UNCHANGED <<buf, got, expired>>
  <2>1. /\ rpc = "hdr" /\ Len(buf) \in Nat /\ Len(buf) = HDR /\ Len(buf) > 0
        /\ UNCHANGED <<sent, out, closed, wire, pending, buf, got, expired>>
    BY <1>2, Numbers, ConnAssumption, SMTT(60) DEF IInv, RecvInv, Types
  <2>2. Current \in 1..Len(sent) /\ HDR <= sent[Current] /\ sent[Current] \in Nat
    BY <2>1, Numbers DEF IInv, RecvInv, SentInv
  <2>3. TotalLen = sent[Current]
    <3>1. 1 \in 1..Len(buf) BY <2>1
    <3>2. buf[1] = <<Current, 1>> BY <2>1, <3>1 DEF IInv, RecvInv
    <3> QED BY <3>2 DEF TotalLen
  <2>4. left' \in Nat /\ Len(buf) + left' = sent[Current] /\ sent[Current] <= HDR + CAP
    BY <1>2, <2>1, <2>2, <2>3, ConnAssumption
  <2>5. Types' /\ SentInv' /\ FramesInOrder'
    BY <1>2, <2>1, <2>4 DEF IInv, Types, SentInv, FramesInOrder
  <2>6. Current' = Current BY <2>1 DEF Current
  <2>7. RecvInv' BY <1>2, <2>1, <2>2, <2>4, <2>6 DEF IInv, RecvInv
  <2>8. ReadPos' = ReadPos BY <1>2, <2>1, <2>6 DEF ReadPos
  <2>9. FetchPos' = FetchPos /\ WritePos' = WritePos BY <2>1, <2>8 DEF FetchPos, WritePos
  <2>10. PendingInv' /\ WireInv' /\ OutInv'
    BY <1>2, <2>1, <2>6, <2>8, <2>9 DEF IInv, PendingInv, WireInv, OutInv
  <2> QED BY <2>5, <2>7, <2>10 DEF IInv
<1> QED BY <1>1, <1>2

(* The packet is read: it is the next one, and SSL holds nothing more.     *)
LEMMA PacketReadInv == ASSUME IInv, PacketRead PROVE IInv'
<1> USE DEF PacketRead, sendVars
<1>1. CASE Fail BY <1>1, FailInv DEF Fail
<1>2. CASE Deliver
  <2>1. /\ rpc = "pay" /\ left = 0 /\ rpc' = "idle" /\ got' = Append(got, buf[1][1])
        /\ UNCHANGED <<sent, out, closed, wire, pending, buf, left, expired>>
    BY <1>2 DEF Deliver
  <2>2. /\ Current \in 1..Len(sent) /\ Len(buf) = sent[Current] /\ sent[Current] > 0
        /\ sent[Current] \in Nat
    BY <2>1, Numbers DEF IInv, RecvInv
  <2>3. buf[1][1] = Current
    <3>1. 1 \in 1..Len(buf) BY <2>2
    <3>2. buf[1] = <<Current, 1>> BY <2>1, <3>1 DEF IInv, RecvInv
    <3> QED BY <3>2
  <2>4. /\ got' \in Seq(Nat) /\ Len(got') = Len(got) + 1 /\ got'[Len(got) + 1] = Current
        /\ \A k \in 1..Len(got) : got'[k] = got[k]
    BY <2>1, <2>3, Numbers, AppendProperties DEF IInv, Types
  <2>5. Current' = Current + 1 BY <2>4 DEF Current
  <2>6. ReadPos = <<Current + 1, 0>> BY <2>1, <2>2 DEF ReadPos, Place
  <2>7. pending = <<>>
    <3> SUFFICES ASSUME pending # <<>> PROVE FALSE OBVIOUS
    <3>1. Pkt(pending) = Current /\ ReadPos = <<Pkt(pending), From(pending)>>
      BY <2>1 DEF IInv, PendingInv
    <3> QED BY <2>6, <3>1, Numbers
  <2>8. ReadPos' = ReadPos
    <3>1. ReadPos' = Place(sent, Current + 1, 0) BY <2>1, <2>5 DEF ReadPos
    <3>2. Place(sent, Current + 1, 0) = <<Current + 1, 0>> BY Numbers, SMTT(60) DEF Place
    <3> QED BY <2>6, <3>1, <3>2
  <2>9. FetchPos' = FetchPos /\ WritePos' = WritePos BY <2>1, <2>8 DEF FetchPos, WritePos
  <2>10. Types' BY <2>1, <2>4 DEF IInv, Types
  <2>11. SentInv' /\ RecvInv' BY <2>1, <2>7 DEF IInv, SentInv, RecvInv
  <2>12. FramesInOrder'
    <3>1. Len(got') <= Len(sent') BY <2>1, <2>2, <2>4, Numbers DEF Current
    <3>2. ASSUME NEW k \in 1..Len(got') PROVE got'[k] = k
      <4>1. k \in 1..Len(got) \/ k = Len(got) + 1 BY <2>4, Numbers
      <4> QED BY <2>4, <4>1 DEF IInv, FramesInOrder, Current
    <3> QED BY <3>1, <3>2 DEF FramesInOrder
  <2>13. PendingInv' /\ WireInv' /\ OutInv'
    BY <2>1, <2>7, <2>9 DEF IInv, PendingInv, WireInv, OutInv
  <2> QED BY <2>10, <2>11, <2>12, <2>13 DEF IInv
<1> QED BY <1>1, <1>2

(* IInv holds on a connection over which nothing has been sent.            *)
LEMMA InitInv == ASSUME Init PROVE IInv
<1> USE DEF Init
<1>1. Len(sent) = 0 /\ Len(got) = 0 /\ Len(buf) = 0 /\ Len(wire) = 0 BY EmptySeq
<1>2. Types
  <2>1. <<>> \in Seq(Nat) /\ <<>> \in Seq(Cell) /\ <<>> \in Seq(Seq(Cell)) BY EmptySeq
  <2>2. 0 <= WireCap /\ 0 <= HDR + CAP BY ConnAssumption
  <2> QED BY <1>1, <2>1, <2>2 DEF Types
<1>3. SentInv /\ RecvInv /\ FramesInOrder BY <1>1 DEF SentInv, RecvInv, FramesInOrder
<1>4. PendingInv BY DEF PendingInv
<1>5. WireInv BY <1>1 DEF WireInv
<1>6. OutInv BY <1>1 DEF OutInv, WritePos, FetchPos, ReadPos, Place, Current
<1> QED BY <1>2, <1>3, <1>4, <1>5, <1>6 DEF IInv

(* IInv is an inductive invariant of a connection.                         *)
LEMMA Invariance == Spec => []IInv
<1>1. Init => IInv BY InitInv
<1>2. IInv /\ [Next]_vars => IInv'
  <2> SUFFICES ASSUME IInv, [Next]_vars PROVE IInv' OBVIOUS
  <2>1. CASE \E plen \in PayLens : ProtoSend(plen) BY <2>1, ProtoSendInv
  <2>2. CASE ConnWriten BY <2>2, ConnWritenInv
  <2>3. CASE SenderGone BY <2>3, SenderGoneInv
  <2>4. CASE ProtoRecv BY <2>4, ProtoRecvInv
  <2>5. CASE SslFetch BY <2>5, SslFetchInv
  <2>6. CASE SslRead BY <2>6, SslReadInv
  <2>7. CASE SslEof BY <2>7, FailInv DEF SslEof, sendVars
  <2>8. CASE SslTimeout BY <2>8, TimeoutInv DEF SslTimeout, sendVars
  <2>9. CASE HeaderRead BY <2>9, HeaderReadInv
  <2>10. CASE PacketRead BY <2>10, PacketReadInv
  <2>11. CASE UNCHANGED vars
    BY <2>11, TimeoutInv DEF vars, sendVars, recvVars, IInv, Types
  <2> QED BY <2>1, <2>2, <2>3, <2>4, <2>5, <2>6, <2>7, <2>8, <2>9, <2>10, <2>11 DEF Next, RecvStep
<1> QED BY <1>1, <1>2, PTL DEF Spec

(* Every variable keeps its type: above all, conn_readn never reads more   *)
(* than HDR + CAP bytes into the receiver's buffers.                       *)
THEOREM TypeCorrect == Spec => []TypeOK
<1>1. IInv => TypeOK BY DEF IInv, Types, TypeOK
<1> QED BY <1>1, Invariance, PTL

(* However conn_writen and SSL_read cut the stream into records and reads, *)
(* proto_recv returns the packets of proto_send whole, in order, each once.*)
THEOREM FramesTheorem == Spec => []FramesInOrder
<1>1. IInv => FramesInOrder BY DEF IInv
<1> QED BY <1>1, Invariance, PTL

(* Between two packets no byte is left inside SSL, so that net_thread may  *)
(* wait in select().                                                       *)
THEOREM HiddenTheorem == Spec => []NothingHidden
<1>1. IInv => NothingHidden BY DEF IInv, RecvInv, NothingHidden
<1> QED BY <1>1, Invariance, PTL
==============================================================================
