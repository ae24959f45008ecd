-------------------------------- MODULE Conn --------------------------------
(***************************************************************************)
(* One direction of a connection: proto_send at one end and proto_recv at  *)
(* the other (src/src/common/proto.c), over the SSL branch of conn_writen  *)
(* and conn_readn (src/src/common/net.c).  No program of the repository    *)
(* passes a NULL SSL, so the plain readn/writen branch is left out.        *)
(*                                                                         *)
(* A byte is a cell: its packet and its place in it.  The checksum holds   *)
(* for the cells of one packet in order and for nothing else.  OpenSSL and *)
(* the kernel (records, their buffers, end of file) are external.          *)
(***************************************************************************)
EXTENDS Integers, Sequences, SequencesExt, FiniteSetsExt

CONSTANTS
  HDR,        \* sizeof(pkt_hdr_t)
  PayLens,    \* payload lengths the sender uses
  CAP,        \* payload_buf_cap of the receiver
  BUF,        \* size of the stack buffers of proto_send and proto_recv
  RecMax,     \* bytes of one TLS record
  WireCap,    \* records the socket buffers hold
  MaxPkts,    \* bound: packets sent
  Selects     \* does the receiver wait in select() first (client_gui.c)?

ASSUME ConnAssumption ==
  /\ HDR \in Nat \ {0} /\ PayLens \subseteq Nat
  /\ CAP \in Nat /\ BUF \in Nat
  /\ RecMax \in Nat \ {0} /\ WireCap \in Nat \ {0} /\ MaxPkts \in Nat
  /\ Selects \in BOOLEAN

VARIABLES
  sent,       \* total_len of every packet proto_send started to write
  out,        \* bytes conn_writen has still to write
  closed,     \* has the sender closed its end, or died?
  wire,       \* records in the socket buffers
  pending,    \* bytes of the current record that SSL_read has not returned
  rpc,        \* receiver: "idle", "hdr", "pay", "failed"
  buf,        \* bytes conn_readn has read of the current packet
  left,       \* bytes it has still to read
  got,        \* the packets proto_recv returned
  expired     \* has SO_RCVTIMEO expired in the current proto_recv?

sendVars == <<sent, out, closed>>
recvVars == <<rpc, buf, left, got, expired>>
vars     == <<sendVars, wire, pending, recvVars>>

Cells(k, n) == [i \in 1..n |-> <<k, i>>]

Init ==
  /\ sent = <<>> /\ out = <<>> /\ closed = FALSE
  /\ wire = <<>> /\ pending = <<>>
  /\ rpc = "idle" /\ buf = <<>> /\ left = 0 /\ got = <<>> /\ expired = FALSE
-----------------------------------------------------------------------------
\* mutant: the next packet is appended to the bytes not written yet
ProtoSendMerged(plen) ==
  /\ ~closed
  /\ Len(sent) < MaxPkts
  /\ HDR + plen <= BUF
  /\ sent' = Append(sent, HDR + plen)
  /\ out' = out \o Cells(Len(sent) + 1, HDR + plen)
  /\ UNCHANGED <<closed, wire, pending, recvVars>>

(* proto_send: a packet that does not fit the stack buffer is refused with *)
(* -1 before anything is written; the others go to conn_writen.            *)
ProtoSend(plen) ==
  /\ ~closed
  /\ out = <<>>
  /\ Len(sent) < MaxPkts
  /\ HDR + plen <= BUF
  /\ sent' = Append(sent, HDR + plen)
  /\ out' = Cells(Len(sent) + 1, HDR + plen)
  /\ UNCHANGED <<closed, wire, pending, recvVars>>

\* mutant: after a write the loop may start again at the first byte
ConnWritenAgain ==
  LET w == Min({RecMax, Len(out)}) IN
  /\ out # <<>>
  /\ Len(wire) < WireCap
  /\ rpc # "failed"
  /\ wire' = Append(wire, SubSeq(out, 1, w))
  /\ out' \in {out, SubSeq(out, w + 1, Len(out))}
  /\ UNCHANGED <<sent, closed, pending, recvVars>>

(* conn_writen: SSL_write puts a record into the socket buffer.  A full    *)
(* buffer, or SO_SNDTIMEO, only makes the loop try again.                  *)
ConnWriten ==
  LET w == Min({RecMax, Len(out)}) IN
  /\ out # <<>>
  /\ Len(wire) < WireCap
  /\ rpc # "failed"
  /\ wire' = Append(wire, SubSeq(out, 1, w))
  /\ out' = SubSeq(out, w + 1, Len(out))
  /\ UNCHANGED <<sent, closed, pending, recvVars>>

(* conn_close of the sender, a write to a closed peer, or the end of the   *)
(* process, which can leave a packet half written.                         *)
SenderGone ==
  /\ ~closed
  /\ closed' = TRUE
  /\ out' = <<>>
  /\ UNCHANGED <<sent, wire, pending, recvVars>>
-----------------------------------------------------------------------------
(* proto_recv is called: by net_thread once select() finds the socket      *)
(* readable, which says nothing of bytes SSL holds; by the server at once. *)
ProtoRecv ==
  /\ rpc = "idle"
  /\ Selects => wire # <<>> \/ closed
  /\ rpc' = "hdr" /\ buf' = <<>> /\ left' = HDR /\ expired' = FALSE
  /\ UNCHANGED <<sendVars, wire, pending, got>>

Reading == rpc \in {"hdr", "pay"} /\ left > 0

(* SSL_read takes the next record from the socket when it has none ...     *)
SslFetch ==
  /\ Reading
  /\ pending = <<>> /\ wire # <<>>
  /\ pending' = Head(wire)
  /\ wire' = Tail(wire)
  /\ UNCHANGED <<sendVars, recvVars>>

\* mutant: the number of bytes asked for is not passed on
SslReadAll ==
  /\ Reading
  /\ pending # <<>>
  /\ buf' = buf \o pending
  /\ pending' = <<>>
  /\ left' = left - Len(pending)
  /\ UNCHANGED <<sendVars, wire, rpc, got, expired>>

(* ... and returns at most the bytes conn_readn asks for.                  *)
SslRead ==
  LET r == Min({left, Len(pending)}) IN
  /\ Reading
  /\ pending # <<>>
  /\ buf' = buf \o SubSeq(pending, 1, r)
  /\ pending' = SubSeq(pending, r + 1, Len(pending))
  /\ left' = left - r
  /\ UNCHANGED <<sendVars, wire, rpc, got, expired>>

(* The other end is gone: conn_readn and proto_recv return -1, and both    *)
(* run_session and net_thread close the connection.                        *)
SslEof ==
  /\ Reading
  /\ pending = <<>> /\ wire = <<>> /\ closed
  /\ rpc' = "failed"
  /\ UNCHANGED <<sendVars, wire, pending, buf, left, got, expired>>

(* SO_RCVTIMEO expires: SSL_ERROR_WANT_READ, and conn_readn continues.     *)
SslTimeout ==
  /\ Reading
  /\ pending = <<>> /\ wire = <<>> /\ ~closed
  /\ expired' = TRUE
  /\ UNCHANGED <<sendVars, wire, pending, rpc, buf, left, got>>

(* h.len of the header just read, if it is one.                            *)
IsHeader == buf = Cells(buf[1][1], HDR)
TotalLen == sent[buf[1][1]]

Fail == rpc' = "failed" /\ UNCHANGED <<buf, left, got, expired>>

Deliver ==
  /\ rpc' = "idle"
  /\ got' = Append(got, buf[1][1])
  /\ UNCHANGED <<buf, left, expired>>

\* mutant: a payload byte is awaited even when the packet has none
HeaderReadMore ==
  /\ rpc = "hdr" /\ left = 0
  /\ IF ~IsHeader \/ TotalLen > HDR + CAP THEN Fail
     ELSE rpc' = "pay" /\ left' = Max({1, TotalLen - HDR}) /\ UNCHANGED <<buf, got, expired>>
  /\ UNCHANGED <<sendVars, wire, pending>>

(* The header is complete: check its length, go on with the payload.       *)
HeaderRead ==
  /\ rpc = "hdr" /\ left = 0
  /\ IF ~IsHeader \/ TotalLen > HDR + CAP THEN Fail
     ELSE rpc' = "pay" /\ left' = TotalLen - HDR /\ UNCHANGED <<buf, got, expired>>
  /\ UNCHANGED <<sendVars, wire, pending>>

(* The packet is complete: verify the checksum in a second stack buffer.   *)
PacketRead ==
  /\ rpc = "pay" /\ left = 0
  /\ IF Len(buf) > BUF \/ buf # Cells(buf[1][1], Len(buf)) THEN Fail ELSE Deliver
  /\ UNCHANGED <<sendVars, wire, pending>>

RecvStep ==
  ProtoRecv \/ SslFetch \/ SslRead \/ SslEof \/ SslTimeout \/ HeaderRead \/ PacketRead

Next ==
  \/ \E plen \in PayLens : ProtoSend(plen)
  \/ ConnWriten
  \/ SenderGone
  \/ RecvStep

(* Both ends run; the sender need not have anything to say, nor close.     *)
Fairness == WF_vars(RecvStep) /\ WF_vars(ConnWriten)

Spec     == Init /\ [][Next]_vars
FairSpec == Spec /\ Fairness
-----------------------------------------------------------------------------
TypeOK ==
  /\ rpc \in {"idle", "hdr", "pay", "failed"}
  /\ left \in Nat
  /\ Len(buf) <= HDR + CAP
  /\ Len(wire) <= WireCap
  /\ closed \in BOOLEAN /\ expired \in BOOLEAN

(* Whatever the records and the buffers do, proto_recv returns the packets *)
(* of proto_send whole, in order, each once, until the connection ends.    *)
FramesInOrder ==
  /\ Len(got) <= Len(sent)
  /\ \A k \in 1..Len(got) : got[k] = k

(* When net_thread is back in select() no byte is left inside SSL, where   *)
(* select() would not see it: every packet starts with a record of its own.*)
NothingHidden == rpc = "idle" => pending = <<>>

(* A packet that was sent arrives, or the connection ends.                 *)
Delivered ==
  \A n \in 1..MaxPkts :
    Len(sent) = n ~> Len(got) >= n \/ rpc = "failed" \/ closed

(* A proto_recv whose timeout has expired returns: the socket timeout      *)
(* keeps a silent peer from blocking the process for ever.                 *)
TimeoutEnds == expired ~> rpc \in {"idle", "failed"}

=============================================================================
