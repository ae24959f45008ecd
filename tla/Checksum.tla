------------------------------ MODULE Checksum ------------------------------
(***************************************************************************)
(* proto_checksum16 of src/src/common/proto.c: the complement of the bytes *)
(* added up, with the carries above 16 bits added back in.                 *)
(***************************************************************************)
EXTENDS Integers, Sequences

Byte   == 0..255
Word   == 65536               \* values of uint16_t
STACK  == 4096                \* stackbuf of proto_send and proto_recv
MaxSum == STACK * 255

(* The sum of the bytes: at most MaxSum for a packet that fits the buffer, *)
(* so that the uint32_t does not wrap.                                     *)
ByteSum(buf) ==
  LET sum[i \in 0..Len(buf)] ==
        IF i = 0 THEN 0 ELSE sum[i - 1] + buf[i]
  IN sum[Len(buf)]

(* One iteration of the loop over the carries: below Word it has ended.    *)
Carry(sum) == IF sum \div Word > 0 THEN (sum % Word) + (sum \div Word) ELSE sum

(* The loop: up to MaxSum, two iterations are enough (LoopEnds).           *)
Folded(sum) == Carry(Carry(sum))

(* uint16_t of ~sum.                                                       *)
Complement(sum) == (Word - 1) - (sum % Word)

proto_checksum16(buf) == Complement(Folded(ByteSum(buf)))

(* proto_recv, for a packet with its checksum field set to 0.              *)
Accepted(buf, cksum) == proto_checksum16(buf) = cksum

=============================================================================
