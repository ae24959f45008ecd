------------------------------- MODULE MCConn -------------------------------
(* Instances of Conn for TLC: see the cfg files for the sizes.             *)
EXTENDS Conn, Checksum

(* The sums around which a carry appears, up to the largest one: there the *)
(* checksum is the complement of the sum modulo 65535 (65535 for 0, unless *)
(* the sum is 0).                                                          *)
ASSUME ChecksumReference ==
  \A s \in (0..20) \union (65520..65560) \union (131050..131090) \union (1044400..MaxSum) :
    Complement(Folded(s)) = 65535 - (IF s = 0 THEN 0 ELSE ((s - 1) % 65535) + 1)

(* A packet with a damaged byte is refused; one with two bytes swapped is  *)
(* not.                                                                    *)
ASSUME ChecksumNotices ==
  \A p \in [1..4 -> {0, 1, 128, 255}] :
    /\ \A i \in 1..4, b \in {0, 1, 128, 255} :
         Accepted([p EXCEPT ![i] = b], proto_checksum16(p)) <=> b = p[i]
    /\ Accepted([p EXCEPT ![1] = p[2], ![2] = p[1]], proto_checksum16(p))
=============================================================================
