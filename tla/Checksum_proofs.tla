-------------------------- MODULE Checksum_proofs --------------------------
(* Theorems about Checksum: what the carry loop leaves, and which damage   *)
(* to a packet proto_recv notices.                                         *)
EXTENDS Checksum, WellFoundedInduction, TLAPS

(* The largest sum of the bytes of a packet that fits the stack buffers.   *)
LEMMA LargestSum == MaxSum = 1044480
  BY DEF MaxSum, STACK

(* What sum >> 16 and sum & 0xFFFF are, for such a sum.                    *)
LEMMA WordDivision ==
  ASSUME NEW s \in Nat, s <= 1044480
  PROVE  /\ s \div 65536 \in Nat /\ s \div 65536 <= 15
         /\ s % 65536 \in Nat /\ s % 65536 <= 65535
         /\ s = (s \div 65536) * 65536 + (s % 65536)
  OBVIOUS

(* A carry step takes 65535 away as often as the sum had a carry.          *)
LEMMA CarryStep ==
  ASSUME NEW s \in Nat, s <= 1044480
  PROVE  /\ Carry(s) \in Nat /\ Carry(s) <= 65550
         /\ \E q \in 0..15 : s = Carry(s) + q * 65535
<1>1. PICK q \in 0..15, r \in Nat :
        q = s \div 65536 /\ r = s % 65536 /\ r <= 65535 /\ s = q * 65536 + r
  BY WordDivision
<1>2. Carry(s) = IF q > 0 THEN r + q ELSE s
  BY <1>1 DEF Carry, Word
<1>3. Carry(s) = r + q
  BY <1>1, <1>2
<1>4. s = Carry(s) + q * 65535 /\ Carry(s) \in Nat /\ Carry(s) <= 65550
  BY <1>1, <1>3
<1> QED BY <1>4

(* The loop of proto_checksum16 is over after two iterations, for every    *)
(* packet that fits: unrolling it twice in Folded loses nothing.           *)
THEOREM LoopEnds ==
  ASSUME NEW s \in Nat, s <= MaxSum
  PROVE  /\ Folded(s) \in Nat /\ Folded(s) < Word
         /\ Carry(Folded(s)) = Folded(s)
<1>1. Carry(s) \in Nat /\ Carry(s) <= 65550
  BY LargestSum, CarryStep
<1>2. ASSUME NEW c \in Nat, c <= 65550 PROVE Carry(c) \in Nat /\ Carry(c) < 65536
  <2>1. CASE c < 65536
    <3>1. c \div 65536 = 0
      BY <2>1
    <3> QED BY <2>1, <3>1 DEF Carry, Word
  <2>2. CASE c >= 65536
    <3>1. c \div 65536 = 1 /\ c % 65536 = c - 65536
      BY <1>2, <2>2
    <3> QED BY <1>2, <2>2, <3>1 DEF Carry, Word
  <2> QED BY <2>1, <2>2
<1>3. Folded(s) \in Nat /\ Folded(s) < 65536
  BY <1>1, <1>2 DEF Folded
<1>4. ASSUME NEW c \in Nat, c < 65536 PROVE Carry(c) = c
  <2>1. c \div 65536 = 0
    BY <1>4
  <2> QED BY <2>1 DEF Carry, Word
<1> QED BY <1>3, <1>4 DEF Word

(* What the loop leaves is the sum modulo 65535.                           *)
LEMMA FoldedIsRemainder ==
  ASSUME NEW s \in Nat, s <= MaxSum
  PROVE  \E k \in 0..30 : s = Folded(s) + k * 65535
<1>1. PICK q \in 0..15 : s = Carry(s) + q * 65535
  BY LargestSum, CarryStep
<1>2. Carry(s) \in Nat /\ Carry(s) <= 65550
  BY LargestSum, CarryStep
<1>3. PICK p \in 0..15 : Carry(s) = Carry(Carry(s)) + p * 65535
  BY <1>2, CarryStep
<1>4. Folded(s) \in Nat
  BY LoopEnds
<1>5. s = Folded(s) + (q + p) * 65535
  BY <1>1, <1>2, <1>3, <1>4 DEF Folded
<1> QED BY <1>5

(* A packet with one byte damaged is refused by proto_recv, whatever the   *)
(* byte and whatever the others are: rest is the sum of the other bytes of *)
(* a packet that fits the stack buffers.                                   *)
THEOREM ByteChangeDetected ==
  ASSUME NEW rest \in Nat, rest <= MaxSum - 255, NEW a \in Byte, NEW b \in Byte, a # b
  PROVE  Complement(Folded(rest + a)) # Complement(Folded(rest + b))
<1> DEFINE s == rest + a
           t == rest + b
<1>1. s \in Nat /\ s <= MaxSum /\ t \in Nat /\ t <= MaxSum
  BY LargestSum DEF Byte
<1>2. s - t \in Int /\ s - t # 0 /\ s - t < 256 /\ t - s < 256
  BY DEF Byte
<1> HIDE DEF s, t
<1>3. SUFFICES ASSUME Complement(Folded(s)) = Complement(Folded(t)) PROVE FALSE
  BY DEF s, t
<1>4. /\ Folded(s) \in Nat /\ Folded(s) < 65536
      /\ Folded(t) \in Nat /\ Folded(t) < 65536
  BY <1>1, LoopEnds DEF Word
<1>5. Folded(s) = Folded(t)
  <2>1. ASSUME NEW f \in Nat, f < 65536 PROVE Complement(f) = 65535 - f
    <3>1. f % 65536 = f
      BY <2>1
    <3> QED BY <3>1 DEF Complement, Word
  <2> QED BY <1>3, <1>4, <2>1
<1>6. PICK k \in 0..30 : s = Folded(s) + k * 65535
  BY <1>1, FoldedIsRemainder
<1>7. PICK m \in 0..30 : t = Folded(t) + m * 65535
  BY <1>1, FoldedIsRemainder
<1>8. s - t = (k - m) * 65535
  BY <1>4, <1>5, <1>6, <1>7
<1>9. k = m
  BY <1>1, <1>2, <1>8
<1> QED BY <1>1, <1>2, <1>8, <1>9
-----------------------------------------------------------------------------
(* Every set of numbers has a least one.  (The provers cannot apply the    *)
(* library's induction theorems, whose parameter is an operator; they can  *)
(* apply this one, whose parameter is a set.)                              *)
LEMMA Least ==
  ASSUME NEW T, T \subseteq Nat, T # {}
  PROVE  \E x \in T : \A y \in T : x <= y
<1> DEFINE R == OpToRel(<, Nat)
<1>1. IsWellFoundedOn(R, Nat) BY NatLessThanWellFounded, Zenon
<1>2. \A x, y \in Nat : y < x => <<y, x>> \in R BY DEF OpToRel
<1> HIDE DEF R
<1>3. PICK x \in T : \A y \in T : ~(<<y, x>> \in R) BY <1>1, WFMin
<1>4. \A y \in T : ~(y < x) BY <1>2, <1>3
<1>5. \A y \in T : x <= y BY <1>4
<1> QED BY <1>5

(* Induction over the natural numbers.                                     *)
LEMMA Induct ==
  ASSUME NEW T, 0 \in T, \A n \in Nat : n \in T => n + 1 \in T
  PROVE  Nat \subseteq T
<1> SUFFICES ASSUME Nat \ T # {} PROVE FALSE OBVIOUS
<1>1. PICK x \in Nat \ T : \A y \in Nat \ T : x <= y BY Least
<1>2. x # 0 /\ x - 1 \in Nat BY <1>1
<1>3. x - 1 \in T BY <1>1, <1>2
<1>4. (x - 1) + 1 \in T BY <1>2, <1>3
<1>5. (x - 1) + 1 = x BY <1>1
<1> QED BY <1>4, <1>5

(* What a byte is, for proofs about packets.                               *)
LEMMA ByteRange ==
  /\ \A x \in Byte : x \in Nat /\ x \in Int /\ x <= 255
  /\ 0 \in Byte /\ 255 \in Byte
  BY DEF Byte

(* f holds the sums of the first 0, 1, ..., n bytes of buf.                *)
IsSum(f, buf, n) == f = [i \in 0..n |-> IF i = 0 THEN 0 ELSE f[i - 1] + buf[i]]

(* There are such sums, for every number of bytes.                         *)
LEMMA SumExists ==
  ASSUME NEW buf, NEW n \in Nat
  PROVE  \E f : IsSum(f, buf, n)
<1> DEFINE T == {m \in Nat : \E f : IsSum(f, buf, m)}
<1>1. 0 \in T
  <2> DEFINE f == [i \in 0..0 |-> 0]
  <2>1. IsSum(f, buf, 0) BY DEF IsSum
  <2> QED BY <2>1
<1>2. ASSUME NEW m \in Nat, m \in T PROVE m + 1 \in T
  <2>1. PICK f : IsSum(f, buf, m) BY <1>2
  <2> DEFINE g == [i \in 0..(m + 1) |-> IF i = m + 1 THEN f[m] + buf[m + 1] ELSE f[i]]
  <2>2. ASSUME NEW i \in 0..(m + 1) PROVE g[i] = IF i = 0 THEN 0 ELSE g[i - 1] + buf[i]
    <3>1. CASE i = m + 1 BY <3>1
    <3>2. CASE i # m + 1
      <4>1. i \in 0..m BY <3>2
      <4>2. f[i] = IF i = 0 THEN 0 ELSE f[i - 1] + buf[i] BY <2>1, <4>1 DEF IsSum
      <4>3. i # 0 => i - 1 \in 0..m /\ i - 1 # m + 1 BY <4>1
      <4>4. g[i] = f[i] BY <4>1, <3>2
      <4>5. i # 0 => g[i - 1] = f[i - 1] BY <4>3
      <4> HIDE DEF g
      <4> QED BY <4>2, <4>4, <4>5
    <3> QED BY <3>1, <3>2
  <2>3. g = [i \in 0..(m + 1) |-> IF i = 0 THEN 0 ELSE g[i - 1] + buf[i]]
    <3>1. g = [i \in 0..(m + 1) |-> g[i]] OBVIOUS
    <3> HIDE DEF g
    <3> QED BY <2>2, <3>1
  <2>4. IsSum(g, buf, m + 1) BY <2>3 DEF IsSum
  <2> HIDE DEF g
  <2> QED BY <2>4
<1>3. Nat \subseteq T
  <2> HIDE DEF T
  <2> QED BY <1>1, <1>2, Induct
<1> QED BY <1>3

(* ByteSum is the last of them.                                            *)
LEMMA SumOf ==
  ASSUME NEW buf, NEW n \in Nat, Len(buf) = n
  PROVE  \E f : IsSum(f, buf, n) /\ ByteSum(buf) = f[n]
<1> DEFINE f == CHOOSE g : g = [i \in 0..n |-> IF i = 0 THEN 0 ELSE g[i - 1] + buf[i]]
<1>1. \E g : g = [i \in 0..n |-> IF i = 0 THEN 0 ELSE g[i - 1] + buf[i]] BY SumExists DEF IsSum
<1>2. IsSum(f, buf, n) BY <1>1, Zenon DEF IsSum
<1>3. ByteSum(buf) = f[n] BY DEF ByteSum
<1> HIDE DEF f
<1> QED BY <1>2, <1>3

(* The recursion, step by step.                                            *)
LEMMA SumStep ==
  ASSUME NEW buf, NEW n \in Nat, NEW f, IsSum(f, buf, n)
  PROVE  f[0] = 0 /\ \A i \in 0..n : i + 1 \in 0..n => f[i + 1] = f[i] + buf[i + 1]
<1>1. \A i \in 0..n : f[i] = IF i = 0 THEN 0 ELSE f[i - 1] + buf[i] BY DEF IsSum
<1>2. 0 \in 0..n OBVIOUS
<1>3. ASSUME NEW i \in 0..n, i + 1 \in 0..n PROVE f[i + 1] = f[i] + buf[i + 1]
  <2>1. i + 1 # 0 /\ (i + 1) - 1 = i OBVIOUS
  <2>2. f[i + 1] = f[(i + 1) - 1] + buf[i + 1] BY <1>1, <1>3, <2>1
  <2> QED BY <2>1, <2>2
<1> QED BY <1>1, <1>2, <1>3

(* The bytes of a packet add up to at most 255 each.                       *)
LEMMA SumBound ==
  ASSUME NEW buf \in Seq(Byte), NEW f, IsSum(f, buf, Len(buf)), NEW n \in 0..Len(buf)
  PROVE  f[n] \in Nat /\ f[n] <= 255 * n
<1> DEFINE T == {m \in Nat : m <= Len(buf) => f[m] \in Nat /\ f[m] <= 255 * m}
<1>0. Len(buf) \in Nat OBVIOUS
<1>1. /\ f[0] = 0
      /\ \A i \in 0..Len(buf) : i + 1 \in 0..Len(buf) => f[i + 1] = f[i] + buf[i + 1]
  BY <1>0, SumStep
<1>2. 0 \in T BY <1>1
<1>3. ASSUME NEW m \in Nat, m \in T PROVE m + 1 \in T
  <2>1. SUFFICES ASSUME m + 1 <= Len(buf) PROVE f[m + 1] \in Nat /\ f[m + 1] <= 255 * (m + 1)
    OBVIOUS
  <2>2. f[m] \in Nat /\ f[m] <= 255 * m BY <1>0, <1>3, <2>1
  <2>3. buf[m + 1] \in Nat /\ buf[m + 1] <= 255
    <3>1. buf[m + 1] \in Byte BY <2>1
    <3> QED BY <3>1, ByteRange
  <2>4. f[m + 1] = f[m] + buf[m + 1] BY <1>0, <1>1, <2>1
  <2> QED BY <2>2, <2>3, <2>4
<1>4. Nat \subseteq T
  <2> HIDE DEF T
  <2> QED BY <1>2, <1>3, Induct
<1> QED BY <1>0, <1>4

(* Another byte in one place adds the difference to every sum from there.  *)
LEMMA SumChange ==
  ASSUME NEW buf \in Seq(Byte), NEW k \in 1..Len(buf), NEW b \in Byte,
         NEW new, new = [buf EXCEPT ![k] = b],
         NEW f, IsSum(f, buf, Len(buf)), NEW g, IsSum(g, new, Len(buf)), NEW n \in 0..Len(buf)
  PROVE  g[n] = IF n < k THEN f[n] ELSE f[n] + (b - buf[k])
<1> DEFINE T == {m \in Nat : m <= Len(buf) =>
                               g[m] = IF m < k THEN f[m] ELSE f[m] + (b - buf[k])}
<1>0. Len(buf) \in Nat OBVIOUS
<1>1. /\ f[0] = 0 /\ g[0] = 0
      /\ \A i \in 0..Len(buf) : i + 1 \in 0..Len(buf) =>
           f[i + 1] = f[i] + buf[i + 1] /\ g[i + 1] = g[i] + new[i + 1]
  BY <1>0, SumStep, ZenonT(60)
<1>2. 0 \in T BY <1>1
<1>3. ASSUME NEW m \in Nat, m \in T PROVE m + 1 \in T
  <2>1. SUFFICES ASSUME m + 1 <= Len(buf)
                 PROVE  g[m + 1] = IF m + 1 < k THEN f[m + 1] ELSE f[m + 1] + (b - buf[k])
    OBVIOUS
  <2>2. g[m] = IF m < k THEN f[m] ELSE f[m] + (b - buf[k]) BY <1>0, <1>3, <2>1
  <2>3. f[m + 1] = f[m] + buf[m + 1] /\ g[m + 1] = g[m] + new[m + 1] BY <1>0, <1>1, <2>1
  <2>4. new[m + 1] = IF m + 1 = k THEN b ELSE buf[m + 1] BY <2>1
  <2>5. buf[m + 1] \in Int /\ buf[k] \in Int /\ b \in Int
    <3>1. buf[m + 1] \in Byte /\ buf[k] \in Byte BY <2>1
    <3> QED BY <3>1, ByteRange
  <2>6. f[m] \in Int
    <3>1. m \in 0..Len(buf) BY <1>0, <2>1
    <3> QED BY <3>1, SumBound
  <2>7. CASE m + 1 < k BY <2>2, <2>3, <2>4, <2>7
  <2>8. CASE m + 1 = k BY <2>2, <2>3, <2>4, <2>5, <2>6, <2>8
  <2>9. CASE m + 1 > k BY <2>2, <2>3, <2>4, <2>5, <2>6, <2>9, SMTT(60)
  <2> QED BY <2>7, <2>8, <2>9
<1>4. Nat \subseteq T
  <2> HIDE DEF T
  <2> QED BY <1>2, <1>3, Induct, SMTT(60)
<1> QED BY <1>0, <1>4

(* The bytes of every packet that fits the stack buffers add up to at most *)
(* MaxSum: the uint32_t of proto_checksum16 never wraps, and the two       *)
(* iterations of Folded are all that its loop makes (LoopEnds).            *)
THEOREM SumFits ==
  ASSUME NEW buf \in Seq(Byte), Len(buf) <= STACK
  PROVE  ByteSum(buf) \in Nat /\ ByteSum(buf) <= MaxSum /\ MaxSum < Word * Word
<1>0. Len(buf) \in Nat OBVIOUS
<1>1. PICK f : IsSum(f, buf, Len(buf)) /\ ByteSum(buf) = f[Len(buf)] BY <1>0, SumOf
<1>2. Len(buf) \in 0..Len(buf) BY <1>0
<1>3. f[Len(buf)] \in Nat /\ f[Len(buf)] <= 255 * Len(buf) BY <1>1, <1>2, SumBound
<1>4. 255 * Len(buf) <= MaxSum BY <1>0 DEF MaxSum, STACK
<1>5. MaxSum < Word * Word BY LargestSum, SMT DEF Word
<1> QED BY <1>0, <1>1, <1>3, <1>4, <1>5, LargestSum, SMT

(* The sum of a packet with another byte in one place.                     *)
LEMMA SumWithByte ==
  ASSUME NEW buf \in Seq(Byte), Len(buf) <= STACK, NEW k \in 1..Len(buf), NEW b \in Byte
  PROVE  /\ [buf EXCEPT ![k] = b] \in Seq(Byte)
         /\ ByteSum([buf EXCEPT ![k] = b]) = (ByteSum(buf) - buf[k]) + b
         /\ (ByteSum(buf) - buf[k]) + b \in Nat /\ (ByteSum(buf) - buf[k]) + b <= MaxSum
<1> DEFINE new == [buf EXCEPT ![k] = b]
<1>1. Len(buf) \in Nat /\ new \in Seq(Byte) /\ Len(new) = Len(buf) /\ buf[k] \in Byte OBVIOUS
<1> HIDE DEF new
<1>2. PICK f : IsSum(f, buf, Len(buf)) /\ ByteSum(buf) = f[Len(buf)] BY <1>1, SumOf
<1>3. PICK g : IsSum(g, new, Len(buf)) /\ ByteSum(new) = g[Len(buf)] BY <1>1, SumOf
<1>4. Len(buf) \in 0..Len(buf) /\ ~(Len(buf) < k) BY <1>1
<1>5. ByteSum(new) = ByteSum(buf) + (b - buf[k]) BY <1>2, <1>3, <1>4, SumChange DEF new
<1>6. ByteSum(buf) \in Nat /\ ByteSum(new) \in Nat /\ ByteSum(new) <= MaxSum BY <1>1, SumFits
<1>7. ByteSum(new) = (ByteSum(buf) - buf[k]) + b BY <1>1, <1>5, <1>6, ByteRange
<1> QED BY <1>1, <1>6, <1>7 DEF new

(* For every packet that fits the stack buffers: when proto_recv accepts   *)
(* it with a checksum, it refuses with that checksum every packet of the   *)
(* same length that differs from it in one byte, wherever that byte is and *)
(* whatever it became.                                                     *)
THEOREM DamagedByteRefused ==
  ASSUME NEW buf \in Seq(Byte), Len(buf) <= STACK, NEW cksum, Accepted(buf, cksum),
         NEW k \in 1..Len(buf), NEW b \in Byte, b # buf[k]
  PROVE  ~Accepted([buf EXCEPT ![k] = b], cksum)
<1> DEFINE rest == ByteSum(buf) - buf[k]
<1>0. buf[k] \in Byte /\ 0 \in Byte /\ 255 \in Byte BY ByteRange
<1>1. ByteSum(buf) \in Nat BY SumFits
<1>2. rest + 0 \in Nat /\ rest + 255 <= MaxSum BY <1>0, SumWithByte, ZenonT(60)
<1>3. rest \in Nat /\ rest <= MaxSum - 255 BY <1>0, <1>1, <1>2, LargestSum, ByteRange, SMT, SMTT(60)
<1>4. ByteSum(buf) = rest + buf[k] BY <1>0, <1>1, ByteRange
<1>5. ByteSum([buf EXCEPT ![k] = b]) = rest + b BY SumWithByte
<1> HIDE DEF rest
<1>6. Complement(Folded(rest + buf[k])) # Complement(Folded(rest + b))
  BY <1>0, <1>3, ByteChangeDetected
<1> QED BY <1>4, <1>5, <1>6 DEF Accepted, proto_checksum16

=============================================================================
