-------------------------- MODULE BattleLog_proofs --------------------------
(* Theorems about BattleLog: what the panel of the GUI shows.              *)
EXTENDS BattleLog, WellFoundedInduction, TLAPS

(* Writing a line keeps the ring in its bounds.                            *)
LEMMA PushKeepsRing ==
  ASSUME NEW Lines, NEW st \in Rings(Lines), NEW line \in Lines
  PROVE  push_log(st, line) \in Rings(Lines)
  BY DEF Rings, push_log, LOG_LINES

(* Going round the ring of six by one to five places never ends where it   *)
(* began.                                                                  *)
LEMMA StepInRing ==
  ASSUME NEW h \in 0..5, NEW i \in 1..5
  PROVE  (h + i) % 6 # h /\ (h + i) % 6 \in 0..5
<1>1. h + i \in Nat /\ h + i < 12
  OBVIOUS
<1>2. CASE h + i < 6
  <2>1. (h + i) % 6 = h + i
    BY <1>1, <1>2
  <2> QED BY <1>2, <2>1
<1>3. CASE h + i >= 6
  <2>1. (h + i) % 6 = h + i - 6
    BY <1>1, <1>3
  <2> QED BY <1>3, <2>1
<1> QED BY <1>2, <1>3

(* For every ring, whatever its head and its lines: push_log drops the top *)
(* line of the panel, moves the others up by one and puts the new line at  *)
(* the bottom.                                                             *)
THEOREM PushScrolls ==
  ASSUME NEW Lines, NEW st \in Rings(Lines), NEW line \in Lines
  PROVE  /\ \A i \in 1..(LOG_LINES - 1) : Shown(push_log(st, line))[i] = Shown(st)[i + 1]
         /\ Shown(push_log(st, line))[LOG_LINES] = line
<1> DEFINE new == push_log(st, line)
           h   == st.log_head
<1>1. /\ h \in 0..5
      /\ new.log_head = (h + 1) % 6
      /\ new.logs = [st.logs EXCEPT ![h % 6] = line]
      /\ DOMAIN st.logs = 0..5
      /\ h % 6 = h
  BY DEF Rings, push_log, LOG_LINES
<1>2. ASSUME NEW i \in 1..5
      PROVE  Shown(new)[i] = Shown(st)[i + 1]
  <2>1. (new.log_head + (i - 1)) % 6 = (h + i) % 6
    <3>1. CASE h = 5
      BY <1>1, <3>1
    <3>2. CASE h < 5
      BY <1>1, <3>2
    <3> QED BY <1>1, <3>1, <3>2
  <2>2. (h + i) % 6 # h /\ (h + i) % 6 \in 0..5
    BY <1>1, StepInRing
  <2>3. Shown(new)[i] = new.logs[(h + i) % 6]
    BY <2>1 DEF Shown, LOG_LINES
  <2>4. Shown(st)[i + 1] = st.logs[(h + i) % 6]
    BY <1>1 DEF Shown, LOG_LINES
  <2> QED BY <1>1, <2>2, <2>3, <2>4
<1>3. Shown(new)[6] = line
  <2>1. (new.log_head + 5) % 6 = h
    BY <1>1
  <2>2. Shown(new)[6] = new.logs[h]
    BY <2>1 DEF Shown, LOG_LINES
  <2> QED BY <1>1, <2>2
<1> QED BY <1>2, <1>3 DEF LOG_LINES
-----------------------------------------------------------------------------
(* Every set of numbers has a least one.  (The provers cannot apply the    *)
(* library's induction theorems, whose parameter is an operator; they can  *)
(* apply this one, whose parameter is a set.)                              *)
LEMMA Least ==
  ASSUME NEW T, T \subseteq Nat, T # {}
  PROVE  \E x \in T : \A y \in T : x <= y
<1> DEFINE R == OpToRel(<, Nat)
<1>1. IsWellFoundedOn(R, Nat) BY NatLessThanWellFounded, Zenon
<1>2. \A x, y \in Nat : y < x => <<y, x>> \in R BY DEF OpToRel
<1> HIDE DEF R
<1>3. PICK x \in T : \A y \in T : ~(<<y, x>> \in R) BY <1>1, WFMin
<1>4. \A y \in T : ~(y < x) BY <1>2, <1>3
<1>5. \A y \in T : x <= y BY <1>4
<1> QED BY <1>5

(* Induction over the natural numbers.                                     *)
LEMMA Induct ==
  ASSUME NEW T, 0 \in T, \A n \in Nat : n \in T => n + 1 \in T
  PROVE  Nat \subseteq T
<1> SUFFICES ASSUME Nat \ T # {} PROVE FALSE OBVIOUS
<1>1. PICK x \in Nat \ T : \A y \in Nat \ T : x <= y BY Least
<1>2. x # 0 /\ x - 1 \in Nat BY <1>1
<1>3. x - 1 \in T BY <1>1, <1>2
<1>4. (x - 1) + 1 \in T BY <1>2, <1>3
<1>5. (x - 1) + 1 = x BY <1>1
<1> QED BY <1>4, <1>5

(* What belongs in the j-th line of the panel after the first n lines.     *)
Due(lines, n, j) ==
  IF n - LOG_LINES + j >= 1 THEN lines[n - LOG_LINES + j] ELSE NoLine

(* However many lines the server has logged since its state_t was zeroed,  *)
(* the GUI, which knows the ring only by log_head, shows the last          *)
(* LOG_LINES of them, oldest first, below empty lines if there are fewer.  *)
THEOREM PanelShowsLast ==
  ASSUME NEW Lines, NoLine \in Lines, NEW lines \in Seq(Lines),
         NEW ring, ring[0] = NoLog,
         \A i \in 1..Len(lines) : ring[i] = push_log(ring[i - 1], lines[i])
  PROVE  \A j \in 1..LOG_LINES : Shown(ring[Len(lines)])[j] = Due(lines, Len(lines), j)
<1> DEFINE Good(n) == /\ ring[n] \in Rings(Lines)
                      /\ \A j \in 1..LOG_LINES : Shown(ring[n])[j] = Due(lines, n, j)
           T == {n \in Nat : n <= Len(lines) => Good(n)}
<1>0. Len(lines) \in Nat OBVIOUS
<1>1. 0 \in T
  <2>1. NoLog \in Rings(Lines) BY DEF NoLog, Rings, LOG_LINES
  <2>2. \A j \in 1..6 : (0 + (j - 1)) % 6 \in 0..5 OBVIOUS
  <2>3. \A j \in 1..6 : Shown(NoLog)[j] = NoLine BY <2>2 DEF Shown, NoLog, LOG_LINES
  <2>4. \A j \in 1..6 : Due(lines, 0, j) = NoLine BY DEF Due, LOG_LINES
  <2> QED BY <2>1, <2>3, <2>4 DEF LOG_LINES
<1>2. ASSUME NEW n \in Nat, n \in T PROVE n + 1 \in T
  <2>1. SUFFICES ASSUME n + 1 <= Len(lines) PROVE Good(n + 1) OBVIOUS
  <2>2. ring[n] \in Rings(Lines) /\ \A j \in 1..6 : Shown(ring[n])[j] = Due(lines, n, j)
    BY <1>0, <1>2, <2>1 DEF LOG_LINES
  <2> DEFINE line == lines[n + 1]
  <2>3. line \in Lines BY <2>1
  <2>4. ring[n + 1] = push_log(ring[n], line)
    <3>1. n + 1 \in 1..Len(lines) /\ (n + 1) - 1 = n BY <1>0, <2>1
    <3>2. ring[n + 1] = push_log(ring[(n + 1) - 1], lines[n + 1]) BY <3>1
    <3> QED BY <3>1, <3>2
  <2> HIDE DEF line
  <2>5. ring[n + 1] \in Rings(Lines) BY <2>2, <2>3, <2>4, PushKeepsRing
  <2>6. /\ \A j \in 1..5 : Shown(ring[n + 1])[j] = Shown(ring[n])[j + 1]
        /\ Shown(ring[n + 1])[6] = line
    BY <2>2, <2>3, <2>4, PushScrolls DEF LOG_LINES
  <2>7. ASSUME NEW j \in 1..6 PROVE Shown(ring[n + 1])[j] = Due(lines, n + 1, j)
    <3>1. CASE j = 6
      <4>1. Due(lines, n + 1, 6) = line BY DEF Due, LOG_LINES, line
      <4> QED BY <2>6, <3>1, <4>1
    <3>2. CASE j # 6
      <4>1. j \in 1..5 /\ j + 1 \in 1..6 /\ (n + 1) - 6 + j = n - 6 + (j + 1) BY <3>2
      <4>2. Due(lines, n + 1, j) = Due(lines, n, j + 1) BY <4>1 DEF Due, LOG_LINES
      <4> QED BY <2>2, <2>6, <4>1, <4>2
    <3> QED BY <3>1, <3>2
  <2> QED BY <2>5, <2>7 DEF LOG_LINES
<1>3. Nat \subseteq T
  <2> HIDE DEF T
  <2> QED BY <1>1, <1>2, Induct
<1> QED BY <1>0, <1>3

=============================================================================
